---------------------------- MODULE MirrorProofs ----------------------------
(***************************************************************************)
(* The engine implements the mirror, for every value of the constants: the *)
(* initial states map to the mirror's, and every step maps to one of its   *)
(* steps.  SurvivalInv is what makes the decisions vouched for.            *)
(***************************************************************************)
EXTENDS SyncSurvivalProofs

(* The mapping of the mirror's history and of its plan.                    *)
SameHistory ==
    /\ InCloudOnce' = InCloudOnce
    /\ Tagged("racy")' = Tagged("racy")

NewStakesVouched ==
    \A p \in Paths : AtStake(p)' => AtStake(p) \/ M!Vouched(p)'

-----------------------------------------------------------------------------
(* Marks that are not about the cloud or a window leave the mirror's       *)
(* history as it is.                                                       *)
LEMMA HistoryKept ==
  ASSUME NEW S, ledger' = ledger \cup S,
         \A c : /\ <<c, "wroteThere">> \notin S
                /\ <<c, "sent">> \notin S
                /\ <<c, "racy">> \notin S
  PROVE  SameHistory
  BY DEF SameHistory, InCloudOnce, Tagged

(* An action that comes to nothing leaves it as it is, too.                *)
LEMMA UnservedHistory ==
  \A c : /\ <<c, "wroteThere">> \notin Unserved
         /\ <<c, "sent">> \notin Unserved
         /\ <<c, "racy">> \notin Unserved
  BY OtherTag DEF Unserved, Tags

(* What classify vouches for is what the mirror does.                      *)
LEMMA SafeIsVouched ==
  ASSUME TypeOK', NEW p \in Paths
  PROVE  Safe(p)' <=> M!Vouched(p)'
  BY SyncAssumption
  DEF TypeOK, FolderTypeOK, Safe, IsFile, Covered, Absent, Dir, M!Vouched, M!Absent, M!Dir

(* The plan of the mirror is what is at stake.                             *)
LEMMA ReplanFromStakes ==
  ASSUME NewStakesVouched
  PROVE  M!Replan
  BY DEF NewStakesVouched, M!Replan

(* While the decisions are the same, or fewer, nothing new is at stake.    *)
LEMMA FewerStakes ==
  ASSUME SurvivalInv,
         \/ UNCHANGED <<todo, phase>>
         \/ UNCHANGED todo /\ phase' \in {"idle", "due", "classify", "apply"}
         \/ Working /\ Finish
         \/ todo' = <<>> /\ phase' \in {"idle", "due", "classify", "apply"}
  PROVE  NewStakesVouched
  <1>1. todo \in Seq(Action) /\ (Working => todo # <<>>)
    BY DEF SurvivalInv, TypeInv, TaskInv, TypeOK, EngineTypeOK
  <1>2. CASE UNCHANGED <<todo, phase>>
    BY <1>2 DEF NewStakesVouched, AtStake, Act
  <1>3. CASE UNCHANGED todo /\ phase' \in {"idle", "due", "classify", "apply"}
    BY <1>3 DEF NewStakesVouched, AtStake
  <1>4. CASE Working /\ Finish
    <2>1. todo' = Tail(todo) /\ phase' \in {"idle", "apply"} /\ todo # <<>>
      BY <1>1, <1>4 DEF Finish
    <2>2. \A k \in DOMAIN todo' : k + 1 \in DOMAIN todo /\ todo'[k] = todo[k + 1]
      BY <1>1, <2>1
    <2> QED
      BY <2>1, <2>2 DEF NewStakesVouched, AtStake
  <1>5. CASE todo' = <<>> /\ phase' \in {"idle", "due", "classify", "apply"}
    BY <1>5 DEF NewStakesVouched, AtStake
  <1> QED
    BY <1>2, <1>3, <1>4, <1>5

(* A step that leaves files, copies and history alone only decides.        *)
LEMMA DecideStep ==
  ASSUME UNCHANGED <<local, copies>>, SameHistory, NewStakesVouched
  PROVE  M!Next
  BY ReplanFromStakes DEF SameHistory, M!Next, M!Decide

(* Nothing is here, kept, known or decided at the start.                   *)
LEMMA InitMirror == Init => M!Init
  BY DEF Init, FolderInit, InCloudOnce, Tagged, AtStake, Absent, M!Init, M!Absent

-----------------------------------------------------------------------------
(* Every step of the engine, of the user and of the other clients is one   *)
(* of the mirror's, or leaves what the mirror shows as it is.              *)
LEMMA NextMirror == SurvivalInv /\ [Next]_vars => [M!Next]_(M!mirrorVars)
  <1> DEFINE Goal == M!Next \/ UNCHANGED M!mirrorVars
  <1> SUFFICES ASSUME SurvivalInv, [Next]_vars PROVE Goal
    OBVIOUS
  <1> USE DEF cloudVars, dbVars, folderVars, engineVars
  <1>0. TypeOK /\ TypeInv /\ SurvivalInv'
    BY NextSurvivalInv DEF SurvivalInv, TypeInv
  <1>00. TypeOK'
    BY <1>0 DEF SurvivalInv, TypeInv
  <1>1. CASE RefreshWatchers
    <2>1. SameHistory
      BY <1>1, HistoryKept, OtherTag DEF RefreshWatchers, Tags
    <2> QED
      BY <1>1, <2>1, FewerStakes, DecideStep DEF RefreshWatchers
  <1>2. ASSUME UNCHANGED ledger PROVE SameHistory
    BY <1>2 DEF SameHistory, InCloudOnce, Tagged
  <1>3. ASSUME NEW p \in Paths, IgnoreEvent(p) PROVE Goal
    BY <1>2, <1>3, FewerStakes, DecideStep DEF IgnoreEvent, Deliver
  <1>4. ASSUME NEW p \in Paths, LoseEvent(p) PROVE Goal
    <2>1. SameHistory
      BY <1>4, HistoryKept, OtherTag DEF LoseEvent, Tags
    <2> QED
      BY <1>4, <2>1, FewerStakes, DecideStep DEF LoseEvent, Deliver
  <1>5. ASSUME NEW p \in Paths, TakeEvent(p) PROVE Goal
    <2>1. NewStakesVouched
      BY <1>5 DEF TakeEvent, LocalAction, NewStakesVouched, AtStake
    <2> QED
      BY <1>2, <1>5, <2>1, DecideStep DEF TakeEvent, Deliver
  <1>6. CASE BeginPoll
    BY <1>2, <1>6, FewerStakes, DecideStep DEF BeginPoll
  <1>7. CASE List
    <2>1. SameHistory
      BY <1>2, <1>7, HistoryKept, OtherTag DEF List, Tags
    <2> QED
      BY <1>7, <2>1, FewerStakes, DecideStep DEF List
  <1>8. ASSUME NEW ch \in batch, ClassifyChange(ch) PROVE Goal
    <2>1. \A p \in Paths : M!Vouched(p)' <=> Safe(p)
      <3>1. \A p \in Paths : Safe(p)' <=> M!Vouched(p)'
        BY <1>00, SafeIsVouched
      <3> QED
        BY <1>8, <3>1 DEF ClassifyChange, Safe, IsFile, Covered, InCloudOnce, Tagged
    <2>2. CASE UNCHANGED todo
      BY <1>2, <1>8, <2>2, FewerStakes, DecideStep DEF ClassifyChange
    <2>3. ASSUME NEW p \in PathsFor(ch), todo' = Append(todo, RemoteAction(p, ch))
          PROVE  Goal
      <3>1. p \in Paths /\ todo \in Seq(Action)
        BY <1>0 DEF PathsFor, RelativePathsForRemoteId, TypeOK, EngineTypeOK
      <3>2. Verdict(p, ch) \in {"download", "delete"} => Safe(p)
        BY <3>1, VerdictSafe DEF SurvivalInv
      <3>3. ASSUME NEW k \in DOMAIN todo', todo'[k].kind \in {"download", "delete"}
            PROVE  \/ Safe(p) /\ todo'[k].path = p
                   \/ k \in DOMAIN todo /\ todo'[k] = todo[k]
        <4>1. \/ todo'[k] = RemoteAction(p, ch)
              \/ k \in DOMAIN todo /\ todo'[k] = todo[k]
          BY <2>3, <3>1, <3>3, AppendElement
        <4> QED
          BY <3>2, <3>3, <4>1 DEF RemoteAction
      <3>4. NewStakesVouched
        BY <1>8, <2>1, <3>1, <3>3 DEF ClassifyChange, NewStakesVouched, AtStake
      <3> QED
        BY <1>2, <1>8, <3>4, DecideStep DEF ClassifyChange
    <2> QED
      BY <1>8, <2>2, <2>3 DEF ClassifyChange, Queue
  <1>9. CASE CycleFails
    BY <1>2, <1>9, FewerStakes, DecideStep DEF CycleFails
  <1>10. CASE CommitCursor
    BY <1>2, <1>10, FewerStakes, DecideStep DEF CommitCursor
  <1>11. CASE MoveAside
    <2> DEFINE copy == ConflictingFileName(Act.path)
               gone == Mark({k.body : k \in Named(copy)}, "clobbered")
    <2>1. /\ phase = "apply" /\ Working /\ RenameAside(Act.path, copy)
          /\ local[Act.path] # Absent /\ Act.path \in Paths
      BY <1>0, <1>11, ActDecided DEF MoveAside, CanMoveAside, CanRenameAside, Working
    <2>2. SameHistory
      <3>1. ledger' = ledger \cup gone \/ ledger' = ledger \cup (gone \cup Unserved)
        BY <1>11 DEF MoveAside
      <3>2. \A c : /\ <<c, "wroteThere">> \notin gone
                   /\ <<c, "sent">> \notin gone
                   /\ <<c, "racy">> \notin gone
        BY OtherTag DEF Tags
      <3> HIDE DEF gone
      <3> QED
        BY <3>1, <3>2, UnservedHistory, HistoryKept
    <2>3. local[Act.path] \in {k.body : k \in copies}'
      <3> DEFINE k == [path |-> copy[1], at |-> copy[2], body |-> local[Act.path]]
      <3>1. k \in copies' /\ k.body = local[Act.path]
        BY <2>1 DEF RenameAside
      <3> QED
        BY <3>1
    <2>4. NewStakesVouched
      <3>1. CASE Finish
        BY <2>1, <3>1, FewerStakes
      <3>2. CASE phase' = "moved" /\ UNCHANGED todo
        <4>1. \A p \in Paths : p = Act.path => M!Vouched(p)'
          BY <2>1 DEF RenameAside, Absent, M!Vouched, M!Absent
        <4>2. \A p \in Paths : AtStake(p)' => AtStake(p) \/ p = Act.path
          BY <3>2 DEF AtStake, Act
        <4> QED
          BY <4>1, <4>2 DEF NewStakesVouched
      <3> QED
        BY <1>11, <3>1, <3>2 DEF MoveAside
    <2>5. ASSUME NEW p \in Paths, p = Act.path PROVE M!SetAside(p)
      BY <2>1, <2>5, <2>2, <2>3, <2>4, ReplanFromStakes
      DEF RenameAside, SameHistory, Below, Absent, M!SetAside, M!Below, M!Absent
    <2> QED
      BY <2>1, <2>5 DEF M!Next
  <1>12. ASSUME NEW ps, ps \subseteq Paths, CanMakeDirs(ps), MakeDirs(ps), SameHistory,
                NewStakesVouched, UNCHANGED copies
         PROVE  Goal
    <2>1. \A p \in ps : local[p] \in {Absent, Dir}
      BY <1>0, <1>12 DEF CanMakeDirs, IsFile, TypeOK, FolderTypeOK
    <2>2. M!MakeFolders(ps)
      BY <1>12, <2>1, ReplanFromStakes
      DEF MakeDirs, SameHistory, Absent, Dir, M!MakeFolders, M!Absent, M!Dir
    <2> QED
      BY <1>12, <2>2 DEF M!Next
  <1>13. ASSUME Working
         PROVE  Ancestors[Act.path] \subseteq Paths /\ Act.path \in Paths
    BY <1>0, <1>13, ActDecided, SyncAssumption
  <1>14. CASE MakeFolder
    <2>1. Working /\ Finish
      BY <1>14 DEF MakeFolder, CanMakeFolder, Cleared, Working
    <2>2. SameHistory /\ NewStakesVouched
      BY <1>2, <1>14, <2>1, FewerStakes DEF MakeFolder
    <2> QED
      BY <1>12, <1>13, <1>14, <2>1, <2>2 DEF MakeFolder, CanMakeFolder
  <1>15. CASE Fetch
    <2>1. Working
      BY <1>15 DEF Fetch, CanFetch, Cleared, Working
    <2>2. SameHistory
      BY <1>2, <1>15, UnservedHistory, HistoryKept DEF Fetch
    <2>3. CASE Finish
      BY <1>12, <1>13, <1>15, <2>1, <2>2, <2>3, FewerStakes DEF Fetch, CanFetch
    <2>4. CASE phase' = "fetched" /\ UNCHANGED todo
      <3>1. \A p \in Paths : p = Act.path => M!Vouched(p)'
        <4>1. Safe(Act.path)'
          BY <1>0, <2>4 DEF SurvivalInv, StepSafe
        <4>2. \A p \in Paths : p = Act.path => Safe(p)'
          BY <2>4, <4>1 DEF Safe, IsFile, Act, Covered, InCloudOnce, Tagged
        <4> QED
          BY <1>00, <4>2, SafeIsVouched
      <3>2. \A p \in Paths : AtStake(p)' => AtStake(p) \/ p = Act.path
        BY <2>4 DEF AtStake, Act
      <3>3. NewStakesVouched
        BY <3>1, <3>2 DEF NewStakesVouched
      <3> QED
        BY <1>12, <1>13, <1>15, <2>1, <2>2, <3>3 DEF Fetch, CanFetch
    <2> QED
      BY <1>15, <2>3, <2>4 DEF Fetch
  <1>16. CASE Install
    <2> DEFINE stamp == Mark({got.body}, "fetched")
    <2>1. /\ phase = "fetched" /\ Working /\ local[Act.path] # Dir
          /\ got.body \in InCloudOnce /\ Act.path \in Paths /\ AtStake(Act.path)
      BY <1>0, <1>16, ActDecided DEF Install, CanInstall, Working, SurvivalInv, StepSafe
    <2>2. SameHistory
      <3>1. /\ ledger' = ledger \cup (Destroyed(Act.path) \cup stamp)
            /\ \A c : /\ <<c, "wroteThere">> \notin Destroyed(Act.path) \cup stamp
                      /\ <<c, "sent">> \notin Destroyed(Act.path) \cup stamp
                      /\ <<c, "racy">> \notin Destroyed(Act.path) \cup stamp
        BY <1>16, OtherTag DEF Install, Destroyed, Tags
      <3> QED
        BY <3>1, HistoryKept
    <2>3. NewStakesVouched
      BY <1>16, <2>1 DEF Install, NewStakesVouched, AtStake, Act
    <2>4. ASSUME NEW p \in Paths, p = Act.path, NEW c \in Content, c = got.body
          PROVE  M!Replace(p, c)
      BY <1>16, <2>1, <2>2, <2>3, <2>4, ReplanFromStakes
      DEF Install, Put, SameHistory, Dir, M!Replace, M!Dir
    <2>5. got.body \in Content
      BY <2>1 DEF InCloudOnce, Tagged
    <2> QED
      BY <2>1, <2>4, <2>5 DEF M!Next
  <1>17. CASE Record
    <2>1. Working /\ Finish
      BY <1>17 DEF Record, CanRecord, Working
    <2> QED
      BY <1>2, <1>17, <2>1, FewerStakes, DecideStep DEF Record
  <1>18. CASE CreateFolder
    <2>1. Working /\ Finish
      BY <1>18 DEF CreateFolder, CanCreateFolder, Working
    <2> QED
      BY <1>2, <1>18, <2>1, FewerStakes, DecideStep DEF CreateFolder
  <1>19. CASE Send
    <2> DEFINE sent == Mark({local[Act.path]}, "sent")
               gone(i) == Mark({cloud[i].body} \ KnownHere, "overwritten")
    <2>1. Working /\ phase = "apply" /\ IsFile(Act.path) /\ Act.path \in Paths
      BY <1>0, <1>19, ActDecided DEF Send, CanSend, Working
    <2>2. PICK i :
            \/ /\ phase' = "sent"
               /\ ledger' = ledger \cup (sent \cup gone(i))
               /\ UNCHANGED todo
            \/ /\ Finish
               /\ ledger' = ledger \cup (sent \cup gone(i) \cup Unserved)
      BY <1>19 DEF Send
    <2>3. /\ InCloudOnce' = InCloudOnce \cup {local[Act.path]}
          /\ Tagged("racy")' = Tagged("racy")
      <3>1. \A c : /\ <<c, "wroteThere">> \notin gone(i) \cup Unserved
                   /\ <<c, "sent">> \notin gone(i) \cup Unserved
                   /\ <<c, "racy">> \notin gone(i) \cup Unserved
        BY OtherTag, UnservedHistory DEF Tags
      <3>2. \A c : /\ <<c, "wroteThere">> \notin sent /\ <<c, "racy">> \notin sent
                   /\ <<c, "sent">> \in sent <=> c = local[Act.path]
        BY <2>1 DEF Mark, IsFile
      <3> HIDE DEF sent, gone
      <3> QED
        BY <2>1, <2>2, <3>1, <3>2 DEF InCloudOnce, Tagged, IsFile
    <2>4. NewStakesVouched
      <3>1. CASE Finish
        BY <2>1, <3>1, FewerStakes
      <3>2. CASE phase' = "sent" /\ UNCHANGED todo
        <4>1. \A p \in Paths : p = Act.path => M!Vouched(p)'
          BY <1>19, <2>3 DEF Send, M!Vouched
        <4>2. \A p \in Paths : AtStake(p)' => AtStake(p) \/ p = Act.path
          BY <3>2 DEF AtStake, Act
        <4> QED
          BY <4>1, <4>2 DEF NewStakesVouched
      <3> QED
        BY <2>2, <3>1, <3>2
    <2>5. ASSUME NEW p \in Paths, p = Act.path PROVE M!Send(p)
      BY <1>19, <2>1, <2>3, <2>4, <2>5, ReplanFromStakes DEF Send, IsFile, M!Send
    <2> QED
      BY <2>1, <2>5 DEF M!Next
  <1>20. CASE DeleteLocal
    <2>1. /\ Working /\ Finish /\ Act.path \in Paths /\ AtStake(Act.path)
          /\ local[Act.path] = Dir => Empty(Act.path)
      BY <1>0, <1>20, ActDecided DEF DeleteLocal, CanDeleteLocal, Working
    <2>2. SameHistory
      <3>1. \A c : /\ <<c, "wroteThere">> \notin Destroyed(Act.path)
                   /\ <<c, "sent">> \notin Destroyed(Act.path)
                   /\ <<c, "racy">> \notin Destroyed(Act.path)
        BY OtherTag DEF Destroyed, Tags
      <3> QED
        BY <1>20, <3>1, HistoryKept DEF DeleteLocal
    <2>3. NewStakesVouched
      BY <2>1, FewerStakes
    <2>4. CASE local[Act.path] = Absent
      BY <1>20, <2>2, <2>3, <2>4, DecideStep DEF DeleteLocal
    <2>5. CASE local[Act.path] # Absent
      <3>1. ASSUME NEW p \in Paths, p = Act.path PROVE M!Delete(p)
        BY <1>20, <2>1, <2>2, <2>3, <2>5, <3>1, ReplanFromStakes
        DEF DeleteLocal, Put, Empty, SameHistory, Below, Absent, Dir,
            M!Delete, M!NothingBelow, M!Below, M!Absent, M!Dir
      <3> QED
        BY <2>1, <3>1 DEF M!Next
    <2> QED
      BY <2>4, <2>5
  <1>21. CASE ActionFails
    <2>1. SameHistory
      BY <1>21, UnservedHistory, HistoryKept DEF ActionFails
    <2> QED
      BY <1>21, <2>1, FewerStakes, DecideStep DEF ActionFails
  <1>22. ASSUME UNCHANGED <<todo, phase>>
         PROVE  \A p \in Paths : AtStake(p)' <=> AtStake(p)
    BY <1>22 DEF AtStake, Act
  <1>23. ASSUME NEW p \in Paths, NEW c \in Content, UserWrite(p, c) PROVE Goal
    <2> DEFINE S == Mark({c}, "wroteHere")
                      \cup (IF watching THEN {} ELSE Mark({c}, "blind"))
                      \cup (IF paused THEN Mark({c}, "paused") ELSE {})
               racy == IF AtStake(p) THEN Mark({c}, "racy") ELSE {}
    <2>1. c \notin InCloudOnce \cup Tagged("racy")
      BY <1>23 DEF UserWrite, Unused, InCloudOnce, Tagged, Tags
    <2>2. /\ InCloudOnce' = InCloudOnce
          /\ Tagged("racy")' = IF AtStake(p) THEN Tagged("racy") \cup {c}
                               ELSE Tagged("racy")
      <3>1. ledger' = ledger \cup (S \cup racy)
        BY <1>23 DEF UserWrite
      <3>2. \A d : /\ <<d, "wroteThere">> \notin S
                   /\ <<d, "sent">> \notin S
                   /\ <<d, "racy">> \notin S
        BY OtherTag DEF Tags
      <3>3. \A d : /\ <<d, "wroteThere">> \notin racy /\ <<d, "sent">> \notin racy
                   /\ <<d, "racy">> \in racy <=> AtStake(p) /\ d = c
        BY DEF Mark
      <3> HIDE DEF S, racy
      <3> QED
        BY <3>1, <3>2, <3>3 DEF InCloudOnce, Tagged
    <2>3. {q \in Paths : AtStake(q)'} = {q \in Paths : AtStake(q)}
      BY <1>22, <1>23 DEF UserWrite, ByUser
    <2>4. M!Save(p, c)
      BY <1>23, <2>1, <2>2, <2>3 DEF UserWrite, Put, ByUser, Dir, M!Save, M!Dir
    <2> QED
      BY <2>4 DEF M!Next
  <1>24. ASSUME NEW p \in Paths, NEW b \in {Absent, Dir}, Put(p, b), ByUser, UNCHANGED ledger,
                local[p] # Absent => Empty(p)
         PROVE  Goal
    <2>1. {q \in Paths : AtStake(q)'} = {q \in Paths : AtStake(q)}
      BY <1>22, <1>24 DEF ByUser
    <2>2. M!Tidy(p, b)
      BY <1>2, <1>24, <2>1
      DEF Put, ByUser, Empty, SameHistory, Below, Absent, Dir,
          M!Tidy, M!NothingBelow, M!Below, M!Absent, M!Dir
    <2> QED
      BY <2>2 DEF M!Next, Absent, Dir, M!Absent, M!Dir
  <1>25. ASSUME UNCHANGED <<local, copies, todo, phase>>, SameHistory PROVE Goal
    BY <1>25, FewerStakes, DecideStep
  <1>26. ASSUME NEW p \in Paths, UserMakeDir(p) \/ UserRemove(p) \/ FileTouched(p)
         PROVE  Goal
    BY <1>2, <1>24, <1>25, <1>26 DEF UserMakeDir, UserRemove, FileTouched, ByUser
  <1>27. CASE SetPaused \/ RemovePair \/ NextSecond
    BY <1>2, <1>25, <1>27 DEF SetPaused, RemovePair, NextSecond
  <1>28. ASSUME NEW c \in Content, ByClient, ledger' = ledger \cup Mark({c}, "wroteThere")
         PROVE  Goal
    <2>1. InCloudOnce' = InCloudOnce \cup {c} /\ Tagged("racy")' = Tagged("racy")
      <3>1. \A d : /\ <<d, "sent">> \notin Mark({c}, "wroteThere")
                   /\ <<d, "racy">> \notin Mark({c}, "wroteThere")
                   /\ <<d, "wroteThere">> \in Mark({c}, "wroteThere") <=> d = c
        BY DEF Mark
      <3> QED
        BY <1>28, <3>1 DEF InCloudOnce, Tagged
    <2>2. {q \in Paths : AtStake(q)'} = {q \in Paths : AtStake(q)}
      BY <1>22, <1>28 DEF ByClient
    <2>3. M!Publish(c)
      BY <1>28, <2>1, <2>2 DEF ByClient, M!Publish
    <2> QED
      BY <2>3 DEF M!Next
  <1>29. CASE Clients
    <2>1. ASSUME NEW i \in Ids, NEW c \in Content,
                 \/ \E p \in Paths : RemoteCreate(i, p, c)
                 \/ RemoteCreateAwkward(i, c)
                 \/ RemoteEdit(i, c)
          PROVE  Goal
      BY <1>28, <2>1 DEF RemoteCreate, RemoteCreateAwkward, RemoteEdit
    <2>2. ASSUME NEW i \in Ids,
                 \/ \E p \in Paths : RemoteCreateFolder(i, p)
                 \/ \E p \in Paths \cup {Elsewhere} : RemoteMove(i, p)
                 \/ RemoteDelete(i)
          PROVE  Goal
      <3>1. ByClient /\ UNCHANGED ledger
        BY <2>2 DEF RemoteCreateFolder, RemoteMove, RemoteDelete
      <3> QED
        BY <1>2, <1>25, <3>1 DEF ByClient
    <2> QED
      BY <1>29, <2>1, <2>2 DEF Clients
  <1>30. CASE UNCHANGED vars
    BY <1>2, <1>25, <1>30 DEF vars
  <1>31. CASE Daemon
    BY <1>1, <1>3, <1>4, <1>5, <1>6, <1>7, <1>8, <1>9, <1>10, <1>11, <1>14, <1>15,
       <1>16, <1>17, <1>18, <1>19, <1>20, <1>21, <1>31
    DEF Daemon, LocalEvents, RunCycle, Apply
  <1>32. CASE User
    BY <1>23, <1>26, <1>27, <1>32 DEF User
  <1> QED
    BY <1>27, <1>29, <1>30, <1>31, <1>32 DEF Next

(* Every behaviour of the engine, whatever the surroundings do and however *)
(* many calls fail, is one the mirror allows: run_cycle and apply destroy  *)
(* no file of this computer except where the mirror does.                  *)
THEOREM EngineImplementsMirror == Spec => ImplementsMirror
  <1>1. Spec => []SurvivalInv
    BY SurvivalInvariant
  <1>2. SurvivalInv /\ [Next]_vars => [M!Next]_(M!mirrorVars)
    BY NextMirror
  <1> QED
    BY <1>1, <1>2, InitMirror, PTL DEF Spec, ImplementsMirror, M!Spec
=============================================================================
