----------------------------- MODULE SaveProofs -----------------------------
(***************************************************************************)
(* The chunks of an upload partition the file, what they leave in the      *)
(* drive is one version of it, and the folder is sent before it, for every *)
(* size, limit, chunk size, debounce and number of saves, however the user *)
(* writes meanwhile.                                                       *)
(***************************************************************************)
EXTENDS SaveAndSend, SequenceTheorems, FiniteSetTheorems, TLAPS

(* The variables of a transfer have their types; it has a file to send.    *)
TransferType ==
    /\ stage \in Stages /\ size \in Nat /\ offset \in Nat /\ body \in Pieces
    /\ file \in Pieces \cup {None}
    /\ writing \in Versions \cup {None}
    /\ stage # "none" \/ writing # None => file # None
    /\ stage = "simple" => size <= SIMPLE_UPLOAD_LIMIT

Filled(v, n) == [k \in 1 .. n |-> v]

(* Between saves the file is a whole version, during one a part of it.     *)
FileInv ==
    /\ writing = None /\ file # None => \E v \in Versions : file = Whole(v)
    /\ writing # None => /\ Len(file) < Full[writing]
                         /\ file = Filled(writing, Len(file))

(* Undisturbed, the transfer has sent what the file still begins with, and *)
(* in the end all of it.                                                   *)
SentInv ==
    /\ stage \in {"simple", "sending"} /\ ~disturbed => writing = None
    /\ stage = "sending" /\ ~disturbed =>
         size = Len(file) /\ body = SubSeq(file, 1, offset)
    /\ stage = "stored" /\ ~disturbed => remote = file

SaveInv == TransferType /\ RangesPartitionFile /\ FileInv /\ SentInv /\ CloudFileWhole

-----------------------------------------------------------------------------
(* How long a chunk is: what is left, and no more than the chunk size.     *)
LEMMA CountBounds ==
  ASSUME size \in Nat, offset \in Nat, offset < size
  PROVE  /\ Count \in 1 .. UPLOAD_CHUNK_SIZE
         /\ offset + Count <= size
         /\ End \in Nat /\ End + 1 = offset + Count /\ End < size
  BY UploadAssumption DEF Count, End

(* What read_exact and the server's receipt add up to.                     *)
LEMMA ChunkAppended ==
  ASSUME body \in Pieces, file \in Pieces, size \in Nat, offset \in Nat, offset < size,
         offset = Len(body), Readable(file)
  PROVE  LET b == body \o SubSeq(file, offset + 1, End + 1)
         IN  /\ b \in Pieces /\ Len(b) = End + 1
             /\ body = SubSeq(file, 1, offset) => b = SubSeq(file, 1, End + 1)
  <1>1. End \in Nat /\ offset + 1 <= End + 1 /\ End + 1 <= Len(file)
    BY CountBounds DEF Readable, Pieces
  <1>2. SubSeq(file, offset + 1, End + 1) \in Seq(Versions)
    BY <1>1, SubSeqProperties DEF Pieces
  <1>3. Len(SubSeq(file, offset + 1, End + 1)) = End + 1 - offset
    BY <1>1, SubSeqProperties DEF Pieces
  <1>4. body = SubSeq(file, 1, offset) =>
          body \o SubSeq(file, offset + 1, End + 1) = SubSeq(file, 1, End + 1)
    <2>1. /\ 1 \in 1 .. Len(file) + 1 /\ offset \in 1 - 1 .. Len(file)
          /\ End + 1 \in offset .. Len(file)
      BY <1>1
    <2>2. SubSeq(file, 1, offset) \o SubSeq(file, offset + 1, End + 1) = SubSeq(file, 1, End + 1)
      BY <1>1, <2>1, ConcatAdjacentSubSeq DEF Pieces
    <2> QED
      BY <2>2
  <1> QED
    BY <1>1, <1>2, <1>3, <1>4 DEF Pieces

(* A write continues the version it belongs to.                            *)
LEMMA FilledFurther ==
  ASSUME NEW v, NEW m \in Nat, NEW n \in Nat
  PROVE  /\ Filled(v, m) \o Filled(v, n) = Filled(v, m + n)
         /\ Len(Filled(v, m)) = m /\ Filled(v, m) \in Seq({v})
  <1>1. Filled(v, m) \in Seq({v}) /\ Len(Filled(v, m)) = m
    BY DEF Filled
  <1>2. Filled(v, n) \in Seq({v}) /\ Len(Filled(v, n)) = n
    BY DEF Filled
  <1>3. Filled(v, m + n) \in Seq({v}) /\ Len(Filled(v, m + n)) = m + n
    BY DEF Filled
  <1>4. \A k \in 1 .. m + n : (Filled(v, m) \o Filled(v, n))[k] = Filled(v, m + n)[k]
    BY <1>1, <1>2 DEF Filled
  <1>5. Filled(v, m) \o Filled(v, n) \in Seq({v})
    BY <1>1, <1>2
  <1> QED
    BY <1>1, <1>2, <1>3, <1>4, <1>5, SeqEqual

-----------------------------------------------------------------------------
(* Nothing is there and nothing is under way.                              *)
LEMMA InitSaveInv == Init => SaveInv
  BY DEF Init, WatcherInit, SessionInit, SaveInv, TransferType, Stages, Pieces,
         RangesPartitionFile, FileInv, SentInv, CloudFileWhole

(* A step that leaves the file and the transfer alone, or ends it, and     *)
(* changes nothing in the drive.                                           *)
LEMMA Unaffected ==
  ASSUME SaveInv, UNCHANGED <<file, writing, remote, disturbed>>,
         UNCHANGED sessionVars \/ EndTransfer,
         doubt' \in {doubt, doubt \cup {"row"}, doubt \ {"row"}}
  PROVE  SaveInv'
  <1>1. TransferType' /\ RangesPartitionFile' /\ SentInv'
    <2>1. CASE UNCHANGED sessionVars
      BY <2>1 DEF SaveInv, TransferType, RangesPartitionFile, SentInv, sessionVars,
                  Count, End
    <2>2. CASE EndTransfer
      BY <2>2 DEF SaveInv, TransferType, RangesPartitionFile, SentInv, EndTransfer,
                  Stages, Pieces
    <2> QED
      BY <2>1, <2>2
  <1>2. FileInv' /\ CloudFileWhole'
    BY DEF SaveInv, FileInv, CloudFileWhole
  <1> QED
    BY <1>1, <1>2 DEF SaveInv

(* A save, begun or continued.                                             *)
LEMMA WrittenStep ==
  ASSUME SaveInv, Written, file' \in Pieces, writing' \in Versions \cup {None}, FileInv'
  PROVE  SaveInv'
  <1>1. TransferType' /\ RangesPartitionFile'
    BY SaveAssumption DEF SaveInv, TransferType, RangesPartitionFile, Written, sessionVars,
                          Count, End, Pieces
  <1>2. SentInv'
    BY DEF SaveInv, TransferType, SentInv, Written, sessionVars
  <1>3. CloudFileWhole'
    BY DEF SaveInv, CloudFileWhole, Written, rowVars
  <1> QED
    BY <1>1, <1>2, <1>3 DEF SaveInv

(* A chunk, the last or another.                                           *)
LEMMA PutChunkStep ==
  ASSUME SaveInv, PutChunk(file), Transfer
  PROVE  SaveInv'
  <1>1. /\ stage = "sending" /\ file \in Pieces /\ body \in Pieces
        /\ size \in Nat /\ offset \in Nat /\ offset = Len(body) /\ offset < size
    BY DEF SaveInv, TransferType, RangesPartitionFile, PutChunk
  <1>2. End \in Nat /\ End < size
    BY <1>1, CountBounds
  <1>3. /\ body' \in Pieces /\ Len(body') = End + 1
        /\ body = SubSeq(file, 1, offset) => body' = SubSeq(file, 1, End + 1)
    BY <1>1, ChunkAppended DEF PutChunk
  <1>4. /\ UNCHANGED <<file, writing, disturbed, size>>
        /\ stage' \in {"sending", "stored"}
    BY DEF PutChunk, Transfer, Transferring, userVars
  <1>5. TransferType'
    BY <1>1, <1>2, <1>3, <1>4 DEF SaveInv, TransferType, PutChunk, Stages
  <1>6. RangesPartitionFile'
    <2>1. CASE Accepted(End)
      <3>1. stage' = "sending" /\ offset' = End + 1 /\ offset' < size'
        BY <1>2, <1>4, <2>1 DEF PutChunk, Accepted
      <3>2. Count' \in 1 .. UPLOAD_CHUNK_SIZE /\ End' < size'
        BY <1>5, <3>1, UploadAssumption DEF TransferType, Count, End
      <3> QED
        BY <1>3, <3>1, <3>2 DEF RangesPartitionFile
    <2>2. CASE ~Accepted(End)
      BY <1>1, <1>2, <1>3, <1>4, <2>2 DEF PutChunk, Accepted, RangesPartitionFile
    <2> QED
      BY <2>1, <2>2
  <1>7. SentInv'
    <2>1. CASE stage' = "stored" /\ ~disturbed
      <3>1. size = Len(file) /\ body = SubSeq(file, 1, offset)
        BY <1>1, <2>1 DEF SaveInv, SentInv
      <3>2. ~Accepted(End)
        BY <2>1 DEF PutChunk
      <3>3. End + 1 = size
        BY <1>1, <1>2, <3>2 DEF Accepted
      <3>4. remote' = file
        BY <1>1, <1>3, <2>1, <3>1, <3>3, SubSeqFull DEF Transfer, Pieces
      <3> QED
        BY <1>4, <2>1, <3>4 DEF SentInv
    <2>2. CASE ~(stage' = "stored" /\ ~disturbed)
      BY <1>1, <1>3, <1>4, <2>2 DEF SaveInv, SentInv, PutChunk
    <2> QED
      BY <2>1, <2>2
  <1>8. FileInv'
    BY <1>4 DEF SaveInv, FileInv
  <1>9. CloudFileWhole'
    <2>1. CASE stage' = "stored" /\ ~disturbed
      BY <1>1, <1>4, <1>7, <2>1, SaveAssumption
      DEF SaveInv, FileInv, SentInv, CloudFileWhole, Pieces
    <2>2. CASE stage' = "stored" /\ disturbed
      BY <2>2 DEF Transfer, InDoubt, CloudFileWhole
    <2>3. CASE stage' # "stored"
      BY <2>3 DEF SaveInv, Transfer, CloudFileWhole
    <2> QED
      BY <2>1, <2>2, <2>3
  <1> QED
    BY <1>5, <1>6, <1>7, <1>8, <1>9 DEF SaveInv

(* The whole of a small file.                                              *)
LEMMA SimplePutStep ==
  ASSUME SaveInv, SimplePut(file), Transfer
  PROVE  SaveInv'
  <1>1. /\ stage = "simple" /\ stage' = "stored" /\ body' = file /\ file \in Pieces
        /\ UNCHANGED <<file, writing, disturbed, size, offset>>
    BY DEF SaveInv, TransferType, SimplePut, Transfer, Transferring, userVars
  <1>2. TransferType' /\ SentInv' /\ FileInv'
    BY <1>1 DEF SaveInv, TransferType, SentInv, FileInv, Stages, Transfer
  <1>4. RangesPartitionFile'
    BY <1>1, UploadAssumption DEF SaveInv, TransferType, RangesPartitionFile
  <1>3. CloudFileWhole'
    BY <1>1, SaveAssumption
    DEF SaveInv, FileInv, SentInv, CloudFileWhole, Transfer, InDoubt, Pieces
  <1> QED
    BY <1>2, <1>3, <1>4 DEF SaveInv

(* The user's steps, the watcher's, the clock's and the scheduler's.       *)
LEMMA NextSaveInv == SaveInv /\ [Next]_vars => SaveInv'
  <1> SUFFICES ASSUME SaveInv, [Next]_vars PROVE SaveInv'
    OBVIOUS
  <1>1. CASE MakeDir \/ TouchDir \/ WatchDir
    BY <1>1, Unaffected DEF MakeDir, TouchDir, WatchDir, rowVars
  <1>2. ASSUME NEW v \in Versions, BeginSave(v) PROVE SaveInv'
    <2>1. file' = <<>> /\ writing' = v /\ Written /\ v # None
      BY <1>2, SaveAssumption DEF BeginSave
    <2>2. FileInv'
      BY <2>1, SaveAssumption DEF FileInv, Filled
    <2> QED
      BY <2>1, <2>2, WrittenStep DEF Pieces
  <1>3. CASE WriteOn
    <2> DEFINE left == Full[writing] - Len(file)
    <2>1. PICK n \in 1 .. left :
            /\ file' = file \o Filled(writing, n)
            /\ writing' = IF n = left THEN None ELSE writing
      BY <1>3 DEF WriteOn, Filled
    <2>2. /\ writing \in Versions /\ writing # None /\ Len(file) \in Nat /\ n \in Nat
          /\ file = Filled(writing, Len(file)) /\ Full[writing] \in Nat /\ Written
      BY <1>3, <2>1, SaveAssumption DEF WriteOn, SaveInv, TransferType, FileInv, Pieces
    <2>3. /\ file' = Filled(writing, Len(file) + n)
          /\ Len(file') = Len(file) + n /\ file' \in Seq({writing})
      <3> DEFINE m == Len(file)
      <3>1. /\ Filled(writing, m) \o Filled(writing, n) = Filled(writing, m + n)
            /\ Len(Filled(writing, m + n)) = m + n /\ Filled(writing, m + n) \in Seq({writing})
        <4>1. m \in Nat /\ n \in Nat /\ m + n \in Nat
          BY <2>2
        <4> QED
          BY <4>1, FilledFurther
      <3>2. file' = Filled(writing, m) \o Filled(writing, n)
        BY <2>1, <2>2
      <3> QED
        BY <3>1, <3>2
    <2>4. FileInv'
      <3>1. CASE n = left
        <4>1. Len(file) + n = Full[writing] /\ writing' = None
          BY <2>1, <2>2, <3>1
        <4>2. file' = Whole(writing)
          BY <2>3, <4>1 DEF Filled, Whole
        <4> QED
          BY <2>2, <4>1, <4>2 DEF FileInv
      <3>2. CASE n # left
        BY <2>1, <2>2, <2>3, <3>2 DEF FileInv
      <3> QED
        BY <3>1, <3>2
    <2> QED
      BY <2>1, <2>2, <2>3, <2>4, WrittenStep DEF Pieces
  <1>4. CASE WatcherThread \/ TimePasses
    BY <1>4, Unaffected DEF WatcherThread, TimePasses, userVars, rowVars
  <1>5. CASE TakeFolder \/ IgnoreFile \/ LoseFile
    BY <1>5, Unaffected DEF TakeFolder, IgnoreFile, LoseFile, Take, userVars, rowVars
  <1>6. CASE TakeFile
    <2>1. /\ UNCHANGED <<file, writing, remote, doubt>> /\ file \in Pieces
          /\ disturbed' = (writing # None)
          /\ stage' = IF Len(file) <= SIMPLE_UPLOAD_LIMIT THEN "simple" ELSE "sending"
          /\ size' = Len(file) /\ offset' = 0 /\ body' = <<>>
      BY <1>6 DEF TakeFile, Take, Metadata, userVars, SaveInv, TransferType
    <2>2. TransferType'
      BY <2>1, SaveAssumption DEF SaveInv, TransferType, Stages, Pieces
    <2>3. RangesPartitionFile'
      <3>1. CASE stage' = "sending"
        <4>1. offset' < size' /\ size' \in Nat /\ offset' = Len(body')
          BY <2>1, <3>1, UploadAssumption DEF Pieces
        <4>2. Count' \in 1 .. UPLOAD_CHUNK_SIZE /\ End' < size'
          BY <2>1, <4>1, UploadAssumption DEF Count, End
        <4> QED
          BY <3>1, <4>1, <4>2 DEF RangesPartitionFile
      <3>2. CASE stage' # "sending"
        BY <2>1, <3>2 DEF RangesPartitionFile
      <3> QED
        BY <3>1, <3>2
    <2>4. SentInv'
      <3>1. SubSeq(file, 1, 0) = <<>>
        BY <2>1, SubSeqEmpty DEF Pieces
      <3> QED
        BY <2>1, <3>1 DEF SentInv
    <2>5. FileInv' /\ CloudFileWhole'
      BY <2>1 DEF SaveInv, FileInv, CloudFileWhole
    <2> QED
      BY <2>2, <2>3, <2>4, <2>5 DEF SaveInv
  <1>7. CASE Transfer
    BY <1>7, PutChunkStep, SimplePutStep DEF Transfer
  <1>8. CASE Record
    BY <1>8, Unaffected DEF Record, userVars, InDoubt
  <1>9. CASE Fail
    BY <1>9, Unaffected DEF Fail, Transferring, userVars
  <1>10. CASE UNCHANGED vars
    BY <1>10, Unaffected DEF vars, userVars, rowVars
  <1> QED
    BY <1>1, <1>2, <1>3, <1>4, <1>5, <1>6, <1>7, <1>8, <1>9, <1>10
    DEF Next, User, Scheduler

(* SaveInv holds in every state.                                           *)
LEMMA SaveInvariant == Spec => []SaveInv
  BY InitSaveInv, NextSaveInv, PTL DEF Spec

(* upload_item's loop asks for consecutive non-empty ranges that end with  *)
(* the file as measured, for every size, limit and chunk size.             *)
THEOREM RangesPartition == Spec => []RangesPartitionFile
  <1>1. SaveInv => RangesPartitionFile
    BY DEF SaveInv
  <1> QED
    BY <1>1, SaveInvariant, PTL

(* The drive never holds a mixture of two versions, or part of one, unless *)
(* the file was being written during the transfer that brought it there.   *)
THEOREM WholeVersions == Spec => []CloudFileWhole
  <1>1. SaveInv => CloudFileWhole
    BY DEF SaveInv
  <1> QED
    BY <1>1, SaveInvariant, PTL

-----------------------------------------------------------------------------
(* Why a file follows its folder: until the folder has its row, the one    *)
(* report of it is ahead of all of the file's, wherever it is.             *)

Excused == rowOfFolder \/ retouched \/ failures > 0

(* Not made yet, in the queue of raw events, pending, or settled.          *)
NotMade == ~folder /\ raw = <<>> /\ DOMAIN pending = {} /\ rx = <<>>
Reported ==
    /\ raw # <<>> /\ raw[1] = "d" /\ \A k \in 2 .. Len(raw) : raw[k] = "d/f"
    /\ DOMAIN pending = {} /\ rx = <<>>
Older ==
    /\ \A k \in 1 .. Len(raw) : raw[k] = "d/f"
    /\ "d" \in DOMAIN pending
    /\ "d/f" \in DOMAIN pending => pending["d/f"] <= pending["d"]
    /\ rx = <<>>
First == rx # <<>> /\ rx[1] = "d"

Ahead == NotMade \/ (folder /\ (Reported \/ Older \/ First))

PendingType == DOMAIN pending \subseteq Watched /\ \A p \in DOMAIN pending : pending[p] \in Nat

FollowInv ==
    /\ raw \in Seq(Watched) /\ rx \in Seq(Watched) /\ PendingType
    /\ {folder, rowOfFolder, retouched} \subseteq BOOLEAN /\ failures \in Nat
    /\ writing # None => folder
    /\ stage # "none" => rowOfFolder
    /\ ~Excused => Ahead
    /\ FileFollowsFolder

-----------------------------------------------------------------------------
(* All that settles in one turn is passed on, with the folder in front.    *)
LEMMA FolderInFront ==
  ASSUME NEW S \in SUBSET Watched, NEW s \in ByDepth(S)
  PROVE  /\ s \in Seq(Watched)
         /\ S = {} => s = <<>>
         /\ "d" \in S => s # <<>> /\ s[1] = "d"
         /\ "d/f" \in S => \E k \in 1 .. Len(s) : s[k] = "d/f"
  <1>1. /\ s \in [1 .. Cardinality(S) -> S]
        /\ \A i, j \in 1 .. Cardinality(S) : i # j => s[i] # s[j]
        /\ \A i, j \in DOMAIN s : i < j => Depth[s[i]] <= Depth[s[j]]
    BY DEF ByDepth, SetToSeqs
  <1>2. CASE S = {}
    <2>1. Cardinality(S) = 0
      BY <1>2, FS_EmptySet
    <2> QED
      BY <1>1, <1>2, <2>1
  <1>3. ASSUME NEW n \in Nat, Cardinality(S) = n PROVE s \in Seq(Watched) /\ Len(s) = n
    <2>1. s \in Seq(S)
      <3>1. s \in [1 .. n -> S]
        BY <1>1, <1>3
      <3> QED
        BY <3>1
    <2>2. DOMAIN s = 1 .. n /\ DOMAIN s = 1 .. Len(s) /\ Len(s) \in Nat
      BY <1>1, <1>3, <2>1, LenProperties
    <2>3. s \in Seq(Watched)
      BY <2>1
    <2>4. Len(s) = n
      <3>1. ASSUME NEW k \in Nat PROVE Cardinality(1 .. k) = k
        <4>1. Cardinality(1 .. k) = IF 1 > k THEN 0 ELSE k - 1 + 1
          BY FS_Interval
        <4> QED
          BY <4>1
      <3> QED
        BY <1>3, <2>2, <3>1
    <2> QED
      BY <2>3, <2>4
  <1>4. ASSUME NEW p \in Watched, S = {p} PROVE s \in Seq(Watched) /\ Len(s) = 1 /\ s[1] = p
    <2>1. Cardinality({p}) = 1
      BY FS_Singleton
    <2>2. Cardinality(S) = 1
      BY <1>4, <2>1
    <2>3. s \in Seq(Watched) /\ Len(s) = 1
      BY <1>3, <2>2
    <2>4. s[1] \in S
      BY <1>1, <2>2
    <2> QED
      BY <1>4, <2>3, <2>4
  <1>5. CASE S = {"d", "d/f"}
    <2>1. Cardinality(S) = 2
      <3>1. IsFiniteSet({"d"}) /\ Cardinality({"d"}) = 1
        BY FS_Singleton
      <3>2. Cardinality({"d"} \cup {"d/f"}) = 2
        BY <3>1, FS_AddElement
      <3>3. S = {"d"} \cup {"d/f"}
        BY <1>5
      <3> QED
        BY <3>2, <3>3
    <2>2. s \in Seq(Watched) /\ Len(s) = 2
      BY <1>3, <2>1
    <2>3. s[1] \in S /\ s[2] \in S /\ s[1] # s[2] /\ Depth[s[1]] <= Depth[s[2]]
      BY <1>1, <2>1
    <2>4. s[1] # "d/f"
      BY <1>5, <2>3, SaveAssumption, WatcherAssumption
    <2>5. s # <<>> /\ s[1] = "d"
      BY <1>5, <2>2, <2>3, <2>4
    <2>6. 2 \in 1 .. Len(s) /\ s[2] = "d/f"
      BY <1>5, <2>2, <2>3, <2>5
    <2> QED
      BY <1>5, <2>2, <2>5, <2>6
  <1>6. S = {} \/ S = {"d"} \/ S = {"d/f"} \/ S = {"d", "d/f"}
    BY SaveAssumption
  <1> QED
    BY <1>2, <1>4, <1>5, <1>6, SaveAssumption

(* One turn of the thread: what was in front stays there, and the folder,  *)
(* pending for at least as long as the file, settles no later.             *)
LEMMA SettledInOrder ==
  ASSUME rx \in Seq(Watched), NEW noted, TakeSettled(noted),
         DOMAIN noted \subseteq Watched, \A p \in DOMAIN noted : noted[p] \in Nat
  PROVE  /\ rx' \in Seq(Watched) /\ PendingType'
         /\ First => First'
         /\ /\ rx = <<>> /\ "d" \in DOMAIN noted
            /\ "d/f" \in DOMAIN noted => noted["d/f"] <= noted["d"]
            => \/ First'
               \/ /\ rx' = <<>> /\ "d" \in DOMAIN pending'
                  /\ "d/f" \in DOMAIN pending' => pending'["d/f"] <= pending'["d"]
  <1>1. PICK s \in ByDepth(Settled(noted)) : rx' = rx \o s
    BY DEF TakeSettled
  <1>2. /\ s \in Seq(Watched)
        /\ Settled(noted) = {} => s = <<>>
        /\ "d" \in Settled(noted) => s # <<>> /\ s[1] = "d"
    BY <1>1, FolderInFront DEF Settled
  <1>3. pending' = [p \in DOMAIN noted \ Settled(noted) |-> noted[p]]
    BY DEF TakeSettled
  <1>4. rx' \in Seq(Watched) /\ (First => First')
    BY <1>1, <1>2 DEF First
  <1>5. PendingType'
    BY <1>3 DEF PendingType
  <1>6. ASSUME rx = <<>>, "d" \in DOMAIN noted,
               "d/f" \in DOMAIN noted => noted["d/f"] <= noted["d"]
        PROVE  \/ First'
               \/ /\ rx' = <<>> /\ "d" \in DOMAIN pending'
                  /\ "d/f" \in DOMAIN pending' => pending'["d/f"] <= pending'["d"]
    <2>1. CASE "d" \in Settled(noted)
      BY <1>1, <1>2, <1>6, <2>1 DEF First
    <2>2. CASE "d" \notin Settled(noted)
      <3>1. Settled(noted) = {}
        BY <1>6, <2>2, WatcherAssumption, SaveAssumption DEF Settled
      <3> QED
        BY <1>1, <1>2, <1>3, <1>6, <3>1
    <2> QED
      BY <2>1, <2>2
  <1> QED
    BY <1>4, <1>5, <1>6

(* There is nothing to report yet.                                         *)
LEMMA InitFollowInv == Init => FollowInv
  <1>1. Init => DOMAIN pending = {} /\ raw = <<>> /\ rx = <<>>
    BY DEF Init, WatcherInit
  <1>2. Init => PendingType /\ Ahead /\ raw \in Seq(Watched) /\ rx \in Seq(Watched)
    BY <1>1 DEF Init, PendingType, Ahead, NotMade
  <1>3. Init => {folder, rowOfFolder, retouched} \subseteq BOOLEAN /\ FileFollowsFolder
    BY DEF Init, FileFollowsFolder
  <1> QED
    BY <1>2, <1>3 DEF Init, SessionInit, FollowInv

(* A step that leaves the way of an event as it is.                        *)
LEMMA SameWay ==
  ASSUME FollowInv, UNCHANGED <<watcherVars, folder, retouched>>,
         rowOfFolder' \in BOOLEAN, rowOfFolder => rowOfFolder',
         failures' \in Nat, failures' >= failures,
         writing' # None => folder', stage' # "none" => rowOfFolder',
         FileFollowsFolder'
  PROVE  FollowInv'
  <1>1. Excused => Excused'
    BY DEF Excused, FollowInv
  <1>2. UNCHANGED Ahead
    BY DEF Ahead, NotMade, Reported, Older, First, watcherVars
  <1> QED
    BY <1>1, <1>2 DEF FollowInv, PendingType, watcherVars

(* A write is reported behind the folder, or not at all.                   *)
LEMMA ReportedBehind ==
  ASSUME FollowInv, folder, Written, writing' # None => folder'
  PROVE  FollowInv'
  <1>1. /\ raw' = Append(raw, "d/f") \/ raw' = raw
        /\ raw \in Seq(Watched)
        /\ UNCHANGED <<pending, rx, folder, rowOfFolder, retouched, failures, dropped, stage>>
    BY DEF Written, Notify, Raise, watcherVars, sessionVars, rowVars, FollowInv
  <1>2. raw' \in Seq(Watched)
    BY <1>1, SaveAssumption
  <1>3. Ahead => Ahead'
    BY <1>1 DEF Ahead, NotMade, Reported, Older, First
  <1> QED
    BY <1>1, <1>2, <1>3 DEF FollowInv, PendingType, Excused, FileFollowsFolder

(* The thread takes the next event, or finds that time has passed.         *)
LEMMA ThreadStep ==
  ASSUME FollowInv, WatcherThread
  PROVE  FollowInv'
  <1>1. /\ raw \in Seq(Watched) /\ rx \in Seq(Watched) /\ PendingType
        /\ UNCHANGED <<folder, writing, stage, rowOfFolder, retouched, failures, dropped>>
    BY DEF WatcherThread, sessionVars, userVars, rowVars, FollowInv
  <1>2. CASE Receive
    <2> DEFINE noted == Noted(Head(raw))
    <2>1. /\ raw # <<>> /\ raw' = Tail(raw) /\ TakeSettled(noted) /\ Head(raw) \in Watched
          /\ Head(raw) = raw[1] /\ raw' \in Seq(Watched)
      BY <1>1, <1>2 DEF Receive
    <2>2. /\ DOMAIN noted = DOMAIN pending \cup {Head(raw)} /\ DOMAIN noted \subseteq Watched
          /\ \A p \in DOMAIN noted : noted[p] = IF p = Head(raw) THEN 0 ELSE pending[p]
          /\ \A p \in DOMAIN noted : noted[p] \in Nat
      BY <1>1, <2>1 DEF Noted, PendingType
    <2>3. /\ rx' \in Seq(Watched) /\ PendingType' /\ (First => First')
          /\ /\ rx = <<>> /\ "d" \in DOMAIN noted
             /\ "d/f" \in DOMAIN noted => noted["d/f"] <= noted["d"]
             => \/ First'
                \/ /\ rx' = <<>> /\ "d" \in DOMAIN pending'
                   /\ "d/f" \in DOMAIN pending' => pending'["d/f"] <= pending'["d"]
      BY <1>1, <2>1, <2>2, SettledInOrder
    <2>4. ASSUME Reported \/ Older PROVE Older' \/ First'
      <3>1. rx = <<>> /\ "d" \in DOMAIN noted
        BY <2>1, <2>2, <2>4 DEF Reported, Older
      <3>2. "d/f" \in DOMAIN noted => noted["d/f"] <= noted["d"]
        <4>1. CASE Reported
          BY <2>1, <2>2, <4>1 DEF Reported
        <4>2. CASE Older
          <5>1. Head(raw) = "d/f"
            BY <1>1, <2>1, <4>2 DEF Older
          <5> QED
            BY <2>2, <4>2, <5>1 DEF Older, PendingType
        <4> QED
          BY <2>4, <4>1, <4>2
      <3>3. \A k \in 1 .. Len(raw') : raw'[k] = "d/f"
        BY <1>1, <2>1, <2>4 DEF Reported, Older
      <3> QED
        BY <2>3, <3>1, <3>2, <3>3 DEF Older
    <2>5. Ahead => Ahead'
      BY <1>1, <2>1, <2>3, <2>4 DEF Ahead, NotMade
    <2> QED
      BY <1>1, <2>1, <2>3, <2>5 DEF FollowInv, Excused, FileFollowsFolder
  <1>3. CASE TimeOut
    <2>1. TakeSettled(pending) /\ raw = <<>> /\ UNCHANGED raw
      BY <1>3 DEF TimeOut
    <2>2. /\ rx' \in Seq(Watched) /\ PendingType' /\ (First => First')
          /\ /\ rx = <<>> /\ "d" \in DOMAIN pending
             /\ "d/f" \in DOMAIN pending => pending["d/f"] <= pending["d"]
             => \/ First'
                \/ /\ rx' = <<>> /\ "d" \in DOMAIN pending'
                   /\ "d/f" \in DOMAIN pending' => pending'["d/f"] <= pending'["d"]
      BY <1>1, <2>1, SettledInOrder DEF PendingType
    <2>3. DOMAIN pending # {}
      BY <1>3 DEF TimeOut, Settled
    <2>4. Ahead => Ahead'
      BY <1>1, <2>1, <2>2, <2>3 DEF Ahead, NotMade, Reported, Older
    <2> QED
      BY <1>1, <2>1, <2>2, <2>4 DEF FollowInv, Excused, FileFollowsFolder
  <1> QED
    BY <1>2, <1>3 DEF WatcherThread

(* Everything pending grows older together.                                *)
LEMMA AgeStep ==
  ASSUME FollowInv, TimePasses
  PROVE  FollowInv'
  <1>1. /\ UNCHANGED <<raw, rx, folder, writing, stage, rowOfFolder, retouched, failures,
                       dropped>>
        /\ pending' = [p \in DOMAIN pending |->
                         IF pending[p] < Debounce THEN pending[p] + 1 ELSE Debounce]
    BY DEF TimePasses, Tick, sessionVars, userVars, rowVars
  <1>2. PendingType' /\ DOMAIN pending' = DOMAIN pending
    BY <1>1, WatcherAssumption DEF FollowInv, PendingType
  <1>3. Older => Older'
    BY <1>1, <1>2, WatcherAssumption DEF Older, FollowInv, PendingType
  <1>4. Ahead => Ahead'
    BY <1>1, <1>2, <1>3 DEF Ahead, NotMade, Reported, First
  <1> QED
    BY <1>1, <1>2, <1>4 DEF FollowInv, Excused, FileFollowsFolder

(* The scheduler takes a path: while the folder has no row and nothing     *)
(* excuses it, that path is the folder.                                    *)
LEMMA TakeStep ==
  ASSUME FollowInv, NEW p \in Watched, Take(p),
         p = "d" => Excused',
         rowOfFolder' \in BOOLEAN, rowOfFolder => rowOfFolder',
         failures' \in Nat, failures' >= failures,
         stage' # "none" => rowOfFolder'
  PROVE  FollowInv'
  <1>1. /\ rx # <<>> /\ p = rx[1] /\ rx' = Tail(rx) /\ rx \in Seq(Watched)
        /\ UNCHANGED <<raw, pending, folder, writing, retouched>>
    BY DEF Take, userVars, FollowInv
  <1>2. rx' \in Seq(Watched)
    BY <1>1
  <1>3. Excused => Excused'
    BY <1>1 DEF Excused, FollowInv
  <1>4. ~Excused => p = "d"
    BY <1>1 DEF FollowInv, Ahead, NotMade, Reported, Older, First
  <1>5. Excused'
    BY <1>3, <1>4
  <1>6. FileFollowsFolder'
    BY <1>5 DEF Excused, FileFollowsFolder
  <1> QED
    BY <1>1, <1>2, <1>5, <1>6 DEF FollowInv, PendingType

(* Every step keeps the folder ahead of the file, or excuses it.           *)
LEMMA NextFollowInv == FollowInv /\ [Next]_vars => FollowInv'
  <1> SUFFICES ASSUME FollowInv, [Next]_vars PROVE FollowInv'
    OBVIOUS
  <1>1. CASE MakeDir
    <2>1. /\ ~folder /\ folder' /\ raw' = Append(raw, "d") /\ raw \in Seq(Watched)
          /\ UNCHANGED <<pending, rx, writing, stage, rowOfFolder, retouched, failures, dropped>>
      BY <1>1 DEF MakeDir, Notify, Raise, sessionVars, rowVars, FollowInv
    <2>2. Ahead => Reported'
      BY <2>1 DEF Ahead, NotMade, Reported
    <2> QED
      BY <2>1, <2>2, SaveAssumption DEF FollowInv, PendingType, Ahead, Excused, FileFollowsFolder
  <1>2. CASE TouchDir
    BY <1>2, SaveAssumption
    DEF TouchDir, Notify, Raise, sessionVars, rowVars, FollowInv, PendingType, Excused,
        FileFollowsFolder
  <1>3. ASSUME NEW v \in Versions, BeginSave(v) PROVE FollowInv'
    BY <1>3, ReportedBehind DEF BeginSave, Written
  <1>4. CASE WriteOn
    BY <1>4, ReportedBehind DEF WriteOn, Written, FollowInv
  <1>5. CASE WatcherThread
    BY <1>5, ThreadStep
  <1>6. CASE TimePasses
    BY <1>6, AgeStep
  <1>7. CASE TakeFolder
    <2>1. /\ Take("d") /\ UNCHANGED sessionVars
          /\ \/ rowOfFolder' = TRUE /\ UNCHANGED failures
             \/ ~rowOfFolder /\ failures' = failures + 1 /\ UNCHANGED rowOfFolder
      BY <1>7 DEF TakeFolder, Fault
    <2>2. failures' \in Nat /\ failures' >= failures /\ (rowOfFolder' \/ failures' > 0)
      BY <2>1 DEF FollowInv
    <2>3. /\ rowOfFolder' \in BOOLEAN /\ (rowOfFolder => rowOfFolder')
          /\ stage' # "none" => rowOfFolder'
      BY <2>1 DEF FollowInv, sessionVars
    <2>4. Excused'
      BY <2>2 DEF Excused
    <2> QED
      BY <2>1, <2>2, <2>3, <2>4, TakeStep, SaveAssumption
  <1>8. CASE IgnoreFile \/ LoseFile
    BY <1>8, TakeStep, SaveAssumption DEF IgnoreFile, LoseFile, FollowInv, rowVars, sessionVars
  <1>9. CASE TakeFile
    BY <1>9, TakeStep, SaveAssumption DEF TakeFile, FollowInv
  <1>10. CASE Transfer \/ Record \/ Fail
    <2>1. /\ stage # "none" /\ rowOfFolder
          /\ UNCHANGED <<watcherVars, userVars, rowOfFolder>>
          /\ failures' = failures \/ failures' = failures + 1
      BY <1>10
      DEF Transfer, SimplePut, PutChunk, Record, Fail, Fault, Transferring, FollowInv
    <2> QED
      BY <2>1, SameWay DEF userVars, FollowInv, FileFollowsFolder
  <1>11. CASE UNCHANGED vars
    BY <1>11, SameWay DEF vars, userVars, rowVars, sessionVars, FollowInv, FileFollowsFolder
  <1>12. CASE WatchDir
    BY <1>12, SameWay DEF WatchDir, rowVars, sessionVars, FollowInv, FileFollowsFolder
  <1> QED
    BY <1>1, <1>2, <1>3, <1>4, <1>5, <1>6, <1>7, <1>8, <1>9, <1>10, <1>11, <1>12
    DEF Next, User, Scheduler

(* A new file is not lost for want of its folder's id, whatever the delays *)
(* of thread and scheduler, unless the folder was reported again or could  *)
(* not be made (watcher.rs, take_settled's sort).                          *)
THEOREM FilesFollowFolders == Spec => []FileFollowsFolder
  <1>1. FollowInv => FileFollowsFolder
    BY DEF FollowInv
  <1> QED
    BY <1>1, InitFollowInv, NextFollowInv, PTL DEF Spec

-----------------------------------------------------------------------------
(* The other variables' types, which the invariants above do not need.     *)
AgesType == \E S \in SUBSET Watched : pending \in [S -> 0 .. Debounce]

RestType ==
    /\ AgesType
    /\ {inView, unreported, disturbed, dropped} \subseteq BOOLEAN
    /\ {rowOfFile, remote} \subseteq Pieces \cup {None}
    /\ saved \subseteq Versions
    /\ doubt \subseteq {"remote", "row"}

SaveTypeInv == SaveInv /\ FollowInv /\ RestType

(* Ages stay within the window: what reaches it leaves in the same turn,   *)
(* or waits for the next.                                                  *)
LEMMA SettledAges ==
  ASSUME NEW noted, NEW S \in SUBSET Watched, noted \in [S -> 0 .. Debounce],
         TakeSettled(noted)
  PROVE  AgesType'
  <1> DEFINE T == S \ Settled(noted)
  <1>1. pending' = [p \in T |-> noted[p]] /\ T \in SUBSET Watched
    BY DEF TakeSettled
  <1>2. pending' \in [T -> 0 .. Debounce]
    BY <1>1 DEF Settled
  <1> QED
    BY <1>1, <1>2 DEF AgesType

LEMMA InitRestType == Init => RestType
  <1> SUFFICES ASSUME Init PROVE RestType
    OBVIOUS
  <1>1. DOMAIN pending = {} /\ pending = [p \in {} |-> 0]
    BY DEF Init, WatcherInit
  <1>2. pending \in [{} -> 0 .. Debounce]
    BY <1>1
  <1>3. {} \in SUBSET Watched
    OBVIOUS
  <1> QED
    BY <1>2, <1>3 DEF Init, RestType, AgesType

(* Time goes on and the thread takes its turns.                            *)
LEMMA NextAges ==
  ASSUME SaveTypeInv, WatcherThread \/ TimePasses
  PROVE  AgesType'
  <1>1. PICK S \in SUBSET Watched : pending \in [S -> 0 .. Debounce]
    BY DEF SaveTypeInv, RestType, AgesType
  <1>2. Debounce \in Nat \ {0} /\ raw \in Seq(Watched)
    BY WatcherAssumption DEF SaveTypeInv, FollowInv
  <1>3. CASE WatcherThread
    <2>1. CASE Receive
      <3> DEFINE p == Head(raw)
                 T == S \cup {p}
      <3>1. p \in Watched /\ TakeSettled(Noted(p)) /\ T \in SUBSET Watched
        BY <1>2, <2>1 DEF Receive
      <3>2. Noted(p) \in [T -> 0 .. Debounce]
        <4>1. Noted(p) = [q \in T |-> IF q = p THEN 0 ELSE pending[q]]
          BY <1>1 DEF Noted
        <4> QED
          BY <1>1, <1>2, <4>1
      <3> QED
        BY <3>1, <3>2, SettledAges
    <2>2. CASE TimeOut
      BY <1>1, <2>2, SettledAges DEF TimeOut
    <2> QED
      BY <1>3, <2>1, <2>2 DEF WatcherThread
  <1>4. CASE TimePasses
    <2>1. pending' = [q \in S |-> IF pending[q] < Debounce THEN pending[q] + 1 ELSE Debounce]
      BY <1>1, <1>4 DEF TimePasses, Tick
    <2>2. pending' \in [S -> 0 .. Debounce]
      BY <1>1, <1>2, <2>1
    <2> QED
      BY <2>2 DEF AgesType
  <1> QED
    BY <1>3, <1>4

(* Each step changes a few of them.                                        *)
LEMMA NextRestType ==
  ASSUME SaveTypeInv, SaveInv', [Next]_vars
  PROVE  RestType'
  <1>1. file \in Pieces \cup {None} /\ body' \in Pieces
    BY DEF SaveTypeInv, SaveInv, TransferType
  <1>2. UNCHANGED pending => AgesType'
    BY DEF SaveTypeInv, RestType, AgesType
  <1>3. CASE MakeDir \/ TouchDir \/ WatchDir
    BY <1>2, <1>3
    DEF MakeDir, TouchDir, WatchDir, Notify, Raise, watcherVars, rowVars, SaveTypeInv, RestType
  <1>4. CASE (\E v \in Versions : BeginSave(v)) \/ WriteOn
    <2>1. Written /\ saved' \subseteq Versions
      BY <1>4 DEF BeginSave, WriteOn, SaveTypeInv, RestType
    <2>2. UNCHANGED <<pending, inView, rowOfFile, remote, doubt, dropped>>
      BY <2>1 DEF Written, Notify, Raise, watcherVars, rowVars
    <2>3. disturbed' \in BOOLEAN /\ unreported' \in BOOLEAN
      BY <2>1 DEF Written, SaveTypeInv, RestType
    <2> QED
      BY <1>2, <2>1, <2>2, <2>3 DEF SaveTypeInv, RestType
  <1>5. CASE WatcherThread \/ TimePasses
    BY <1>5, NextAges
    DEF WatcherThread, TimePasses, userVars, rowVars, SaveTypeInv, RestType
  <1>6. CASE TakeFolder \/ IgnoreFile \/ LoseFile
    BY <1>2, <1>6
    DEF TakeFolder, IgnoreFile, LoseFile, Take, userVars, rowVars, SaveTypeInv, RestType
  <1>7. CASE TakeFile
    <2>1. /\ UNCHANGED <<pending, inView, unreported, rowOfFile, remote, doubt, saved>>
          /\ disturbed' \in BOOLEAN /\ dropped' \in BOOLEAN
      BY <1>7 DEF TakeFile, Take, userVars
    <2> QED
      BY <1>2, <2>1 DEF SaveTypeInv, RestType
  <1>8. CASE Transfer
    <2>1. /\ UNCHANGED <<pending, inView, unreported, rowOfFile, disturbed, dropped, saved>>
          /\ \/ remote' = body' /\ doubt' = InDoubt("remote")
             \/ UNCHANGED <<remote, doubt>>
      BY <1>8 DEF Transfer, Transferring, userVars, watcherVars
    <2> QED
      BY <1>1, <1>2, <2>1 DEF SaveTypeInv, RestType, InDoubt
  <1>9. CASE Record
    BY <1>1, <1>2, <1>9 DEF Record, userVars, watcherVars, SaveTypeInv, RestType, InDoubt
  <1>10. CASE Fail
    BY <1>2, <1>10 DEF Fail, Transferring, userVars, watcherVars, SaveTypeInv, RestType
  <1>11. CASE UNCHANGED vars
    BY <1>2, <1>11 DEF vars, userVars, watcherVars, rowVars, SaveTypeInv, RestType
  <1> QED
    BY <1>3, <1>4, <1>5, <1>6, <1>7, <1>8, <1>9, <1>10, <1>11 DEF Next, User, Scheduler

LEMMA SaveTypeInvariant == Spec => []SaveTypeInv
  <1>1. Init => SaveTypeInv
    BY InitSaveInv, InitFollowInv, InitRestType DEF SaveTypeInv
  <1>2. SaveTypeInv /\ [Next]_vars => SaveTypeInv'
    BY NextSaveInv, NextFollowInv, NextRestType DEF SaveTypeInv
  <1> QED
    BY <1>1, <1>2, PTL DEF Spec

(* Every variable keeps its type; in particular the ages of pending paths  *)
(* stay within the window, and doubt is about the drive and the row only.  *)
THEOREM SavesTyped == Spec => []TypeOK
  <1>1. SaveTypeInv => TypeOK
    BY DEF SaveTypeInv, SaveInv, TransferType, FollowInv, RestType, AgesType, TypeOK,
           WatcherTypeOK
  <1> QED
    BY <1>1, SaveTypeInvariant, PTL

-----------------------------------------------------------------------------
(* Why no edit is forgotten but in the one way.                            *)

(* What is noted stays pending or comes to the scheduler.                  *)
LEMMA NothingLostByThread ==
  ASSUME SaveTypeInv, WatcherThread
  PROVE  OnItsWay => OnItsWay'
  <1>1. /\ raw \in Seq(Watched) /\ rx \in Seq(Watched) /\ DOMAIN pending \subseteq Watched
    BY DEF SaveTypeInv, FollowInv, PendingType
  <1>2. ASSUME NEW noted, TakeSettled(noted), DOMAIN noted \subseteq Watched,
               \/ "d/f" \in DOMAIN noted
               \/ \E k \in DOMAIN rx : rx[k] = "d/f"
        PROVE  OnItsWay'
    <2>1. PICK s \in ByDepth(Settled(noted)) : rx' = rx \o s
      BY <1>2 DEF TakeSettled
    <2>2. /\ s \in Seq(Watched)
          /\ "d/f" \in Settled(noted) => \E k \in 1 .. Len(s) : s[k] = "d/f"
      BY <1>2, <2>1, FolderInFront DEF Settled
    <2>3. CASE \E k \in DOMAIN rx : rx[k] = "d/f"
      <3>1. PICK k \in DOMAIN rx : rx[k] = "d/f"
        BY <2>3
      <3>2. k \in DOMAIN rx' /\ rx'[k] = "d/f"
        BY <1>1, <2>1, <2>2, <3>1
      <3> QED
        BY <3>2 DEF OnItsWay
    <2>4. CASE "d/f" \in Settled(noted)
      <3>1. PICK k \in 1 .. Len(s) : s[k] = "d/f"
        BY <2>2, <2>4
      <3>2. Len(rx) + k \in DOMAIN rx' /\ rx'[Len(rx) + k] = "d/f"
        BY <1>1, <2>1, <2>2, <3>1
      <3> QED
        BY <3>2 DEF OnItsWay
    <2>5. CASE "d/f" \in DOMAIN noted \ Settled(noted)
      BY <1>2, <2>5 DEF TakeSettled, OnItsWay
    <2> QED
      BY <1>2, <2>3, <2>4, <2>5
  <1>3. CASE Receive
    <2>1. /\ raw # <<>> /\ raw' = Tail(raw) /\ TakeSettled(Noted(Head(raw)))
          /\ Head(raw) \in Watched
      BY <1>1, <1>3 DEF Receive
    <2>2. DOMAIN Noted(Head(raw)) = DOMAIN pending \cup {Head(raw)}
      BY DEF Noted
    <2>3. CASE \E k \in DOMAIN raw : raw[k] = "d/f" /\ k # 1
      <3>1. PICK k \in DOMAIN raw : raw[k] = "d/f" /\ k # 1
        BY <2>3
      <3>2. k - 1 \in DOMAIN raw' /\ raw'[k - 1] = "d/f"
        BY <1>1, <2>1, <3>1
      <3> QED
        BY <3>2 DEF OnItsWay, Unheard
    <2>4. CASE Head(raw) = "d/f" \/ "d/f" \in DOMAIN pending \/ \E k \in DOMAIN rx : rx[k] = "d/f"
      BY <1>1, <1>2, <2>1, <2>2, <2>4
    <2> QED
      BY <1>1, <2>1, <2>3, <2>4 DEF OnItsWay, Unheard
  <1>4. CASE TimeOut
    BY <1>1, <1>2, <1>4 DEF TimeOut, OnItsWay, Unheard
  <1> QED
    BY <1>3, <1>4 DEF WatcherThread

(* A path taken from the queue leaves the others there.                    *)
LEMMA OthersRemain ==
  ASSUME SaveTypeInv, Take("d")
  PROVE  OnItsWay => OnItsWay'
  <1>1. /\ rx \in Seq(Watched) /\ rx # <<>> /\ rx[1] = "d" /\ rx' = Tail(rx)
        /\ UNCHANGED <<raw, pending>>
    BY DEF Take, SaveTypeInv, FollowInv
  <1>2. ASSUME NEW k \in DOMAIN rx, rx[k] = "d/f" PROVE OnItsWay'
    <2>1. k - 1 \in DOMAIN rx' /\ rx'[k - 1] = "d/f"
      BY <1>1, <1>2
    <2> QED
      BY <2>1 DEF OnItsWay
  <1> QED
    BY <1>1, <1>2 DEF OnItsWay, Unheard

(* A raised event is behind the others.                                    *)
LEMMA RaisedBehind ==
  ASSUME SaveTypeInv, NEW p \in Watched, Notify(p)
  PROVE  OnItsWay \/ p = "d/f" => OnItsWay'
  <1>1. /\ raw \in Seq(Watched) /\ raw' = Append(raw, p) /\ UNCHANGED <<pending, rx>>
    BY DEF Notify, Raise, SaveTypeInv, FollowInv
  <1>2. ASSUME NEW k \in DOMAIN raw, raw[k] = "d/f" PROVE OnItsWay'
    <2>1. k \in DOMAIN raw' /\ raw'[k] = "d/f"
      BY <1>1, <1>2
    <2> QED
      BY <2>1 DEF OnItsWay, Unheard
  <1>3. ASSUME p = "d/f" PROVE OnItsWay'
    <2>1. Len(raw) + 1 \in DOMAIN raw' /\ raw'[Len(raw) + 1] = "d/f"
      BY <1>1, <1>3
    <2> QED
      BY <2>1 DEF OnItsWay, Unheard
  <1> QED
    BY <1>1, <1>2, <1>3 DEF OnItsWay, Unheard

(* A step that leaves the file, the transfer and what is known of it alone.*)
LEMMA StillFollowed ==
  ASSUME ForgetInv, OnItsWay => OnItsWay',
         UNCHANGED <<file, unreported, stage, disturbed, rowOfFile, remote, doubt, dropped>>
  PROVE  ForgetInv'
  BY DEF ForgetInv, Followed, Explained

LEMMA NextForgetInv ==
  ASSUME SaveTypeInv, SaveTypeInv', ForgetInv, [Next]_vars
  PROVE  ForgetInv'
  <1>1. /\ "d" \in Watched /\ "d/f" \in Watched
        /\ stage # "none" => file # None
        /\ stage' = "stored" /\ ~disturbed' => remote' = file'
    BY SaveAssumption DEF SaveTypeInv, SaveInv, TransferType, SentInv
  <1>2. CASE MakeDir \/ TouchDir
    <2>1. OnItsWay => OnItsWay'
      BY <1>1, <1>2, RaisedBehind DEF MakeDir, TouchDir
    <2> QED
      BY <1>2, <2>1, StillFollowed DEF MakeDir, TouchDir, sessionVars, rowVars
  <1>3. CASE (\E v \in Versions : BeginSave(v)) \/ WriteOn
    <2>1. Written /\ (OnItsWay' \/ unreported')
      BY <1>1, <1>3, RaisedBehind DEF BeginSave, WriteOn, Written
    <2>2. file' # None
      <3>1. CASE \E v \in Versions : BeginSave(v)
        <4>1. file' = <<>> /\ <<>> \in Seq(Versions)
          BY <3>1 DEF BeginSave
        <4> QED
          BY <4>1, SaveAssumption
      <3>2. CASE WriteOn
        <4>1. writing # None /\ writing \in Versions /\ file \in Pieces
          BY <3>2 DEF WriteOn, SaveTypeInv, SaveInv, TransferType
        <4>2. PICK n \in 1 .. Full[writing] - Len(file) :
                file' = file \o [k \in 1 .. n |-> writing]
          BY <3>2 DEF WriteOn
        <4>3. [k \in 1 .. n |-> writing] \in Seq(Versions)
          BY <4>1
        <4>4. file' \in Seq(Versions)
          BY <4>1, <4>2, <4>3 DEF Pieces
        <4> QED
          BY <4>4, SaveAssumption
      <3> QED
        BY <1>3, <3>1, <3>2
    <2> QED
      BY <1>1, <2>1, <2>2 DEF Written, sessionVars, rowVars, ForgetInv, Followed, Explained
  <1>4. CASE WatcherThread
    BY <1>4, NothingLostByThread, StillFollowed
    DEF WatcherThread, sessionVars, userVars, rowVars
  <1>5. CASE TimePasses
    <2>1. UNCHANGED OnItsWay
      BY <1>5 DEF TimePasses, Tick, OnItsWay, Unheard
    <2> QED
      BY <1>5, <2>1, StillFollowed DEF TimePasses, sessionVars, userVars, rowVars
  <1>6. CASE TakeFolder
    BY <1>6, OthersRemain, StillFollowed DEF TakeFolder, Take, sessionVars, userVars
  <1>7. CASE IgnoreFile
    BY <1>1, <1>7
    DEF IgnoreFile, Take, sessionVars, userVars, rowVars, ForgetInv, Followed, Explained
  <1>8. CASE LoseFile
    BY <1>1, <1>8
    DEF LoseFile, Take, sessionVars, userVars, ForgetInv, Followed, Explained
  <1>9. CASE TakeFile
    BY <1>1, <1>9 DEF TakeFile, Take, Metadata, userVars, ForgetInv, Followed
  <1>10. CASE Transfer
    <2>1. stage # "none" /\ stage' # "none" /\ file' = file
      BY <1>10 DEF Transfer, SimplePut, PutChunk, Transferring, userVars
    <2> QED
      BY <1>1, <2>1 DEF ForgetInv, Followed
  <1>11. CASE Record
    <2>1. /\ stage' = "none" /\ rowOfFile' = file /\ doubt' = InDoubt("row")
          /\ UNCHANGED <<file, remote, dropped, disturbed>>
          /\ ~disturbed => remote = file
      BY <1>11 DEF Record, EndTransfer, userVars, SaveTypeInv, SaveInv, SentInv
    <2>2. disturbed => "row" \in doubt'
      BY <2>1 DEF InDoubt
    <2> QED
      BY <1>1, <2>1, <2>2 DEF ForgetInv, Followed, Explained
  <1>12. CASE Fail
    BY <1>1, <1>12
    DEF Fail, EndTransfer, Transferring, userVars, ForgetInv, Followed, Explained
  <1>13. CASE UNCHANGED vars
    <2>1. UNCHANGED OnItsWay
      BY <1>13 DEF vars, watcherVars, OnItsWay, Unheard
    <2> QED
      BY <1>13, <2>1, StillFollowed DEF vars, sessionVars, userVars, rowVars
  <1>14. CASE WatchDir
    <2>1. UNCHANGED OnItsWay
      BY <1>14 DEF WatchDir, watcherVars, OnItsWay, Unheard
    <2> QED
      BY <1>14, <2>1, StillFollowed DEF WatchDir, sessionVars, rowVars
  <1> QED
    BY <1>2, <1>3, <1>4, <1>5, <1>6, <1>7, <1>8, <1>9, <1>10, <1>11, <1>12, <1>13, <1>14
    DEF Next, User, Scheduler

(* A version of the file is followed by an event or a transfer until it is *)
(* in the drive or its loss has one of the three reasons, and outside late *)
(* digests and failures the row tells what the drive holds.                *)
THEOREM EditsFollowed == Spec => []ForgetInv
  <1>1. Init => ForgetInv
    BY DEF Init, SessionInit, ForgetInv, Followed, Explained
  <1>2. SaveTypeInv /\ SaveTypeInv' /\ ForgetInv /\ [Next]_vars => ForgetInv'
    BY NextForgetInv
  <1> QED
    BY <1>1, <1>2, SaveTypeInvariant, PTL DEF Spec

(* When nothing is on its way, an edit that is not in the drive was let go *)
(* by a failure, by a digest taken after the file had changed again, or    *)
(* was made before its folder had a watch: debounce, drain and             *)
(* local_action's comparison forget nothing else.                          *)
THEOREM OnlyRacesForget == Spec => []ForgottenOnlyInRaces
  <1>1. ForgetInv => ForgottenOnlyInRaces
    BY DEF ForgetInv, Followed, OnItsWay, AtRest, ForgottenOnlyInRaces
  <1> QED
    BY <1>1, EditsFollowed, PTL
=============================================================================
