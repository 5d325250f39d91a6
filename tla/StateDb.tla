------------------------------ MODULE StateDb ------------------------------
(***************************************************************************)
(* What the daemon keeps in SQLite about one folder pair: its row of       *)
(* folder_pairs with the change cursor, and its rows of the files and the  *)
(* conflicts table, which refer to it and go with it.  Every operation is  *)
(* one statement under the StateDb mutex, so each is one atomic step.      *)
(***************************************************************************)
EXTENDS SyncTypes

VARIABLES
    present,    \* the pair has its row of folder_pairs
    row,        \* row[p]: the files row of relative path p
    cursor,     \* folder_pairs.change_cursor
    conflicts   \* the conflicts table: which copy was made of which path

dbVars == <<present, row, cursor, conflicts>>

Status == {"unknown", "synced", "conflict"}

Row == [id : Ids \cup {None}, lhash : Content \cup {None},
        rhash : Content \cup {None}, status : Status]

(* What the queries answer when there is no row.                           *)
NoRow == [id |-> None, lhash |-> None, rhash |-> None, status |-> "unknown"]

(* A conflict copy is named after its path and the second it was made in.  *)
CopyName == Paths \X Nat

DbTypeOK ==
    /\ present \in BOOLEAN
    /\ row \in [Paths -> Row]
    /\ cursor \in Nat \cup {None}
    /\ conflicts \in SUBSET CopyName

DbInit ==
    /\ present = TRUE
    /\ row = [p \in Paths |-> NoRow]
    /\ cursor = None
    /\ conflicts = {}

-----------------------------------------------------------------------------
RemoteIdForRelativePath(p) == row[p].id

(* The query has no ORDER BY: with several rows for one id it may answer   *)
(* any of them.                                                            *)
RelativePathsForRemoteId(i) == {p \in Paths : row[p].id = i}

(* An insertion for a pair that is gone fails on its foreign key.          *)
RecordFileState(p, id, lhash, rhash, status) ==
    /\ present
    /\ row' = [row EXCEPT ![p] = [id |-> id, lhash |-> lhash, rhash |-> rhash,
                                  status |-> status]]

RecordSynced(p, id, lhash, rhash) == RecordFileState(p, id, lhash, rhash, "synced")

RemoveFileRecord(p) == row' = [row EXCEPT ![p] = NoRow]

(* Mutated form of the definition that follows: conflict_path is not set.  *)
PathOnly(p, copy) == present /\ conflicts' = conflicts \cup {<<p, None>>}

RecordConflict(p, copy) == present /\ conflicts' = conflicts \cup {<<p, copy[2]>>}

(* An update of no row is no error.                                        *)
SetChangeCursor(c) == cursor' = IF present THEN c ELSE cursor

(* ON DELETE CASCADE takes the pair's other rows along.                    *)
RemovePairRow ==
    /\ present' = FALSE
    /\ row' = [p \in Paths |-> NoRow]
    /\ cursor' = None
    /\ conflicts' = {}
=============================================================================
