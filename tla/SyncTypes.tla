----------------------------- MODULE SyncTypes -----------------------------
(***************************************************************************)
(* Vocabulary shared by the modules about one folder pair: the paths below *)
(* the pair's local root, the remote items, the file contents, and the     *)
(* values that stand for "nothing".                                        *)
(*                                                                         *)
(* A content is an opaque value and also its own digest: SHA-256 on the    *)
(* local side and the provider's checksum on the remote side are never     *)
(* compared with one another by the code, only each with an earlier value  *)
(* of its own kind, so a digest that tells contents apart is all they need.*)
(***************************************************************************)
EXTENDS Naturals, Sequences, FiniteSets

CONSTANTS
    Paths,      \* relative paths the model looks at, '/'-separated
    Ancestors,  \* Ancestors[p]: the folders strictly between the root and p
    Ids,        \* remote ids the service can hand out
    Content,    \* contents a file can have
    Provider,   \* which adapter the pair's account uses
    None        \* Rust's Option::None

Absent    == "absent"     \* no directory entry at a local path
Dir       == "dir"        \* a directory at a local path
Root      == "root"       \* FolderPair::remote_folder_id
Elsewhere == "elsewhere"  \* a remote place that is none of Paths
Awkward   == "awkward"    \* remote, under a name no local path can have

ASSUME SyncAssumption ==
    /\ Provider \in {"gdrive", "onedrive"}
    /\ Ancestors \in [Paths -> SUBSET Paths]
    /\ \A p \in Paths : p \notin Ancestors[p]
    /\ \A p \in Paths :
         Ancestors[p] # {} =>
           \E q \in Ancestors[p] : Ancestors[q] = Ancestors[p] \ {q}
    /\ Content \cap {Absent, Dir, None} = {}
    /\ Ids \cap {None, Root} = {}
    /\ None \notin Nat \cup {Root, Absent, Dir}
    /\ Paths \cap {Elsewhere, Awkward} = {}

(* The folder that directly holds p; only asked of paths below a folder.   *)
ParentOf(p) ==
    CHOOSE q \in Ancestors[p] : Ancestors[q] = Ancestors[p] \ {q}

(* Everything below folder p, p excluded.                                  *)
Below(p) == {q \in Paths : p \in Ancestors[q]}

(* hash_file(path).ok(): a digest for a file, nothing for a directory or   *)
(* for a path that does not exist.                                         *)
Hash(b) == IF b \in Content THEN b ELSE None
=============================================================================
