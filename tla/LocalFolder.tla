---------------------------- MODULE LocalFolder ----------------------------
(***************************************************************************)
(* The pair's folder on disk and its FolderWatcher.  An event only names a *)
(* path, so the pending ones are a set; the debounce thread hands them out *)
(* one path at a time, at any later moment.                                *)
(***************************************************************************)
EXTENDS SyncTypes

VARIABLES
    local,     \* local[p]: a content, Dir or Absent
    copies,    \* conflict copies on disk: [path, at, body]
    events,    \* paths the watcher has seen and not yet delivered
    watching,  \* the pair has a FolderWatcher
    now        \* wall clock, in the seconds a copy's name is stamped with

folderVars == <<local, copies, events, watching, now>>

Copy == [path : Paths, at : Nat, body : Content \cup {Dir}]

FolderTypeOK ==
    /\ local \in [Paths -> Content \cup {Absent, Dir}]
    /\ copies \in SUBSET Copy
    /\ events \in SUBSET Paths
    /\ watching \in BOOLEAN
    /\ now \in Nat

FolderInit ==
    /\ local = [p \in Paths |-> Absent]
    /\ copies = {}
    /\ events = {}
    /\ watching = FALSE
    /\ now = 0

IsFile(p) == local[p] \in Content
InFolders(p) == \A q \in Ancestors[p] : local[q] = Dir
Empty(p) ==
    /\ \A q \in Below(p) : local[q] = Absent
    /\ \A k \in copies : k.path \notin Below(p)

-----------------------------------------------------------------------------
(* The watcher records whatever is reported while it exists.               *)
Notify(ps) == events' = IF watching THEN events \cup ps ELSE events

(* Path p now holds b: a write, a mkdir, an unlink or a rename onto p.     *)
Put(p, b) ==
    /\ local' = [local EXCEPT ![p] = b]
    /\ Notify({p})

(* create_dir_all for a set of folders; it fails on a file in the way.     *)
CanMakeDirs(ps) == \A q \in ps : ~IsFile(q)
MakeDirs(ps) ==
    /\ local' = [q \in Paths |-> IF q \in ps THEN Dir ELSE local[q]]
    /\ Notify({q \in ps : local[q] = Absent})

(* conflicting_file_name: base name, host and a stamp of one second.       *)
ConflictingFileName(p) == <<p, now>>

(* rename(p, copy): a directory takes everything below it along, and a     *)
(* file replaces the file that already has the copy's name.                *)
Named(copy) == {k \in copies : <<k.path, k.at>> = copy}

CanRenameAside(p, copy) ==
    /\ local[p] # Absent
    /\ \A k \in Named(copy) : k.body \in Content /\ IsFile(p)

RenameAside(p, copy) ==
    /\ local' = [q \in Paths |-> IF q = p \/ q \in Below(p) THEN Absent ELSE local[q]]
    /\ copies' = {k \in copies \ Named(copy) : k.path \notin Below(p)}
                   \cup {[path |-> copy[1], at |-> copy[2], body |-> local[p]]}
    /\ Notify({p})
=============================================================================
