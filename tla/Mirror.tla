------------------------------- MODULE Mirror -------------------------------
(***************************************************************************)
(* What a folder pair promises about the files at this computer, apart     *)
(* from cursors, rows, events and calls.  The daemon may replace or delete *)
(* a file only where a decision stands; a decision may be taken only about *)
(* a file that is not the only one of its content; and what the user saves *)
(* while a decision stands falls into its window.  Any other file that is  *)
(* in the way is moved aside and kept.                                     *)
(***************************************************************************)
EXTENDS SyncTypes

VARIABLES
    here,    \* here[p]: what the folder holds at p
    kept,    \* what the conflict copies hold
    known,   \* the contents the cloud has had
    window,  \* the contents saved here where a decision stood
    plan     \* the paths a decision stands for

mirrorVars == <<here, kept, known, window, plan>>

(* Nothing would be lost, or only what fell into a window.                 *)
Vouched(p) == here[p] \in known \cup window \cup {Absent, Dir}

Init ==
    /\ here = [p \in Paths |-> Absent]
    /\ kept = {}
    /\ known = {}
    /\ window = {}
    /\ plan = {}

-----------------------------------------------------------------------------
(* The user and the other clients.                                         *)

Save(p, c) ==
    /\ c \notin known \cup window
    /\ here[p] # Dir
    /\ here' = [here EXCEPT ![p] = c]
    /\ window' = IF p \in plan THEN window \cup {c} ELSE window
    /\ UNCHANGED <<kept, known, plan>>

NothingBelow(p) == \A q \in Below(p) : here[q] = Absent

Tidy(p, b) ==
    /\ b \in {Absent, Dir}
    /\ here[p] # Absent => NothingBelow(p)
    /\ here' = [here EXCEPT ![p] = b]
    /\ UNCHANGED <<kept, known, window, plan>>

Publish(c) ==
    /\ known' = known \cup {c}
    /\ UNCHANGED <<here, kept, window, plan>>

-----------------------------------------------------------------------------
(* The daemon.  With any step it may give up decisions and take new ones.  *)

Replan == plan' \subseteq plan \cup {p \in Paths : Vouched(p)'}

Decide ==
    /\ Replan
    /\ UNCHANGED <<here, kept, known, window>>

Replace(p, c) ==
    /\ p \in plan
    /\ c \in known
    /\ here[p] # Dir
    /\ here' = [here EXCEPT ![p] = c]
    /\ Replan
    /\ UNCHANGED <<kept, known, window>>

Delete(p) ==
    /\ p \in plan
    /\ here[p] = Dir => NothingBelow(p)
    /\ here' = [here EXCEPT ![p] = Absent]
    /\ Replan
    /\ UNCHANGED <<kept, known, window>>

MakeFolders(ps) ==
    /\ \A p \in ps : here[p] \in {Absent, Dir}
    /\ here' = [p \in Paths |-> IF p \in ps THEN Dir ELSE here[p]]
    /\ Replan
    /\ UNCHANGED <<kept, known, window>>

(* A folder takes along what is in it.  Of the copies made before, one of  *)
(* the same name may go.                                                   *)
SetAside(p) ==
    /\ here[p] # Absent
    /\ here[p] \in kept'
    /\ here' = [q \in Paths |-> IF q = p \/ q \in Below(p) THEN Absent ELSE here[q]]
    /\ Replan
    /\ UNCHANGED <<known, window>>

Send(p) ==
    /\ here[p] \in Content
    /\ known' = known \cup {here[p]}
    /\ Replan
    /\ UNCHANGED <<here, kept, window>>

-----------------------------------------------------------------------------
Next ==
    \/ \E p \in Paths, c \in Content : Save(p, c) \/ Replace(p, c)
    \/ \E p \in Paths, b \in {Absent, Dir} : Tidy(p, b)
    \/ \E c \in Content : Publish(c)
    \/ Decide
    \/ \E p \in Paths : Delete(p) \/ SetAside(p) \/ Send(p)
    \/ \E ps \in SUBSET Paths : MakeFolders(ps)

Spec == Init /\ [][Next]_mirrorVars
=============================================================================
