------------------------------ MODULE Watcher ------------------------------
(***************************************************************************)
(* FolderWatcher: the thread between the notify library and the scheduler. *)
(* Every turn of its loop takes at most one raw event, notes the paths it  *)
(* names, and passes on what has been silent for Debounce, folders before  *)
(* what they hold.  Ages stand for the Instants of PendingChanges, so that *)
(* time needs no bound: beyond Debounce they all mean the same.            *)
(***************************************************************************)
EXTENDS Naturals, SequencesExt

CONSTANTS
    Watched,    \* the paths below the watched folder
    Depth,      \* how many components a path has
    Debounce    \* DEBOUNCE, in ticks

ASSUME WatcherAssumption == Depth \in [Watched -> Nat] /\ Debounce \in Nat \ {0}

VARIABLES
    raw,        \* raw_rx: events the thread has not taken yet
    pending,    \* PendingChanges: the age of each path noted
    rx          \* rx: settled paths the scheduler has not taken yet

watcherVars == <<raw, pending, rx>>

WatcherTypeOK ==
    /\ raw \in Seq(Watched)
    /\ \E S \in SUBSET Watched : pending \in [S -> 0 .. Debounce]
    /\ rx \in Seq(Watched)

WatcherInit ==
    /\ raw = <<>>
    /\ pending = <<>>
    /\ rx = <<>>

-----------------------------------------------------------------------------
(* inotify and notify: events arrive in the order of what they are about.  *)
Raise(p) == raw' = Append(raw, p) /\ UNCHANGED <<pending, rx>>

Noted(p) == [q \in DOMAIN pending \cup {p} |-> IF q = p THEN 0 ELSE pending[q]]

(* Mutated form: the age must exceed the window.                           *)
SettledLater(noted) == {p \in DOMAIN noted : noted[p] > Debounce}

Settled(noted) == {p \in DOMAIN noted : noted[p] >= Debounce}

(* Mutated form: the order is left to the HashMap.                         *)
AnyOrder(ps) == SetToSeqs(ps)

(* The sort is by depth alone; paths of one depth come in any order.       *)
ByDepth(ps) ==
    {s \in SetToSeqs(ps) : \A i, j \in DOMAIN s : i < j => Depth[s[i]] <= Depth[s[j]]}

TakeSettled(noted) ==
    /\ \E s \in ByDepth(Settled(noted)) : rx' = rx \o s
    /\ pending' = [p \in DOMAIN noted \ Settled(noted) |-> noted[p]]

Receive ==
    /\ raw # <<>>
    /\ raw' = Tail(raw)
    /\ TakeSettled(Noted(Head(raw)))

(* recv_timeout ran out; a turn that passes nothing on changes nothing.    *)
TimeOut ==
    /\ raw = <<>>
    /\ Settled(pending) # {}
    /\ TakeSettled(pending)
    /\ UNCHANGED raw

Tick ==
    /\ \E p \in DOMAIN pending : pending[p] < Debounce
    /\ pending' = [p \in DOMAIN pending |->
                     IF pending[p] < Debounce THEN pending[p] + 1 ELSE Debounce]
    /\ UNCHANGED <<raw, rx>>
=============================================================================
