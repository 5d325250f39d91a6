--------------------------- MODULE AccountManager ---------------------------
(***************************************************************************)
(* The account manager behind its one lock: the D-Bus calls that change    *)
(* accounts and folder pairs, the folder_pairs table, and the scheduler's  *)
(* loop, which takes the lock three times a round and polls what it found  *)
(* due after it let go of it.  Calls that ask the network or the user keep *)
(* the lock meanwhile.  What a cycle does to a pair is SyncEngine.         *)
(***************************************************************************)
EXTENDS Naturals, Sequences, FiniteSets

CONSTANTS
    Accounts,     \* account ids that can be drawn
    Pairs,        \* pair ids that can be drawn
    Callers,      \* D-Bus calls that can be under way at a time
    None,
    MaxFaults,    \* bound: database statements that fail
    MaxRestarts   \* bound: times the daemon is started again

Loop == "loop"

ASSUME AccountAssumption ==
    /\ None \notin Accounts \cup Pairs \cup Callers \cup {Loop}
    /\ Loop \notin Callers
    /\ Pairs # {}
    /\ MaxFaults \in Nat /\ MaxRestarts \in Nat

VARIABLES
    handles,      \* AccountManager::handles: the live accounts
    pairs,        \* pairs[p]: the FolderPair in its account's handle
    stored,       \* stored[p]: its row of folder_pairs
    pendingSyncs, \* AccountManager::pending_syncs
    holders,      \* who keeps the lock across an await: at most one
    queue,        \* who waits for the lock, first come first served
    calls,        \* calls[c]: the D-Bus call under way
    pc,           \* where the loop is
    requested,    \* the pairs this round may poll
    due,          \* the snapshot of pairs still to be polled
    running,      \* the pair whose cycle runs
    issued,       \* ids drawn so far: no id is drawn twice
    faults, restarts,
    ledger        \* history: what failures and removals left behind

memory == <<handles, pairs, pendingSyncs>>
lock == <<holders, queue>>
loop == <<pc, requested, due, running>>
bounds == <<faults, restarts>>
vars == <<memory, stored, lock, calls, loop, issued, bounds, ledger>>

Ops == {"addAccount", "removeAccount", "addPair", "removePair", "pause", "resume",
        "syncNow"}
Call == [op : Ops, account : Accounts \cup {None}, pair : Pairs \cup {None}]
Pair == [account : Accounts \cup {None}, paused : BOOLEAN]
NoPair == [account |-> None, paused |-> FALSE]
Leftovers == {"orphan",     \* a row whose pair is in no handle any more
              "left",       \* a request for a pair that went with its account
              "cancelled"}  \* a request dropped by a removal that then failed

(* The types of what the manager, its callers and the loop keep.            *)
TypeOK ==
    /\ handles \in SUBSET Accounts
    /\ pairs \in [Pairs -> Pair]
    /\ stored \in [Pairs -> {"none", "active", "paused"}]
    /\ pendingSyncs \in SUBSET Pairs
    /\ holders \in SUBSET (Callers \cup {Loop})
    /\ queue \in Seq(Callers \cup {Loop})
    /\ calls \in [Callers -> Call \cup {None}]
    /\ pc \in {"tick", "take", "refresh", "snapshot", "poll"}
    /\ requested \in SUBSET Pairs
    /\ due \in SUBSET Pairs
    /\ running \in Pairs \cup {None}
    /\ issued \in SUBSET (Accounts \cup Pairs)
    /\ faults \in Nat /\ restarts \in Nat
    /\ ledger \in SUBSET (Pairs \X Leftovers)

Init ==
    /\ handles = {}
    /\ pairs = [p \in Pairs |-> NoPair]
    /\ pendingSyncs = {}
    /\ stored = [p \in Pairs |-> "none"]
    /\ holders = {} /\ queue = <<Loop>>
    /\ calls = [c \in Callers |-> None]
    /\ pc = "tick" /\ requested = {} /\ due = {} /\ running = None
    /\ issued = {}
    /\ faults = 0 /\ restarts = 0
    /\ ledger = {}

Known(p) == pairs[p].account # None
PairsOf(a) == {p \in Pairs : pairs[p].account = a}

(* due_syncs.  Every live account has a provider.                          *)
Active(p) == Known(p) /\ ~pairs[p].paused
DueSyncs == {p \in Pairs : Active(p)}

Fault == faults < MaxFaults /\ faults' = faults + 1 /\ UNCHANGED restarts
NoFault == UNCHANGED bounds

-----------------------------------------------------------------------------
(* The lock.  tokio's Mutex is granted in the order it was asked for.      *)

(* Mutated form: the lock does not exclude (two locks, or a shared one).   *)
NextInLine(t) == queue # <<>> /\ Head(queue) = t

Granted(t) == holders = {} /\ queue # <<>> /\ Head(queue) = t

(* A block without an await: the lock is back before anyone can look.      *)
Visit(t) == Granted(t) /\ queue' = Tail(queue) /\ UNCHANGED holders

(* A block that awaits with the guard in hand.                             *)
Seize(t) == Granted(t) /\ queue' = Tail(queue) /\ holders' = holders \cup {t}
Release(t) == t \in holders /\ holders' = holders \ {t} /\ UNCHANGED queue

-----------------------------------------------------------------------------
(* D-Bus calls.                                                            *)

Ask(c, op, a, p) ==
    /\ calls[c] = None
    /\ calls' = [calls EXCEPT ![c] = [op |-> op, account |-> a, pair |-> p]]
    /\ queue' = Append(queue, c)
    /\ UNCHANGED <<memory, stored, holders, loop, issued, bounds, ledger>>

Doing(c, ops) == calls[c] # None /\ calls[c].op \in ops
Answer(c) == calls' = [calls EXCEPT ![c] = None]

PausedRow(p, flag) ==
    stored' = [stored EXCEPT ![p] = IF @ = "none" THEN "none"
                                    ELSE IF flag THEN "paused" ELSE "active"]
PausedPair(p, flag) ==
    pairs' = [pairs EXCEPT ![p].paused = Known(p) /\ flag]

(* Mutated form: pausing leaves the pair's request behind.                 *)
RequestsKept(p, flag) == pendingSyncs

RequestsAfter(p, flag) == IF flag THEN pendingSyncs \ {p} ELSE pendingSyncs

(* Mutated form of SetPaused: the pair in memory is changed before the     *)
(* row, whose statement may fail.                                          *)
MemoryFirst(c) ==
    /\ Doing(c, {"pause", "resume"}) /\ Visit(c) /\ Answer(c)
    /\ PausedPair(calls[c].pair, calls[c].op = "pause")
    /\ \/ PausedRow(calls[c].pair, calls[c].op = "pause") /\ NoFault
       \/ UNCHANGED stored /\ Fault
    /\ UNCHANGED <<handles, pendingSyncs, loop, issued, ledger>>

SetPaused(c) ==
    /\ Doing(c, {"pause", "resume"}) /\ Visit(c) /\ Answer(c)
    /\ LET p == calls[c].pair
           flag == calls[c].op = "pause"
       IN  \/ /\ PausedRow(p, flag)
              /\ PausedPair(p, flag)
              /\ pendingSyncs' = RequestsAfter(p, flag)
              /\ NoFault
           \/ UNCHANGED <<stored, pairs, pendingSyncs>> /\ Fault
    /\ UNCHANGED <<handles, loop, issued, ledger>>

TriggerSync(c) ==
    /\ Doing(c, {"syncNow"}) /\ Visit(c) /\ Answer(c)
    /\ pendingSyncs' = pendingSyncs \cup ({calls[c].pair} \cap DueSyncs)
    /\ UNCHANGED <<handles, pairs, stored, loop, issued, bounds, ledger>>

RemoveFolderPair(c) ==
    /\ Doing(c, {"removePair"}) /\ Visit(c) /\ Answer(c)
    /\ LET p == calls[c].pair
       IN  /\ pendingSyncs' = pendingSyncs \ {p}
           /\ \/ /\ stored' = [stored EXCEPT ![p] = "none"]
                 /\ pairs' = [pairs EXCEPT ![p] = NoPair]
                 /\ NoFault
                 /\ UNCHANGED ledger
              \/ /\ Fault
                 /\ ledger' = ledger \cup ({p} \cap pendingSyncs) \X {"cancelled"}
                 /\ UNCHANGED <<stored, pairs>>
    /\ UNCHANGED <<handles, loop, issued>>

(* The browser, the provider or the secret store is asked.                 *)
Await(c) ==
    /\ Doing(c, {"addAccount", "removeAccount", "addPair"})
    /\ calls[c].op = "addPair" => calls[c].account \in handles
    /\ Seize(c)
    /\ UNCHANGED <<memory, stored, calls, loop, issued, bounds, ledger>>

(* add_folder_pair for an account that is not there, or on a path that is  *)
(* no directory.                                                           *)
Refuse(c) ==
    /\ Doing(c, {"addPair"}) /\ Visit(c) /\ Answer(c)
    /\ UNCHANGED <<memory, stored, loop, issued, bounds, ledger>>

(* No authorization within five minutes, no such remote folder, tokens     *)
(* that cannot be stored, a pair that cannot be inserted.                  *)
GiveUp(c) ==
    /\ Doing(c, {"addAccount", "addPair"}) /\ Release(c) /\ Answer(c)
    /\ UNCHANGED <<memory, stored, loop, issued, bounds, ledger>>

AddAccount(c) ==
    /\ Doing(c, {"addAccount"}) /\ Release(c) /\ Answer(c)
    /\ \E a \in Accounts \ issued :
         /\ handles' = handles \cup {a}
         /\ issued' = issued \cup {a}
    /\ UNCHANGED <<pairs, pendingSyncs, stored, loop, bounds, ledger>>

AddFolderPair(c) ==
    /\ Doing(c, {"addPair"}) /\ Release(c) /\ Answer(c)
    /\ \E p \in Pairs \ issued :
         /\ stored' = [stored EXCEPT ![p] = "active"]
         /\ pairs' = [pairs EXCEPT ![p] = [account |-> calls[c].account,
                                           paused |-> FALSE]]
         /\ issued' = issued \cup {p}
    /\ UNCHANGED <<handles, pendingSyncs, loop, bounds, ledger>>

(* Mutated form: the rows of the account are not deleted.                  *)
RowsForgotten(gone, kept) == stored

RowsAfter(gone, kept) ==
    [p \in Pairs |-> IF p \in gone \ kept THEN "none" ELSE stored[p]]

(* A row that cannot be deleted stays, and no error is reported; requests  *)
(* for the pairs are not taken back.                                       *)
RemoveAccount(c) ==
    /\ Doing(c, {"removeAccount"}) /\ Release(c) /\ Answer(c)
    /\ LET gone == PairsOf(calls[c].account)
       IN  /\ handles' = handles \ {calls[c].account}
           /\ pairs' = [p \in Pairs |-> IF p \in gone THEN NoPair ELSE pairs[p]]
           /\ \E kept \in SUBSET gone :
                /\ IF kept = {} THEN NoFault ELSE Fault
                /\ stored' = RowsAfter(gone, kept)
                /\ ledger' = ledger \cup kept \X {"orphan"}
                                    \cup (gone \cap pendingSyncs) \X {"left"}
    /\ UNCHANGED <<pendingSyncs, loop, issued>>

-----------------------------------------------------------------------------
(* run_forever.                                                            *)

Again == pc' = "tick" /\ queue' = Append(queue, Loop)

(* The watchers follow due_syncs, and local changes are applied.           *)
Tick ==
    /\ pc = "tick" /\ Granted(Loop)
    /\ pc' = "take"
    /\ queue' = Append(Tail(queue), Loop)
    /\ UNCHANGED <<memory, stored, holders, calls, requested, due, running, issued, bounds,
                   ledger>>

(* The poll timer may have elapsed: then every pair may be polled.         *)
TakeSyncRequests ==
    /\ pc = "take" /\ Granted(Loop)
    /\ requested' \in {Pairs, pendingSyncs}
    /\ pendingSyncs' = {}
    /\ pc' = IF requested' = {} THEN "tick" ELSE "refresh"
    /\ queue' = Append(Tail(queue), Loop)
    /\ UNCHANGED <<handles, pairs, stored, holders, calls, due, running, issued, bounds,
                   ledger>>

(* refresh_expiring_tokens asks the providers one after the other.         *)
RefreshExpiringTokens ==
    /\ pc = "refresh" /\ Seize(Loop)
    /\ pc' = "snapshot"
    /\ UNCHANGED <<memory, stored, calls, requested, due, running, issued, bounds, ledger>>

(* Mutated forms: the requests are looked up again, after they were taken; *)
(* the accounts are collected in place of the pairs.                       *)
StillPending == DueSyncs \cap pendingSyncs
DueAccounts == {pairs[p].account : p \in DueSyncs \cap requested}

Snapshot == DueSyncs \cap requested

TakeSnapshot ==
    /\ pc = "snapshot" /\ Loop \in holders
    /\ holders' = holders \ {Loop}
    /\ due' = Snapshot
    /\ requested' = {}
    /\ IF due' = {} THEN Again ELSE pc' = "poll" /\ UNCHANGED queue
    /\ UNCHANGED <<memory, stored, calls, running, issued, bounds, ledger>>

BeginCycle(p) ==
    /\ pc = "poll" /\ running = None
    /\ p \in due
    /\ due' = due \ {p}
    /\ running' = p
    /\ UNCHANGED <<memory, stored, lock, calls, pc, requested, issued, bounds, ledger>>

EndCycle ==
    /\ pc = "poll" /\ running # None
    /\ running' = None
    /\ IF due = {} THEN Again ELSE UNCHANGED <<pc, queue>>
    /\ UNCHANGED <<memory, stored, holders, calls, requested, due, issued, bounds, ledger>>

(* The daemon is started again: AccountManager::new loads no accounts.     *)
Restart ==
    /\ restarts < MaxRestarts
    /\ restarts' = restarts + 1
    /\ handles' = {}
    /\ pairs' = [p \in Pairs |-> NoPair]
    /\ pendingSyncs' = {}
    /\ holders' = {} /\ queue' = <<Loop>>
    /\ calls' = [c \in Callers |-> None]
    /\ pc' = "tick" /\ requested' = {} /\ due' = {} /\ running' = None
    /\ ledger' = ledger \cup {p \in Pairs : stored[p] # "none"} \X {"orphan"}
    /\ UNCHANGED <<stored, issued, faults>>
-----------------------------------------------------------------------------
Clients ==
    \E c \in Callers :
        \/ Ask(c, "addAccount", None, None)
        \/ \E a \in issued \cap Accounts, op \in {"removeAccount", "addPair"} :
             Ask(c, op, a, None)
        \/ \E p \in issued \cap Pairs, op \in {"removePair", "pause", "resume", "syncNow"} :
             Ask(c, op, None, p)

Serve(c) == SetPaused(c) \/ TriggerSync(c) \/ RemoveFolderPair(c) \/ Await(c)
            \/ Refuse(c) \/ GiveUp(c) \/ AddAccount(c) \/ AddFolderPair(c)
            \/ RemoveAccount(c)

RunForever == \/ Tick \/ TakeSyncRequests \/ RefreshExpiringTokens \/ TakeSnapshot
              \/ (\E p \in Pairs : BeginCycle(p)) \/ EndCycle

Next == Clients \/ (\E c \in Callers : Serve(c)) \/ RunForever \/ Restart

Spec == Init /\ [][Next]_vars

(* A call that was made returns; the loop goes on.  Nothing is asked of    *)
(* the poll timer.                                                         *)
FairSpec == Spec /\ WF_vars(RunForever) /\ \A c \in Callers : WF_vars(Serve(c))

-----------------------------------------------------------------------------
(* The pairs in memory are the rows of the table, paused flags included,   *)
(* however the calls interleave and whatever statement fails: set_paused   *)
(* and remove_folder_pair change the row first and give up when that fails.*)
MemoryIsStored ==
    \A p \in Pairs : Known(p) =>
        stored[p] = IF pairs[p].paused THEN "paused" ELSE "active"

(* A row without its pair in memory was left by a restart or by a deletion *)
(* remove_account ignored the failure of.                                  *)
StoredIsKnown ==
    \A p \in Pairs : stored[p] # "none" => Known(p) \/ <<p, "orphan">> \in ledger

(* No pair is in the handle of an account that is gone: the account found  *)
(* before resolve_folder is still there after it, because the lock is kept *)
(* (the code unwraps on it).                                               *)
PairsHaveAccounts == \A p \in Pairs : Known(p) => pairs[p].account \in handles

(* A request never outlives the pausing or the removal of its pair, unless *)
(* the pair went with its account.                                         *)
RequestsAreLive ==
    \A p \in pendingSyncs : Active(p) \/ <<p, "left">> \in ledger

(* A SyncNow that was accepted is followed by a cycle of the pair, without *)
(* the poll timer's help, whatever calls arrive between taking the request *)
(* and taking the snapshot, unless the pair is paused or removed or a      *)
(* failed removal dropped the request.                                     *)
RequestServed ==
    \A p \in Pairs : p \in pendingSyncs ~>
        running = p \/ ~Active(p) \/ <<p, "cancelled">> \in ledger
=============================================================================
