---------------------------- MODULE AccountProofs ----------------------------
(***************************************************************************)
(* The invariants of AccountManager for any number of accounts, pairs and  *)
(* concurrent calls, and any number of failing statements and restarts.    *)
(***************************************************************************)
EXTENDS AccountManager, TLAPS

(* At most one task keeps the lock; a call that keeps it is under way, and *)
(* one that adds a pair keeps it since it found its account.               *)
LockInv ==
    /\ \A s, t \in holders : s = t
    /\ \A c \in holders \cap Callers :
         /\ calls[c] # None
         /\ calls[c].op = "addPair" => calls[c].account \in handles

IInv == /\ TypeOK
        /\ LockInv
        /\ MemoryIsStored
        /\ StoredIsKnown
        /\ PairsHaveAccounts
        /\ RequestsAreLive

-----------------------------------------------------------------------------
(* Types, action by action.                                                *)

LEMMA InitType == Init => TypeOK
BY AccountAssumption DEF Init, TypeOK, NoPair, Pair

(* What the lock's operators leave of the lock.                            *)
LEMMA LockType ==
    ASSUME TypeOK, NEW t \in Callers \cup {Loop}, Visit(t) \/ Seize(t) \/ Release(t)
    PROVE  queue' \in Seq(Callers \cup {Loop}) /\ holders' \in SUBSET (Callers \cup {Loop})
<1>1. CASE Visit(t)
  BY <1>1 DEF TypeOK, Visit, Granted
<1>2. CASE Seize(t)
  BY <1>2 DEF TypeOK, Seize, Granted
<1>3. CASE Release(t)
  BY <1>3 DEF TypeOK, Release
<1>4. QED  BY <1>1, <1>2, <1>3

(* A call under way is one.                                                *)
LEMMA CallType ==
    ASSUME TypeOK, NEW c \in Callers, calls[c] # None
    PROVE  /\ calls[c] \in Call
           /\ Answer(c) => calls' \in [Callers -> Call \cup {None}]
BY DEF TypeOK, Answer

(* Failures are counted.                                                   *)
LEMMA BoundsType ==
    ASSUME TypeOK, Fault \/ NoFault
    PROVE  faults' \in Nat /\ restarts' \in Nat
BY DEF TypeOK, Fault, NoFault, bounds

LEMMA AskType ==
    ASSUME TypeOK, NEW c \in Callers, NEW op \in Ops, NEW a \in Accounts \cup {None},
           NEW p \in Pairs \cup {None}, Ask(c, op, a, p)
    PROVE  TypeOK'
BY DEF Ask, TypeOK, Call, memory, loop, bounds

LEMMA SetPausedType ==
    ASSUME TypeOK, NEW c \in Callers, SetPaused(c)
    PROVE  TypeOK'
<1> DEFINE p == calls[c].pair
           flag == calls[c].op = "pause"
<1>1. calls[c] # None /\ Visit(c) /\ Answer(c)  BY DEF SetPaused, Doing
<1>2. calls' \in [Callers -> Call \cup {None}]  BY <1>1, CallType
<1>3. queue' \in Seq(Callers \cup {Loop}) /\ holders' \in SUBSET (Callers \cup {Loop})
  BY <1>1, LockType
<1>4. /\ stored' \in [Pairs -> {"none", "active", "paused"}]
      /\ pairs' \in [Pairs -> Pair]
      /\ pendingSyncs' \in SUBSET Pairs
  <2>1. CASE UNCHANGED <<stored, pairs, pendingSyncs>>  BY <2>1 DEF TypeOK
  <2>2. CASE PausedRow(p, flag) /\ PausedPair(p, flag)
             /\ pendingSyncs' = RequestsAfter(p, flag)
    <3>1. ASSUME NEW b \in BOOLEAN PROVE [pairs EXCEPT ![p].paused = b] \in [Pairs -> Pair]
      BY DEF TypeOK, Pair
    <3>2. (Known(p) /\ flag) \in BOOLEAN  BY DEF Known
    <3>3. pairs' \in [Pairs -> Pair]  BY <2>2, <3>1, <3>2 DEF PausedPair
    <3>4. stored' \in [Pairs -> {"none", "active", "paused"}]
      BY <2>2 DEF PausedRow, TypeOK
    <3>5. pendingSyncs' \in SUBSET Pairs  BY <2>2 DEF RequestsAfter, TypeOK
    <3>6. QED  BY <3>3, <3>4, <3>5
  <2>3. QED  BY <2>1, <2>2 DEF SetPaused
<1>5. faults' \in Nat /\ restarts' \in Nat
  BY BoundsType DEF SetPaused
<1>6. QED  BY <1>2, <1>3, <1>4, <1>5 DEF SetPaused, TypeOK, loop

LEMMA RemoveFolderPairType ==
    ASSUME TypeOK, NEW c \in Callers, RemoveFolderPair(c)
    PROVE  TypeOK'
<1> DEFINE p == calls[c].pair
<1>1. calls[c] # None /\ Visit(c) /\ Answer(c)  BY DEF RemoveFolderPair, Doing
<1>2. calls' \in [Callers -> Call \cup {None}]  BY <1>1, CallType
<1>3. queue' \in Seq(Callers \cup {Loop}) /\ holders' \in SUBSET (Callers \cup {Loop})
  BY <1>1, LockType
<1>4. stored' \in [Pairs -> {"none", "active", "paused"}] /\ pairs' \in [Pairs -> Pair]
  <2>1. CASE UNCHANGED <<stored, pairs>>  BY <2>1 DEF TypeOK
  <2>2. CASE /\ stored' = [stored EXCEPT ![p] = "none"]
             /\ pairs' = [pairs EXCEPT ![p] = NoPair]
    <3>1. NoPair \in Pair  BY DEF NoPair, Pair
    <3>2. QED  BY <2>2, <3>1 DEF TypeOK
  <2>3. QED  BY <2>1, <2>2 DEF RemoveFolderPair
<1>5. pendingSyncs' \in SUBSET Pairs /\ ledger' \in SUBSET (Pairs \X Leftovers)
  BY DEF RemoveFolderPair, TypeOK, Leftovers
<1>6. faults' \in Nat /\ restarts' \in Nat
  BY BoundsType DEF RemoveFolderPair
<1>7. QED  BY <1>2, <1>3, <1>4, <1>5, <1>6 DEF RemoveFolderPair, TypeOK, loop

LEMMA SmallServeType ==
    ASSUME TypeOK, NEW c \in Callers,
           TriggerSync(c) \/ Await(c) \/ Refuse(c) \/ GiveUp(c) \/ AddAccount(c)
    PROVE  TypeOK'
<1>1. calls[c] # None  BY DEF TriggerSync, Await, Refuse, GiveUp, AddAccount, Doing
<1>2. calls' \in [Callers -> Call \cup {None}]
  BY <1>1, CallType DEF TriggerSync, Await, Refuse, GiveUp, AddAccount, TypeOK
<1>3. queue' \in Seq(Callers \cup {Loop}) /\ holders' \in SUBSET (Callers \cup {Loop})
  BY LockType DEF TriggerSync, Await, Refuse, GiveUp, AddAccount
<1>4. CASE TriggerSync(c)
  BY <1>2, <1>3, <1>4 DEF TriggerSync, DueSyncs, TypeOK, loop, bounds
<1>5. CASE Await(c) \/ Refuse(c) \/ GiveUp(c)
  BY <1>2, <1>3, <1>5 DEF Await, Refuse, GiveUp, TypeOK, memory, loop, bounds
<1>6. CASE AddAccount(c)
  BY <1>2, <1>3, <1>6 DEF AddAccount, TypeOK, loop, bounds
<1>7. QED  BY <1>4, <1>5, <1>6

LEMMA AddFolderPairType ==
    ASSUME TypeOK, NEW c \in Callers, AddFolderPair(c)
    PROVE  TypeOK'
<1>1. calls[c] # None /\ Release(c) /\ Answer(c)  BY DEF AddFolderPair, Doing
<1>2. calls[c] \in Call /\ calls' \in [Callers -> Call \cup {None}]  BY <1>1, CallType
<1>3. queue' \in Seq(Callers \cup {Loop}) /\ holders' \in SUBSET (Callers \cup {Loop})
  BY <1>1, LockType
<1>4. [account |-> calls[c].account, paused |-> FALSE] \in Pair  BY <1>2 DEF Call, Pair
<1>5. QED  BY <1>2, <1>3, <1>4 DEF AddFolderPair, TypeOK, loop, bounds

LEMMA RemoveAccountType ==
    ASSUME TypeOK, NEW c \in Callers, RemoveAccount(c)
    PROVE  TypeOK'
<1> DEFINE gone == PairsOf(calls[c].account)
<1>1. calls[c] # None /\ Release(c) /\ Answer(c)  BY DEF RemoveAccount, Doing
<1>2. calls' \in [Callers -> Call \cup {None}]  BY <1>1, CallType
<1>3. queue' \in Seq(Callers \cup {Loop}) /\ holders' \in SUBSET (Callers \cup {Loop})
  BY <1>1, LockType
<1>4. gone \in SUBSET Pairs  BY DEF PairsOf
<1>5. PICK kept \in SUBSET gone :
         /\ IF kept = {} THEN NoFault ELSE Fault
         /\ stored' = RowsAfter(gone, kept)
         /\ ledger' = ledger \cup kept \X {"orphan"}
                             \cup (gone \cap pendingSyncs) \X {"left"}
  BY DEF RemoveAccount
<1>6. faults' \in Nat /\ restarts' \in Nat  BY <1>5, BoundsType
<1>7. stored' \in [Pairs -> {"none", "active", "paused"}]  BY <1>5 DEF RowsAfter, TypeOK
<1>8. ledger' \in SUBSET (Pairs \X Leftovers)  BY <1>4, <1>5 DEF TypeOK, Leftovers
<1>9. pairs' \in [Pairs -> Pair]
  BY AccountAssumption DEF RemoveAccount, TypeOK, NoPair, Pair
<1>10. QED
  BY <1>2, <1>3, <1>6, <1>7, <1>8, <1>9 DEF RemoveAccount, TypeOK, loop

LEMMA RunForeverType ==
    ASSUME TypeOK, RunForever
    PROVE  TypeOK'
<1>1. CASE Tick
  BY <1>1 DEF Tick, Granted, TypeOK, memory, bounds
<1>2. CASE TakeSyncRequests
  BY <1>2 DEF TakeSyncRequests, Granted, TypeOK, memory, bounds
<1>3. CASE RefreshExpiringTokens
  BY <1>3, LockType DEF RefreshExpiringTokens, TypeOK, memory, bounds
<1>4. CASE TakeSnapshot
  <2>1. due' \in SUBSET Pairs /\ requested' \in SUBSET Pairs
    BY <1>4 DEF TakeSnapshot, Snapshot, DueSyncs
  <2>2. queue' \in Seq(Callers \cup {Loop}) /\ pc' \in {"tick", "poll"}
    BY <1>4 DEF TakeSnapshot, Again, TypeOK
  <2>3. QED  BY <1>4, <2>1, <2>2 DEF TakeSnapshot, TypeOK, memory, bounds
<1>5. CASE \E p \in Pairs : BeginCycle(p)
  BY <1>5 DEF BeginCycle, TypeOK, memory, lock, bounds
<1>6. CASE EndCycle
  BY <1>6 DEF EndCycle, Again, TypeOK, memory, bounds
<1>7. QED  BY <1>1, <1>2, <1>3, <1>4, <1>5, <1>6 DEF RunForever

LEMMA RestartType ==
    ASSUME TypeOK, Restart
    PROVE  TypeOK'
<1>1. ledger' \in SUBSET (Pairs \X Leftovers)  BY DEF Restart, TypeOK, Leftovers
<1>2. pairs' \in [Pairs -> Pair] /\ calls' \in [Callers -> Call \cup {None}]
  BY DEF Restart, NoPair, Pair
<1>3. queue' \in Seq(Callers \cup {Loop}) /\ holders' = {}  BY DEF Restart
<1>4. QED  BY <1>1, <1>2, <1>3 DEF Restart, TypeOK

(* What a call can be about.                                               *)
LEMMA ClientsAsk ==
    ASSUME Clients
    PROVE  \E c \in Callers, op \in Ops, a \in Accounts \cup {None}, p \in Pairs \cup {None} :
               Ask(c, op, a, p)
BY DEF Clients, Ops

LEMMA NextType == TypeOK /\ [Next]_vars => TypeOK'
<1> SUFFICES ASSUME TypeOK, [Next]_vars PROVE TypeOK'
  OBVIOUS
<1>1. CASE Clients
  BY <1>1, ClientsAsk, AskType
<1>2. ASSUME NEW c \in Callers, Serve(c) PROVE TypeOK'
  BY <1>2, SetPausedType, RemoveFolderPairType, SmallServeType, AddFolderPairType,
     RemoveAccountType DEF Serve
<1>3. CASE RunForever  BY <1>3, RunForeverType
<1>4. CASE Restart  BY <1>4, RestartType
<1>5. CASE UNCHANGED vars
  BY <1>5 DEF TypeOK, vars, memory, lock, loop, bounds
<1>6. QED  BY <1>1, <1>2, <1>3, <1>4, <1>5 DEF Next
-----------------------------------------------------------------------------
(* The lock.                                                               *)

(* Who takes the lock for longer finds it free; who lets it go was alone.  *)
LEMMA LockSteps ==
    ASSUME LockInv, NEW t
    PROVE  /\ Seize(t) => holders = {} /\ holders' = {t}
           /\ Release(t) => holders = {t} /\ holders' = {}
           /\ Visit(t) => holders = {} /\ holders' = {}
BY DEF LockInv, Seize, Release, Visit, Granted

LEMMA ServeLock ==
    ASSUME TypeOK, LockInv, NEW c \in Callers, Serve(c)
    PROVE  LockInv'
<1>1. CASE Await(c)
  <2>1. holders' = {c} /\ UNCHANGED <<calls, handles>>
    BY <1>1, LockSteps DEF Await, memory
  <2>2. calls[c] # None /\ (calls[c].op = "addPair" => calls[c].account \in handles)
    BY <1>1 DEF Await, Doing
  <2>3. QED  BY <2>1, <2>2 DEF LockInv
<1>2. CASE ~Await(c)
  <2>1. Visit(c) \/ Release(c)
    BY <1>2 DEF Serve, SetPaused, TriggerSync, RemoveFolderPair, Refuse, GiveUp, AddAccount,
       AddFolderPair, RemoveAccount
  <2>2. holders' = {}  BY <2>1, LockSteps
  <2>3. QED  BY <2>2 DEF LockInv
<1>3. QED  BY <1>1, <1>2

LEMMA NextLock == IInv /\ [Next]_vars => LockInv'
<1> SUFFICES ASSUME IInv, [Next]_vars PROVE LockInv'
  OBVIOUS
<1>1. TypeOK /\ LockInv  BY DEF IInv
<1>2. CASE Clients
  <2>1. PICK c \in Callers, op \in Ops, a \in Accounts \cup {None}, p \in Pairs \cup {None} :
               Ask(c, op, a, p)
    BY <1>2, ClientsAsk
  <2>2. calls[c] = None /\ UNCHANGED <<holders, handles>>  BY <2>1 DEF Ask, memory
  <2>3. \A d \in Callers : d # c => calls'[d] = calls[d]  BY <1>1, <2>1 DEF Ask, TypeOK
  <2>4. QED  BY <1>1, <2>2, <2>3 DEF LockInv
<1>3. ASSUME NEW c \in Callers, Serve(c) PROVE LockInv'
  BY <1>1, <1>3, ServeLock
<1>4. CASE RunForever
  <2>1. UNCHANGED <<calls, handles>>
    BY <1>4 DEF RunForever, Tick, TakeSyncRequests, RefreshExpiringTokens, TakeSnapshot,
       BeginCycle, EndCycle, memory
  <2>2. holders' = holders \/ holders' = {} \/ holders' = {Loop}
    BY <1>1, <1>4, LockSteps DEF RunForever, Tick, TakeSyncRequests, RefreshExpiringTokens,
       TakeSnapshot, BeginCycle, EndCycle, lock, LockInv
  <2>3. QED  BY <1>1, <2>1, <2>2, AccountAssumption DEF LockInv
<1>5. CASE Restart  BY <1>5 DEF Restart, LockInv
<1>6. CASE UNCHANGED vars  BY <1>1, <1>6 DEF vars, memory, lock, LockInv
<1>7. QED  BY <1>2, <1>3, <1>4, <1>5, <1>6 DEF Next

-----------------------------------------------------------------------------
(* Memory, rows and requests.                                              *)

Books == MemoryIsStored /\ StoredIsKnown /\ PairsHaveAccounts /\ RequestsAreLive

(* Most steps touch none of them.                                          *)
LEMMA BooksKept ==
    ASSUME Books, UNCHANGED <<memory, stored, ledger>>
    PROVE  Books'
BY DEF Books, MemoryIsStored, StoredIsKnown, PairsHaveAccounts, RequestsAreLive, Active,
       Known, memory

LEMMA SetPausedBooks ==
    ASSUME TypeOK, Books, NEW c \in Callers, SetPaused(c)
    PROVE  Books'
<1> DEFINE p == calls[c].pair
           flag == calls[c].op = "pause"
<1>1. CASE UNCHANGED <<stored, pairs, pendingSyncs>>
  BY <1>1, BooksKept DEF SetPaused, memory
<1>2. CASE PausedRow(p, flag) /\ PausedPair(p, flag) /\ pendingSyncs' = RequestsAfter(p, flag)
  <2>1. UNCHANGED <<handles, ledger>>  BY DEF SetPaused
  <2>2. \A q \in Pairs : /\ pairs'[q].account = pairs[q].account
                         /\ q # p => pairs'[q].paused = pairs[q].paused
    BY <1>2 DEF PausedPair, TypeOK, Pair
  <2>3. \A q \in Pairs : Known(q)' = Known(q)  BY <2>2 DEF Known
  <2>4. ASSUME p \in Pairs, Known(p) PROVE pairs'[p].paused = flag
    BY <1>2, <2>4 DEF PausedPair, TypeOK, Pair
  <2>5. /\ \A q \in Pairs \ {p} : stored'[q] = stored[q]
        /\ p \in Pairs => stored'[p] = IF stored[p] = "none" THEN "none"
                                       ELSE IF flag THEN "paused" ELSE "active"
    BY <1>2 DEF PausedRow, TypeOK
  <2>6. MemoryIsStored'
    <3>1. SUFFICES ASSUME NEW q \in Pairs, Known(q)
                   PROVE  stored'[q] = IF pairs'[q].paused THEN "paused" ELSE "active"
      BY <2>3 DEF MemoryIsStored
    <3>2. stored[q] = IF pairs[q].paused THEN "paused" ELSE "active"
      BY <3>1 DEF Books, MemoryIsStored
    <3>3. CASE q # p  BY <2>2, <2>5, <3>2, <3>3
    <3>4. CASE q = p  BY <2>4, <2>5, <3>1, <3>2, <3>4
    <3>5. QED  BY <3>3, <3>4
  <2>7. StoredIsKnown'
    BY <2>1, <2>3, <2>5 DEF Books, StoredIsKnown
  <2>8. PairsHaveAccounts'
    BY <2>1, <2>2, <2>3 DEF Books, PairsHaveAccounts
  <2>9. RequestsAreLive'
    <3>1. SUFFICES ASSUME NEW q \in pendingSyncs'
                   PROVE  Active(q)' \/ <<q, "left">> \in ledger
      BY <2>1 DEF RequestsAreLive
    <3>2. q \in pendingSyncs /\ q \in Pairs /\ ~(q = p /\ flag)
      BY <1>2, <3>1 DEF RequestsAfter, TypeOK
    <3>3. Active(q) \/ <<q, "left">> \in ledger  BY <3>2 DEF Books, RequestsAreLive
    <3>4. Active(q) => Active(q)'
      <4>1. CASE q # p  BY <2>2, <2>3, <3>2, <4>1 DEF Active
      <4>2. CASE q = p  BY <2>3, <2>4, <3>2, <4>2 DEF Active
      <4>3. QED  BY <4>1, <4>2
    <3>5. QED  BY <3>3, <3>4
  <2>10. QED  BY <2>6, <2>7, <2>8, <2>9 DEF Books
<1>3. QED  BY <1>1, <1>2 DEF SetPaused

LEMMA TriggerSyncBooks ==
    ASSUME TypeOK, Books, NEW c \in Callers, TriggerSync(c)
    PROVE  Books'
<1>1. UNCHANGED <<handles, pairs, stored, ledger>>  BY DEF TriggerSync
<1>2. \A q \in pendingSyncs' : q \in pendingSyncs \/ Active(q)
  BY DEF TriggerSync, DueSyncs
<1>3. QED
  BY <1>1, <1>2 DEF Books, MemoryIsStored, StoredIsKnown, PairsHaveAccounts,
     RequestsAreLive, Active, Known

LEMMA RemoveFolderPairBooks ==
    ASSUME TypeOK, Books, NEW c \in Callers, RemoveFolderPair(c)
    PROVE  Books'
<1> DEFINE p == calls[c].pair
<1>1. pendingSyncs' = pendingSyncs \ {p} /\ UNCHANGED handles  BY DEF RemoveFolderPair
<1>2. ledger \subseteq ledger'  BY DEF RemoveFolderPair
<1>3. CASE UNCHANGED <<stored, pairs>>
  BY <1>1, <1>2, <1>3 DEF Books, MemoryIsStored, StoredIsKnown, PairsHaveAccounts,
     RequestsAreLive, Active, Known
<1>4. CASE /\ stored' = [stored EXCEPT ![p] = "none"]
           /\ pairs' = [pairs EXCEPT ![p] = NoPair]
  <2>1. \A q \in Pairs \ {p} : stored'[q] = stored[q] /\ pairs'[q] = pairs[q]
    BY <1>4 DEF TypeOK
  <2>2. p \in Pairs => stored'[p] = "none" /\ pairs'[p].account = None
    BY <1>4 DEF TypeOK, NoPair
  <2>3. MemoryIsStored' /\ StoredIsKnown' /\ PairsHaveAccounts'
    BY <1>1, <1>2, <2>1, <2>2 DEF Books, MemoryIsStored, StoredIsKnown, PairsHaveAccounts,
       Known
  <2>4. RequestsAreLive'
    BY <1>1, <1>2, <2>1 DEF Books, RequestsAreLive, Active, Known, TypeOK
  <2>5. QED  BY <2>3, <2>4 DEF Books
<1>5. QED  BY <1>3, <1>4 DEF RemoveFolderPair

LEMMA AddFolderPairBooks ==
    ASSUME TypeOK, LockInv, Books, NEW c \in Callers, AddFolderPair(c)
    PROVE  Books'
<1> DEFINE a == calls[c].account
<1>1. PICK p \in Pairs :
        /\ stored' = [stored EXCEPT ![p] = "active"]
        /\ pairs' = [pairs EXCEPT ![p] = [account |-> a, paused |-> FALSE]]
  BY DEF AddFolderPair
<1>2. UNCHANGED <<handles, pendingSyncs, ledger>>  BY DEF AddFolderPair
<1>3. a \in handles  BY DEF AddFolderPair, Release, Doing, LockInv
<1>4. a # None  BY <1>3, AccountAssumption DEF TypeOK
<1>5. \A q \in Pairs \ {p} : stored'[q] = stored[q] /\ pairs'[q] = pairs[q]
  BY <1>1 DEF TypeOK
<1>6. stored'[p] = "active" /\ pairs'[p].account = a /\ pairs'[p].paused = FALSE
  BY <1>1 DEF TypeOK
<1>7. MemoryIsStored' /\ StoredIsKnown'
  BY <1>2, <1>4, <1>5, <1>6 DEF Books, MemoryIsStored, StoredIsKnown, Known
<1>8. PairsHaveAccounts'
  BY <1>2, <1>3, <1>5, <1>6 DEF Books, PairsHaveAccounts, Known
<1>9. RequestsAreLive'
  BY <1>2, <1>4, <1>5, <1>6 DEF Books, RequestsAreLive, Active, Known, TypeOK
<1>10. QED  BY <1>7, <1>8, <1>9 DEF Books

LEMMA RemoveAccountBooks ==
    ASSUME TypeOK, Books, NEW c \in Callers, RemoveAccount(c)
    PROVE  Books'
<1> DEFINE a == calls[c].account
           gone == PairsOf(a)
<1>1. PICK kept \in SUBSET gone :
        /\ stored' = RowsAfter(gone, kept)
        /\ ledger' = ledger \cup kept \X {"orphan"}
                            \cup (gone \cap pendingSyncs) \X {"left"}
  BY DEF RemoveAccount
<1>2. /\ handles' = handles \ {a}
      /\ pairs' = [p \in Pairs |-> IF p \in gone THEN NoPair ELSE pairs[p]]
      /\ UNCHANGED pendingSyncs
  BY DEF RemoveAccount
<1>3. \A p \in Pairs \ gone : /\ pairs'[p] = pairs[p] /\ stored'[p] = stored[p]
                              /\ pairs[p].account # a
  BY <1>1, <1>2 DEF RowsAfter, PairsOf
<1>4. \A p \in gone : /\ p \in Pairs /\ pairs'[p].account = None
                      /\ stored'[p] # "none" => p \in kept
  BY <1>1, <1>2 DEF RowsAfter, PairsOf, NoPair
<1>5. /\ ledger \subseteq ledger'
      /\ \A p \in kept : <<p, "orphan">> \in ledger'
      /\ \A p \in gone \cap pendingSyncs : <<p, "left">> \in ledger'
  BY <1>1
<1>6. MemoryIsStored'
  BY <1>3, <1>4 DEF Books, MemoryIsStored, Known
<1>7. StoredIsKnown'
  BY <1>3, <1>4, <1>5 DEF Books, StoredIsKnown, Known
<1>8. PairsHaveAccounts'
  BY <1>2, <1>3, <1>4 DEF Books, PairsHaveAccounts, Known
<1>9. RequestsAreLive'
  BY <1>2, <1>3, <1>5 DEF Books, RequestsAreLive, Active, Known, TypeOK
<1>10. QED  BY <1>6, <1>7, <1>8, <1>9 DEF Books

LEMMA RunForeverBooks ==
    ASSUME Books, RunForever
    PROVE  Books'
<1>1. CASE TakeSyncRequests
  BY <1>1 DEF TakeSyncRequests, Books, MemoryIsStored, StoredIsKnown, PairsHaveAccounts,
     RequestsAreLive, Known
<1>2. CASE ~TakeSyncRequests
  <2>1. UNCHANGED <<memory, stored, ledger>>
    BY <1>2 DEF RunForever, Tick, RefreshExpiringTokens, TakeSnapshot, BeginCycle, EndCycle
  <2>2. QED  BY <2>1, BooksKept
<1>3. QED  BY <1>1, <1>2

LEMMA RestartBooks ==
    ASSUME TypeOK, Books, Restart
    PROVE  Books'
<1>1. \A p \in Pairs : ~Known(p)'  BY DEF Restart, Known, NoPair
<1>2. pendingSyncs' = {} /\ UNCHANGED stored  BY DEF Restart
<1>3. \A p \in Pairs : stored[p] # "none" => <<p, "orphan">> \in ledger'  BY DEF Restart
<1>4. QED
  BY <1>1, <1>2, <1>3 DEF Books, MemoryIsStored, StoredIsKnown, PairsHaveAccounts,
     RequestsAreLive

LEMMA NextBooks == IInv /\ [Next]_vars => Books'
<1> SUFFICES ASSUME IInv, [Next]_vars PROVE Books'
  OBVIOUS
<1>1. TypeOK /\ LockInv /\ Books  BY DEF IInv, Books
<1>2. CASE Clients
  BY <1>1, <1>2, ClientsAsk, BooksKept DEF Ask
<1>3. ASSUME NEW c \in Callers, Serve(c) PROVE Books'
  <2>1. CASE SetPaused(c)  BY <1>1, <2>1, SetPausedBooks
  <2>2. CASE TriggerSync(c)  BY <1>1, <2>2, TriggerSyncBooks
  <2>3. CASE RemoveFolderPair(c)  BY <1>1, <2>3, RemoveFolderPairBooks
  <2>4. CASE Await(c) \/ Refuse(c) \/ GiveUp(c)
    BY <1>1, <2>4, BooksKept DEF Await, Refuse, GiveUp
  <2>5. CASE AddAccount(c)
    BY <1>1, <2>5 DEF AddAccount, Books, MemoryIsStored, StoredIsKnown, PairsHaveAccounts,
       RequestsAreLive, Active, Known
  <2>6. CASE AddFolderPair(c)  BY <1>1, <2>6, AddFolderPairBooks
  <2>7. CASE RemoveAccount(c)  BY <1>1, <2>7, RemoveAccountBooks
  <2>8. QED  BY <1>3, <2>1, <2>2, <2>3, <2>4, <2>5, <2>6, <2>7 DEF Serve
<1>4. CASE RunForever  BY <1>1, <1>4, RunForeverBooks
<1>5. CASE Restart  BY <1>1, <1>5, RestartBooks
<1>6. CASE UNCHANGED vars  BY <1>1, <1>6, BooksKept DEF vars
<1>7. QED  BY <1>2, <1>3, <1>4, <1>5, <1>6 DEF Next

-----------------------------------------------------------------------------
(* The inductive invariant: the four properties, types, and what the lock  *)
(* guarantees to a call that keeps it across an await.                     *)
THEOREM AccountInvariant == Spec => []IInv
<1>1. Init => IInv
  <2> SUFFICES ASSUME Init PROVE IInv
    OBVIOUS
  <2>1. TypeOK  BY InitType
  <2>2. LockInv  BY DEF Init, LockInv
  <2>3. MemoryIsStored /\ StoredIsKnown /\ PairsHaveAccounts /\ RequestsAreLive
    BY DEF Init, NoPair, MemoryIsStored, StoredIsKnown, PairsHaveAccounts, RequestsAreLive,
       Known
  <2>4. QED  BY <2>1, <2>2, <2>3 DEF IInv
<1>2. IInv /\ [Next]_vars => IInv'
  BY NextType, NextLock, NextBooks DEF IInv, Books
<1>3. QED  BY <1>1, <1>2, PTL DEF Spec

(* The holder of the lock, the calls under way, the snapshot and the books *)
(* of pairs keep their types; due pairs are a part of the pairs.           *)
THEOREM AccountsTyped == Spec => []TypeOK
BY AccountInvariant, PTL DEF IInv

(* The pairs the scheduler sees are the rows of the table, paused flags    *)
(* included, whatever calls interleave and whatever statement fails        *)
(* (account_manager.rs, set_paused and remove_folder_pair).                *)
THEOREM MemoryFollowsTable == Spec => []MemoryIsStored
BY AccountInvariant, PTL DEF IInv

(* Only a restart and an account removal that could not delete leave a row *)
(* behind that no handle knows (account_manager.rs, new, remove_account).  *)
THEOREM OrphansExplained == Spec => []StoredIsKnown
BY AccountInvariant, PTL DEF IInv

(* The account add_folder_pair found before it asked the provider is still *)
(* there when it pushes the pair, so its unwrap cannot fail.               *)
THEOREM UnwrapIsSafe == Spec => []PairsHaveAccounts
BY AccountInvariant, PTL DEF IInv

(* A SyncNow request is about an active pair, or one that went with its    *)
(* account (account_manager.rs, trigger_sync, set_paused).                 *)
THEOREM RequestsConcernActivePairs == Spec => []RequestsAreLive
BY AccountInvariant, PTL DEF IInv
=============================================================================
