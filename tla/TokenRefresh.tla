---------------------------- MODULE TokenRefresh ----------------------------
(***************************************************************************)
(* The life of an account's tokens: signing in under the manager's lock,   *)
(* the scheduler's loop, which looks for tokens about to expire only when  *)
(* a poll begins, the exchange and the keyring, and removal.  Any number   *)
(* of ticks may pass at any point, for no call has a time limit; the true  *)
(* life of an access token, and what the daemon believes is left of it, if *)
(* it was told, are two different things.                                  *)
(***************************************************************************)
EXTENDS Naturals

CONSTANTS
    Accounts, Tokens, None,
    Life,        \* expires_in, counted by the provider from its answer
    Margin,      \* TOKEN_REFRESH_MARGIN
    Interval,    \* remote_poll_interval
    MaxFailures, \* bound: calls that fail
    MaxSleeps    \* bound: ticks the machine is suspended

Longer(m, n) == IF m < n THEN n ELSE m

Lapses == {"failed", "unwatched"}
Answer == [account : Accounts, token : Tokens \cup {None}, told : BOOLEAN, life : Nat]
Signup == [account : Accounts, stage : {"browser", "granted"}]

ASSUME TokenAssumption ==
    /\ None \notin Nat \cup Accounts \cup Tokens \cup Lapses \cup Answer \cup Signup
    /\ {Life, Margin, Interval, MaxFailures, MaxSleeps} \subseteq Nat

(* Where the two histories that count ticks stop counting.                  *)
Cap == Longer(Margin + 1, Life)

VARIABLES
    handles,   \* accounts with a live provider
    access,    \* ticks its provider object's token goes on being accepted
    left,      \* ticks to the handle's expires_at, saturating, or None
    held,      \* the handle's refresh_token
    keyring,   \* the one stored in the Secret Service
    accepted,  \* the one the provider accepts
    pc,        \* where the scheduler's loop is
    nextPoll,  \* ticks to next_remote_poll, saturating
    toRefresh, \* accounts due for refresh, still to be done
    answer,    \* what an exchange answered, until it is stored
    signup,    \* the sign-in that has the lock
    drawn,     \* account ids drawn
    failures, sleeps,
    unseen,    \* history: ticks since a poll last looked at the tokens
    late,      \* history: ticks from the token's end to expires_at
    lapse,     \* history: why an account's token may run out, or its grant stay
    stranded   \* history: a failure lost the refresh token that is accepted

tokenVars == <<held, keyring, accepted>>
clockVars == <<access, left, unseen, late>>
loopVars == <<pc, nextPoll, toRefresh>>
boundVars == <<failures, sleeps>>
vars == <<handles, clockVars, tokenVars, loopVars, answer, signup, drawn, boundVars,
          lapse, stranded>>

Stages == {"idle", "apply", "check", "decided", "refresh", "cycle"}

TypeOK ==
    /\ handles \in SUBSET Accounts /\ drawn \in SUBSET Accounts
    /\ access \in [Accounts -> Nat] /\ left \in [Accounts -> Nat \cup {None}]
    /\ unseen \in 0 .. Cap /\ late \in [Accounts -> 0 .. Cap]
    /\ held \in [Accounts -> Tokens \cup {None}]
    /\ keyring \in [Accounts -> Tokens \cup {None}]
    /\ accepted \in [Accounts -> Tokens \cup {None}]
    /\ pc \in Stages /\ nextPoll \in Nat
    /\ toRefresh \in SUBSET handles
    /\ answer \in Answer \cup {None} /\ signup \in Signup \cup {None}
    /\ failures \in Nat /\ sleeps \in Nat
    /\ lapse \in [Accounts -> Lapses \cup {None}]
    /\ stranded \in [Accounts -> BOOLEAN]

Init ==
    /\ handles = {} /\ drawn = {}
    /\ access = [a \in Accounts |-> 0] /\ left = [a \in Accounts |-> None]
    /\ unseen = 0 /\ late = [a \in Accounts |-> 0]
    /\ held = [a \in Accounts |-> None]
    /\ keyring = [a \in Accounts |-> None]
    /\ accepted = [a \in Accounts |-> None]
    /\ pc = "idle" /\ nextPoll = 0 /\ toRefresh = {}
    /\ answer = None /\ signup = None
    /\ failures = 0 /\ sleeps = 0
    /\ lapse = [a \in Accounts |-> None]
    /\ stranded = [a \in Accounts |-> FALSE]

(* The daemon was told when the account's token expires, and its last look  *)
(* at the tokens is so recent that the margin covers the ticks since then   *)
(* and those by which expires_at is late, and that a token exchanged then   *)
(* is still good.                                                           *)
Watched(a) == left[a] # None /\ unseen < Life /\ unseen + late[a] <= Margin

LockFree == signup = None /\ pc # "refresh"
Fault == failures < MaxFailures /\ failures' = failures + 1

-----------------------------------------------------------------------------
(* Time.                                                                   *)

(* Mutated form of the definition that follows: the difference of two       *)
(* Instants is taken without saturating.                                    *)
AfterTickPlain(n) == n - 1
AfterTick(n) == IF n = 0 THEN 0 ELSE n - 1

Counted(n) == IF n < Cap THEN n + 1 ELSE n

(* What a tick does to the tokens, whether or not the machine is awake.     *)
TokensAge ==
    /\ access' = [a \in Accounts |-> AfterTick(access[a])]
    /\ answer' = IF answer = None THEN None ELSE [answer EXCEPT !.life = AfterTick(@)]
    /\ unseen' = Counted(unseen)

Tick ==
    /\ TokensAge
    /\ left' = [a \in Accounts |-> IF left[a] = None THEN None ELSE AfterTick(left[a])]
    /\ nextPoll' = AfterTick(nextPoll)
    /\ UNCHANGED <<late, handles, tokenVars, pc, toRefresh, signup, drawn, boundVars,
                   lapse, stranded>>

(* The machine sleeps for a tick: Instants stand still.                     *)
Suspend ==
    /\ sleeps < MaxSleeps
    /\ sleeps' = sleeps + 1
    /\ TokensAge
    /\ late' = [a \in Accounts |-> IF left[a] = None THEN 0 ELSE Counted(late[a])]
    /\ UNCHANGED <<left, handles, tokenVars, loopVars, signup, drawn, failures, lapse,
                   stranded>>

-----------------------------------------------------------------------------
(* The scheduler's loop.                                                   *)

Go(from, to) == pc = from /\ pc' = to

(* due_syncs and the drain of the watchers.                                 *)
BeginDrain ==
    /\ Go("idle", "apply") /\ LockFree
    /\ UNCHANGED <<handles, clockVars, tokenVars, nextPoll, toRefresh, answer, signup,
                   drawn, boundVars, lapse, stranded>>

EndDrain ==
    /\ Go("apply", "check")
    /\ UNCHANGED <<handles, clockVars, tokenVars, nextPoll, toRefresh, answer, signup,
                   drawn, boundVars, lapse, stranded>>

(* take_sync_requests, and the timer: a SyncNow polls out of turn.          *)
CheckTimer ==
    /\ LockFree
    /\ \/ nextPoll = 0 /\ nextPoll' = Interval /\ Go("check", "decided")
       \/ nextPoll > 0 /\ UNCHANGED nextPoll
          /\ (Go("check", "decided") \/ Go("check", "idle"))
    /\ UNCHANGED <<handles, clockVars, tokenVars, toRefresh, answer, signup, drawn,
                   boundVars, lapse, stranded>>

(* Mutated forms of the definition that follows: no margin; and a token     *)
(* already expired is given up.                                             *)
DueOnExpiry == {a \in handles : held[a] # None /\ left[a] # None /\ left[a] = 0}
DueBeforeExpiry ==
    {a \in handles : held[a] # None /\ left[a] # None /\ left[a] \in 1 .. Margin}

(* An account whose provider did not say when its token expires is never    *)
(* due.                                                                     *)
AccountsDueForRefresh ==
    {a \in handles : held[a] # None /\ left[a] # None /\ left[a] <= Margin}

BeginRefresh ==
    /\ Go("decided", "refresh") /\ LockFree
    /\ toRefresh' = AccountsDueForRefresh
    /\ unseen' = 0
    /\ UNCHANGED <<handles, access, left, late, tokenVars, nextPoll, answer, signup,
                   drawn, boundVars, lapse, stranded>>

(* Mutated form of the definition that follows: an answer without a refresh *)
(* token leaves none.                                                       *)
OnlyReturned(returned, old) == returned

(* or_else: an answer need not repeat the refresh token.                    *)
KeepOld(returned, old) == IF returned = None THEN old ELSE returned

Unused(a) == Tokens \ {accepted[a], held[a], keyring[a]}

GiveUp(a, lost) ==
    /\ toRefresh' = toRefresh \ {a}
    /\ lapse' = [lapse EXCEPT ![a] = "failed"]
    /\ stranded' = [stranded EXCEPT ![a] = @ \/ lost]

(* The provider may replace the refresh token, and then knows only the new  *)
(* one, whether or not its answer arrives.                                  *)
Exchange(a) ==
    /\ pc = "refresh" /\ a \in toRefresh /\ answer = None
    /\ held[a] = accepted[a]
    /\ \E returned \in {None} \cup Unused(a), told \in BOOLEAN :
         /\ accepted' = [accepted EXCEPT ![a] = IF returned = None THEN @ ELSE returned]
         /\ \/ /\ answer' = [account |-> a, token |-> KeepOld(returned, held[a]),
                              told |-> told, life |-> Life]
               /\ UNCHANGED <<toRefresh, failures, lapse, stranded>>
            \/ Fault /\ GiveUp(a, returned # None) /\ UNCHANGED answer
    /\ UNCHANGED <<handles, clockVars, held, keyring, pc, nextPoll, signup, drawn,
                   sleeps>>

(* The provider knows another refresh token.                                *)
Refused(a) ==
    /\ pc = "refresh" /\ a \in toRefresh /\ answer = None
    /\ held[a] # accepted[a]
    /\ GiveUp(a, FALSE)
    /\ UNCHANGED <<handles, clockVars, tokenVars, pc, nextPoll, answer, signup, drawn,
                   boundVars>>

(* expires_at is Instant::now() plus the lifetime told, or None: the token  *)
(* has been ageing since the answer left the provider.                      *)
SetExpiry(a) ==
    /\ left' = [left EXCEPT ![a] = IF answer.told THEN Life ELSE None]
    /\ late' = [late EXCEPT ![a] = IF answer.told THEN Life - answer.life ELSE 0]

(* store_tokens, then the live provider and the handle.                     *)
Store ==
    /\ pc = "refresh" /\ answer # None
    /\ LET a == answer.account
       IN  /\ keyring' = [keyring EXCEPT ![a] = answer.token]
           /\ access' = [access EXCEPT ![a] = answer.life]
           /\ held' = [held EXCEPT ![a] = answer.token]
           /\ SetExpiry(a)
           /\ lapse' = [lapse EXCEPT ![a] = None]
           /\ toRefresh' = toRefresh \ {a}
    /\ answer' = None
    /\ UNCHANGED <<handles, unseen, accepted, pc, nextPoll, signup, drawn, boundVars,
                   stranded>>

(* store_tokens fails: nothing after it is done, and the answer is gone.    *)
StoreFails ==
    /\ pc = "refresh" /\ answer # None
    /\ Fault
    /\ GiveUp(answer.account, answer.token # held[answer.account])
    /\ answer' = None
    /\ UNCHANGED <<handles, clockVars, tokenVars, pc, nextPoll, signup, drawn, sleeps>>

EndRefresh ==
    /\ toRefresh = {}
    /\ Go("refresh", "cycle")
    /\ UNCHANGED <<handles, clockVars, tokenVars, nextPoll, toRefresh, answer, signup,
                   drawn, boundVars, lapse, stranded>>

EndCycle ==
    /\ Go("cycle", "idle")
    /\ UNCHANGED <<handles, clockVars, tokenVars, nextPoll, toRefresh, answer, signup,
                   drawn, boundVars, lapse, stranded>>

-----------------------------------------------------------------------------
(* Signing in and removal, under the manager's lock.                       *)

OpenBrowser(a) ==
    /\ LockFree
    /\ a \notin drawn
    /\ drawn' = drawn \cup {a}
    /\ signup' = [account |-> a, stage |-> "browser"]
    /\ UNCHANGED <<handles, clockVars, tokenVars, loopVars, answer, boundVars, lapse,
                   stranded>>

(* The redirect arrives with the state that was sent, and the code is       *)
(* exchanged; a provider may grant no refresh token.                        *)
Granted ==
    /\ signup # None /\ signup.stage = "browser"
    /\ signup' = [signup EXCEPT !.stage = "granted"]
    /\ \E t \in Tokens \cup {None}, told \in BOOLEAN :
         /\ accepted' = [accepted EXCEPT ![signup.account] = t]
         /\ answer' = [account |-> signup.account, token |-> t,
                       told |-> told, life |-> Life]
    /\ UNCHANGED <<handles, clockVars, held, keyring, loopVars, drawn, boundVars, lapse,
                   stranded>>

(* The address is fetched, the tokens are stored, and the handle inserted.  *)
SignedIn ==
    /\ signup # None /\ signup.stage = "granted"
    /\ LET a == signup.account
       IN  /\ handles' = handles \cup {a}
           /\ keyring' = [keyring EXCEPT ![a] = answer.token]
           /\ held' = [held EXCEPT ![a] = answer.token]
           /\ access' = [access EXCEPT ![a] = answer.life]
           /\ SetExpiry(a)
    /\ signup' = None /\ answer' = None
    /\ UNCHANGED <<unseen, accepted, loopVars, drawn, boundVars, lapse, stranded>>

(* No redirect, another state, no code: nothing was granted.                *)
NotGranted ==
    /\ signup # None /\ signup.stage = "browser"
    /\ signup' = None
    /\ UNCHANGED <<handles, clockVars, tokenVars, loopVars, answer, drawn, boundVars,
                   lapse, stranded>>

(* The address cannot be fetched, or the tokens not stored.                 *)
GrantDropped ==
    /\ signup # None /\ signup.stage = "granted"
    /\ Fault
    /\ lapse' = [lapse EXCEPT ![signup.account] = "failed"]
    /\ signup' = None /\ answer' = None
    /\ UNCHANGED <<handles, clockVars, tokenVars, loopVars, drawn, sleeps, stranded>>

DropHandle(a) ==
    /\ handles' = handles \ {a}
    /\ access' = [access EXCEPT ![a] = 0]
    /\ left' = [left EXCEPT ![a] = None] /\ late' = [late EXCEPT ![a] = 0]
    /\ held' = [held EXCEPT ![a] = None]

(* Mutated form of the definition that follows: the tokens are deleted      *)
(* before they are loaded.                                                  *)
ForgetAccount(a) ==
    /\ LockFree
    /\ a \in handles
    /\ DropHandle(a)
    /\ keyring' = [keyring EXCEPT ![a] = None]
    /\ UNCHANGED <<unseen, accepted, loopVars, answer, signup, drawn, boundVars, lapse,
                   stranded>>

(* revoke is called with the stored access token, which an expired one      *)
(* cannot do; whatever fails, the account goes.                             *)
RemoveAccount(a) ==
    /\ LockFree
    /\ a \in handles
    /\ DropHandle(a)
    /\ \E revoked, deleted \in BOOLEAN :
         /\ revoked => access[a] > 0
         /\ accepted' = [accepted EXCEPT ![a] = IF revoked THEN None ELSE @]
         /\ keyring' = [keyring EXCEPT ![a] = IF deleted THEN None ELSE @]
         /\ \/ deleted /\ revoked /\ UNCHANGED <<failures, lapse>>
            \/ /\ deleted /\ access[a] = 0
               /\ lapse' = [lapse EXCEPT ![a] = IF Watched(a) THEN @ ELSE "unwatched"]
               /\ UNCHANGED failures
            \/ /\ ~deleted \/ (~revoked /\ access[a] > 0)
               /\ Fault /\ lapse' = [lapse EXCEPT ![a] = "failed"]
    /\ UNCHANGED <<unseen, loopVars, answer, signup, drawn, sleeps, stranded>>

-----------------------------------------------------------------------------
LoopStep ==
    \/ BeginDrain \/ EndDrain \/ CheckTimer \/ BeginRefresh \/ EndRefresh \/ EndCycle
    \/ Store \/ StoreFails
    \/ \E a \in Accounts : Exchange(a) \/ Refused(a)

SignupEnds == Granted \/ SignedIn \/ NotGranted \/ GrantDropped

Next ==
    \/ Tick \/ Suspend
    \/ LoopStep \/ SignupEnds
    \/ \E a \in Accounts : OpenBrowser(a) \/ RemoveAccount(a)

(* Time passes, the loop goes on, a sign-in ends one way or the other.      *)
Spec == Init /\ [][Next]_vars
            /\ WF_vars(Tick) /\ WF_vars(LoopStep) /\ WF_vars(SignupEnds)

-----------------------------------------------------------------------------
(* A request the loop makes, for a local change or in a cycle, goes out     *)
(* with an access token the provider accepts, if the account is watched:    *)
(* the loop's last look at the tokens, when a poll began, is no longer ago  *)
(* than TOKEN_REFRESH_MARGIN less what expires_at is late, by the exchange, *)
(* the keyring and the time the machine slept; unless a refresh since then  *)
(* failed, or there is no refresh token.  A drain, a cycle, a wait for the  *)
(* lock or a poll interval that is longer leaves the account unwatched.     *)
RequestsAuthorized ==
    \A a \in handles :
        /\ pc \in {"apply", "cycle"}
        /\ lapse[a] = None /\ held[a] # None
        /\ Watched(a)
        => access[a] > 0

(* Between refreshes, what an account holds in memory, what is stored, and  *)
(* what the provider accepts are the same refresh token, with providers     *)
(* that replace it and those that do not; unless a failure came between the *)
(* provider's replacing it and the keyring.                                 *)
RefreshTokensAgree ==
    \A a \in handles :
        answer = None /\ ~stranded[a] => held[a] = accepted[a] /\ keyring[a] = accepted[a]

(* A removed account leaves nothing behind, in the keyring or as a grant,   *)
(* unless a call failed, or its access token, with which remove_account     *)
(* revokes, ran out while the account was not watched: its expiry unknown,  *)
(* or the loop's last look too long ago.                                    *)
RemovedIsRevoked ==
    \A a \in drawn \ handles :
        /\ signup = None
        /\ lapse[a] = None
        => keyring[a] = None /\ accepted[a] = None

(* An account whose access token ran out, and whose provider told when it   *)
(* would, is given another one, whatever let it run out, unless it is       *)
(* removed, its refresh token is lost, or the answer is so long on its way  *)
(* that the new token has run out too.  One whose provider did not tell is  *)
(* never refreshed, and RequestsAuthorized promises it nothing either.      *)
ExpiredIsReplaced ==
    \A a \in Accounts :
        (a \in handles /\ access[a] = 0 /\ held[a] # None /\ left[a] # None)
            ~> \/ a \notin handles \/ access[a] > 0 \/ stranded[a]
               \/ answer # None /\ answer.account = a /\ answer.life = 0
=============================================================================
