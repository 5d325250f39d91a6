----------------------------- MODULE TokenProofs -----------------------------
(***************************************************************************)
(* Requests for a watched account carry a live access token, refresh       *)
(* tokens agree, and removal revokes, for every lifetime, margin, poll     *)
(* interval and number of accounts, however long anything takes.           *)
(***************************************************************************)
EXTENDS TokenRefresh, TLAPS

(* The lock: a sign-in and a refresh exclude each other, and an answer is   *)
(* of the one that has it.                                                  *)
LockInv ==
    /\ handles \subseteq drawn
    /\ toRefresh # {} => pc = "refresh"
    /\ signup # None =>
         /\ pc # "refresh" /\ signup.account \in drawn \ handles
         /\ answer # None <=> signup.stage = "granted"
         /\ answer # None => answer.account = signup.account
    /\ signup = None /\ answer # None => pc = "refresh" /\ answer.account \in toRefresh

Answered(a) == answer # None /\ answer.account = a
Signing(a) == signup # None /\ signup.account = a

(* An account's refresh tokens agree, or it is stranded and has lapsed; one *)
(* that is gone left nothing.                                               *)
AgreeAt(a) ==
    /\ a \in handles /\ ~stranded[a] =>
         keyring[a] = held[a] /\ accepted[a] = IF Answered(a) THEN answer.token ELSE held[a]
    /\ a \in handles /\ stranded[a] =>
         ~Answered(a) /\ held[a] # accepted[a] /\ lapse[a] # None
    /\ a \notin handles /\ lapse[a] = None /\ ~Signing(a) =>
         keyring[a] = None /\ accepted[a] = None
    /\ a \notin drawn \/ Signing(a) => ~stranded[a] /\ lapse[a] = None /\ keyring[a] = None
    /\ Signing(a) => accepted[a] = IF Answered(a) THEN answer.token ELSE None

AgreeInv == \A a \in Accounts : AgreeAt(a)

(* An answer on its way has lost no more than the ticks since the last look *)
(* at the tokens: a poll cannot begin while a sign-in has the lock.         *)
WaitInv == answer # None => answer.life <= Life /\ Life <= answer.life + unseen

(* An account that has not lapsed: expires_at is off by what late counts;   *)
(* its token had more than the margin left at the last look, or is newer    *)
(* than that.                                                               *)
TimeAt(a) ==
    left[a] # None =>
       /\ left[a] <= Life
       /\ lapse[a] = None =>
            /\ left[a] <= access[a] + late[a]
            /\ held[a] # None /\ a \notin toRefresh =>
                  Margin < access[a] + late[a] + unseen \/ Life <= access[a] + unseen

TimeInv == WaitInv /\ \A a \in handles : TimeAt(a)

TokenInv == TypeOK /\ LockInv /\ AgreeInv /\ TimeInv

-----------------------------------------------------------------------------
(* The counts are saturated only where they no longer matter.               *)
LEMMA CapIsEnough ==
  /\ Life \in Nat /\ Margin \in Nat /\ Cap \in Nat
  /\ Life <= Cap /\ Margin < Cap
  BY TokenAssumption DEF Cap, Longer

(* Every action keeps the types.                                            *)
LEMMA TypeStep ==
  ASSUME TypeOK, LockInv, WaitInv, [Next]_vars
  PROVE  TypeOK'
  <1> USE CapIsEnough
  <1>1. CASE Tick
    BY <1>1, TokenAssumption
       DEF Tick, TokensAge, Counted, AfterTick, TypeOK, Answer, tokenVars, boundVars
  <1>2. CASE Suspend
    BY <1>2, TokenAssumption
       DEF Suspend, TokensAge, Counted, AfterTick, TypeOK, Answer, tokenVars, loopVars
  <1>3. CASE BeginDrain
    BY <1>3, TokenAssumption
       DEF BeginDrain, Go, LockFree, TypeOK, Stages, clockVars, tokenVars, boundVars
  <1>4. CASE EndDrain
    BY <1>4, TokenAssumption
       DEF EndDrain, Go, TypeOK, Stages, clockVars, tokenVars, boundVars
  <1>5. CASE CheckTimer
    BY <1>5, TokenAssumption
       DEF CheckTimer, Go, LockFree, TypeOK, Stages, clockVars, tokenVars, boundVars
  <1>6. CASE BeginRefresh
    BY <1>6, TokenAssumption
       DEF BeginRefresh, Go, LockFree, AccountsDueForRefresh, TypeOK, Stages, clockVars,
           tokenVars, boundVars
  <1>7. ASSUME NEW a \in Accounts, Exchange(a) PROVE TypeOK'
    <2>1. PICK returned \in {None} \cup Unused(a), told \in BOOLEAN :
            /\ accepted' = [accepted EXCEPT ![a] = IF returned = None THEN @ ELSE returned]
            /\ \/ /\ answer' = [account |-> a, token |-> KeepOld(returned, held[a]),
                                told |-> told, life |-> Life]
                  /\ UNCHANGED <<toRefresh, failures, lapse, stranded>>
               \/ Fault /\ GiveUp(a, returned # None) /\ UNCHANGED answer
      BY <1>7 DEF Exchange
    <2>2. accepted' \in [Accounts -> Tokens \cup {None}]
      BY <2>1 DEF TypeOK, Unused
    <2>3. answer' \in Answer \cup {None}
      BY <2>1, TokenAssumption DEF TypeOK, Unused, KeepOld, Answer
    <2>4. /\ failures' \in Nat /\ toRefresh' \in SUBSET handles
          /\ lapse' \in [Accounts -> Lapses \cup {None}]
      BY <2>1 DEF TypeOK, Fault, GiveUp, Lapses
    <2>5. stranded' \in [Accounts -> BOOLEAN]
      <3>1. CASE UNCHANGED stranded
        BY <3>1 DEF TypeOK
      <3>2. CASE GiveUp(a, returned # None)
        BY <3>2, Zenon DEF TypeOK, GiveUp
      <3> QED
        BY <2>1, <3>1, <3>2
    <2> QED
      BY <1>7, <2>2, <2>3, <2>4, <2>5 DEF Exchange, TypeOK, clockVars
  <1>8. ASSUME NEW a \in Accounts, Refused(a) PROVE TypeOK'
    BY <1>8, TokenAssumption
       DEF Refused, GiveUp, TypeOK, Lapses, clockVars, tokenVars, boundVars
  <1>9. CASE Store
    BY <1>9, TokenAssumption DEF Store, SetExpiry, TypeOK, WaitInv, Answer, boundVars
  <1>10. CASE StoreFails
    BY <1>10, TokenAssumption
       DEF StoreFails, GiveUp, Fault, TypeOK, LockInv, Lapses, clockVars, tokenVars
  <1>11. CASE EndRefresh
    BY <1>11, TokenAssumption
       DEF EndRefresh, Go, TypeOK, Stages, clockVars, tokenVars, boundVars
  <1>12. CASE EndCycle
    BY <1>12, TokenAssumption
       DEF EndCycle, Go, TypeOK, Stages, clockVars, tokenVars, boundVars
  <1>13. ASSUME NEW a \in Accounts, OpenBrowser(a) PROVE TypeOK'
    BY <1>13, TokenAssumption
       DEF OpenBrowser, LockFree, TypeOK, Signup, clockVars, tokenVars, loopVars, boundVars
  <1>14. CASE Granted
    <2>1. signup' \in Signup
      BY <1>14, TokenAssumption DEF Granted, TypeOK, Signup
    <2>2. answer' \in Answer /\ accepted' \in [Accounts -> Tokens \cup {None}]
      BY <1>14, TokenAssumption DEF Granted, TypeOK, Signup, Answer
    <2> QED
      BY <1>14, <2>1, <2>2 DEF Granted, TypeOK, clockVars, loopVars, boundVars
  <1>15. CASE SignedIn
    BY <1>15, TokenAssumption
       DEF SignedIn, SetExpiry, TypeOK, LockInv, WaitInv, Answer, loopVars, boundVars
  <1>16. CASE NotGranted
    BY <1>16, TokenAssumption
       DEF NotGranted, TypeOK, clockVars, tokenVars, loopVars, boundVars
  <1>17. CASE GrantDropped
    BY <1>17, TokenAssumption
       DEF GrantDropped, Fault, TypeOK, LockInv, Lapses, clockVars, tokenVars, loopVars
  <1>18. ASSUME NEW a \in Accounts, RemoveAccount(a) PROVE TypeOK'
    BY <1>18, TokenAssumption
       DEF RemoveAccount, DropHandle, Fault, LockFree, TypeOK, LockInv, Lapses, loopVars
  <1>19. CASE UNCHANGED vars
    BY <1>19 DEF vars, TypeOK, clockVars, tokenVars, loopVars, boundVars
  <1> QED
    BY <1>1, <1>2, <1>3, <1>4, <1>5, <1>6, <1>7, <1>8, <1>9, <1>10, <1>11, <1>12, <1>13,
       <1>14, <1>15, <1>16, <1>17, <1>18, <1>19
       DEF Next, LoopStep, SignupEnds

(* An answer on its way only ages.                                          *)
LEMMA AnswerAges ==
  ASSUME TypeOK, TokensAge
  PROVE  /\ answer # None <=> answer' # None
         /\ answer # None => /\ answer'.account = answer.account
                             /\ answer'.token = answer.token
                             /\ answer'.life = AfterTick(answer.life)
  <1> SUFFICES ASSUME answer # None PROVE answer' \in Answer
    BY TokenAssumption DEF TokensAge, TypeOK, Answer
  <1> QED
    BY TokenAssumption DEF TokensAge, AfterTick, TypeOK, Answer

(* Every action leaves the lock with one owner.                             *)
LEMMA LockStep ==
  ASSUME TypeOK, LockInv, [Next]_vars
  PROVE  LockInv'
  <1>1. CASE Tick
    BY <1>1, AnswerAges DEF Tick, LockInv
  <1>2. CASE Suspend
    BY <1>2, AnswerAges DEF Suspend, LockInv, loopVars
  <1>3. CASE BeginDrain
    BY <1>3, TokenAssumption DEF BeginDrain, Go, LockFree, LockInv
  <1>4. CASE EndDrain
    BY <1>4, TokenAssumption DEF EndDrain, Go, LockInv
  <1>5. CASE CheckTimer
    BY <1>5, TokenAssumption DEF CheckTimer, Go, LockFree, LockInv
  <1>6. CASE BeginRefresh
    BY <1>6, TokenAssumption DEF BeginRefresh, Go, LockFree, AccountsDueForRefresh, LockInv
  <1>7. ASSUME NEW a \in Accounts, Exchange(a) PROVE LockInv'
    BY <1>7, TokenAssumption DEF Exchange, GiveUp, Fault, KeepOld, Unused, LockInv
  <1>8. ASSUME NEW a \in Accounts, Refused(a) PROVE LockInv'
    BY <1>8, TokenAssumption DEF Refused, GiveUp, LockInv
  <1>9. CASE Store
    BY <1>9, TokenAssumption DEF Store, LockInv
  <1>10. CASE StoreFails
    BY <1>10, TokenAssumption DEF StoreFails, GiveUp, Fault, LockInv
  <1>11. CASE EndRefresh
    BY <1>11, TokenAssumption DEF EndRefresh, Go, LockInv
  <1>12. CASE EndCycle
    BY <1>12, TokenAssumption DEF EndCycle, Go, LockInv
  <1>13. ASSUME NEW a \in Accounts, OpenBrowser(a) PROVE LockInv'
    BY <1>13, TokenAssumption DEF OpenBrowser, LockFree, LockInv, loopVars
  <1>14. CASE Granted
    <2>1. signup' \in Signup /\ signup'.account = signup.account /\ signup'.stage = "granted"
      BY <1>14, TokenAssumption DEF Granted, TypeOK, Signup
    <2>2. answer' \in Answer /\ answer'.account = signup.account
      <3>1. PICK t \in Tokens \cup {None}, told \in BOOLEAN :
              answer' = [account |-> signup.account, token |-> t, told |-> told,
                         life |-> Life]
        BY <1>14 DEF Granted
      <3>2. signup.account \in Accounts
        BY <1>14 DEF Granted, TypeOK, Signup
      <3> QED
        BY <3>1, <3>2, TokenAssumption DEF Answer
    <2>3. signup' # None /\ answer' # None
      BY <2>1, <2>2, TokenAssumption
    <2> QED
      BY <1>14, <2>1, <2>2, <2>3 DEF Granted, LockInv, loopVars
  <1>15. CASE SignedIn
    BY <1>15, TokenAssumption DEF SignedIn, LockInv, loopVars
  <1>16. CASE NotGranted
    BY <1>16, TokenAssumption DEF NotGranted, LockInv, loopVars
  <1>17. CASE GrantDropped
    BY <1>17, TokenAssumption DEF GrantDropped, Fault, LockInv, loopVars
  <1>18. ASSUME NEW a \in Accounts, RemoveAccount(a) PROVE LockInv'
    BY <1>18, TokenAssumption
       DEF RemoveAccount, DropHandle, Fault, LockFree, LockInv, loopVars
  <1>19. CASE UNCHANGED vars
    BY <1>19 DEF vars, LockInv, clockVars, tokenVars, loopVars, boundVars
  <1> QED
    BY <1>1, <1>2, <1>3, <1>4, <1>5, <1>6, <1>7, <1>8, <1>9, <1>10, <1>11, <1>12, <1>13,
       <1>14, <1>15, <1>16, <1>17, <1>18, <1>19
       DEF Next, LoopStep, SignupEnds

-----------------------------------------------------------------------------
(* A new refresh token is none of those in use.                            *)
LEMMA UnusedIsNew ==
  ASSUME NEW a \in Accounts, NEW t \in Unused(a)
  PROVE  t # held[a] /\ t # accepted[a] /\ t # None
  BY TokenAssumption DEF Unused

(* A watched account that has not lapsed has a live access token between    *)
(* polls, and while its turn to be refreshed has not come.                  *)
LEMMA LiveToken ==
  ASSUME TypeOK, TimeInv, NEW a \in handles, lapse[a] = None, held[a] # None,
         a \notin toRefresh, Watched(a)
  PROVE  access[a] > 0
  BY CapIsEnough DEF TypeOK, TimeInv, TimeAt, Watched

(* Every action keeps each account's refresh tokens in agreement.          *)
LEMMA AgreeStep ==
  ASSUME TokenInv, TypeOK', LockInv', [Next]_vars
  PROVE  AgreeInv'
  <1> SUFFICES ASSUME NEW b \in Accounts
               PROVE  AgreeAt(b)'
    BY DEF AgreeInv
  <1> USE DEF TokenInv
  <1>1. CASE Tick
    BY <1>1, AnswerAges
       DEF Tick, AgreeInv, AgreeAt, Answered, Signing, LockInv, tokenVars
  <1>2. CASE Suspend
    BY <1>2, AnswerAges
       DEF Suspend, AgreeInv, AgreeAt, Answered, Signing, LockInv, tokenVars
  <1>3. CASE BeginDrain \/ EndDrain \/ CheckTimer
    BY <1>3, TokenAssumption
       DEF BeginDrain, EndDrain, CheckTimer, AgreeInv, AgreeAt, Answered, Signing, tokenVars
  <1>4. CASE BeginRefresh \/ EndRefresh \/ EndCycle
    BY <1>4, TokenAssumption
       DEF BeginRefresh, EndRefresh, EndCycle, AgreeInv, AgreeAt, Answered, Signing, tokenVars
  <1>5. ASSUME NEW a \in Accounts, Exchange(a) PROVE AgreeAt(b)'
    BY <1>5, UnusedIsNew, TokenAssumption
       DEF Exchange, GiveUp, Fault, KeepOld, AgreeInv, AgreeAt, Answered, Signing, LockInv,
           TypeOK, Lapses, Answer
  <1>6. ASSUME NEW a \in Accounts, Refused(a) PROVE AgreeAt(b)'
    BY <1>6, TokenAssumption
       DEF Refused, GiveUp, AgreeInv, AgreeAt, Answered, Signing, TypeOK, Lapses, tokenVars
  <1>7. CASE Store
    BY <1>7, TokenAssumption DEF Store, AgreeInv, AgreeAt, Answered, Signing, LockInv, TypeOK
  <1>8. CASE StoreFails
    <2>1. PICK a \in Accounts :
            /\ a = answer.account /\ a \in toRefresh /\ a \in handles
            /\ GiveUp(a, answer.token # held[a])
            /\ answer # None /\ answer' = None /\ signup = None
            /\ UNCHANGED <<handles, held, keyring, accepted, drawn, signup>>
      BY <1>8 DEF StoreFails, LockInv, TypeOK, tokenVars
    <2>2. /\ lapse'[b] = IF b = a THEN "failed" ELSE lapse[b]
          /\ "failed" # None
      BY <2>1, TokenAssumption DEF GiveUp, TypeOK, Lapses
    <2>3. stranded'[b] <=> (stranded[b] \/ (b = a /\ answer.token # held[a]))
      BY <2>1, Zenon DEF GiveUp, TypeOK
    <2> QED
      BY <2>1, <2>2, <2>3 DEF AgreeInv, AgreeAt, Answered, Signing, LockInv
  <1>9. ASSUME NEW a \in Accounts, OpenBrowser(a) PROVE AgreeAt(b)'
    BY <1>9, TokenAssumption
       DEF OpenBrowser, AgreeInv, AgreeAt, Answered, Signing, LockInv, TypeOK, tokenVars
  <1>10. CASE Granted
    BY <1>10, TokenAssumption
       DEF Granted, AgreeInv, AgreeAt, Answered, Signing, LockInv, TypeOK, Answer
  <1>11. CASE SignedIn
    BY <1>11, TokenAssumption
       DEF SignedIn, AgreeInv, AgreeAt, Answered, Signing, LockInv, TypeOK
  <1>12. CASE NotGranted
    BY <1>12, TokenAssumption
       DEF NotGranted, AgreeInv, AgreeAt, Answered, Signing, LockInv, tokenVars
  <1>13. CASE GrantDropped
    BY <1>13, TokenAssumption
       DEF GrantDropped, Fault, AgreeInv, AgreeAt, Answered, Signing, LockInv, TypeOK, Lapses,
           tokenVars
  <1>14. ASSUME NEW a \in Accounts, RemoveAccount(a) PROVE AgreeAt(b)'
    <2>1. PICK revoked \in BOOLEAN, deleted \in BOOLEAN :
            /\ revoked => access[a] > 0
            /\ accepted' = [accepted EXCEPT ![a] = IF revoked THEN None ELSE @]
            /\ keyring' = [keyring EXCEPT ![a] = IF deleted THEN None ELSE @]
            /\ \/ deleted /\ revoked /\ UNCHANGED <<failures, lapse>>
               \/ /\ deleted /\ access[a] = 0
                  /\ lapse' = [lapse EXCEPT ![a] = IF Watched(a) THEN @ ELSE "unwatched"]
                  /\ UNCHANGED failures
               \/ /\ ~deleted \/ (~revoked /\ access[a] > 0)
                  /\ Fault /\ lapse' = [lapse EXCEPT ![a] = "failed"]
      BY <1>14 DEF RemoveAccount
    <2>2. /\ a \in handles /\ signup = None /\ answer = None /\ toRefresh = {}
          /\ handles' = handles \ {a} /\ held' = [held EXCEPT ![a] = None]
          /\ UNCHANGED <<answer, signup, drawn, stranded>>
      BY <1>14 DEF RemoveAccount, DropHandle, LockFree, LockInv
    <2>3. CASE b # a
      BY <2>1, <2>2, <2>3 DEF AgreeInv, AgreeAt, Answered, Signing, TypeOK
    <2>4. CASE b = a
      <3>1. lapse'[a] = None =>
              deleted /\ lapse[a] = None /\ (revoked \/ (access[a] = 0 /\ held[a] = None))
        <4>1. "failed" # None /\ "unwatched" # None
          BY TokenAssumption DEF Lapses
        <4>2. lapse[a] = None /\ held[a] # None /\ Watched(a) => access[a] # 0
          BY <2>2, LiveToken, TokenAssumption DEF LockInv
        <4> QED
          BY <2>1, <4>1, <4>2 DEF TypeOK
      <3>2. lapse'[a] = None => keyring'[a] = None /\ accepted'[a] = None
        BY <2>1, <2>2, <3>1 DEF AgreeInv, AgreeAt, Answered, TypeOK
      <3> QED
        BY <2>2, <2>4, <3>2 DEF AgreeAt, Signing, LockInv
    <2> QED
      BY <2>3, <2>4
  <1>15. CASE UNCHANGED vars
    BY <1>15, TokenAssumption DEF vars, AgreeInv, AgreeAt, Answered, Signing, tokenVars
  <1> QED
    BY <1>1, <1>2, <1>3, <1>4, <1>5, <1>6, <1>7, <1>8, <1>9, <1>10, <1>11, <1>12, <1>13,
       <1>14, <1>15
       DEF Next, LoopStep, SignupEnds

-----------------------------------------------------------------------------
(* Every action keeps an answer's age within the ticks since the last look. *)
LEMMA WaitStep ==
  ASSUME TokenInv, TypeOK', LockInv', [Next]_vars
  PROVE  WaitInv'
  <1> USE CapIsEnough
  <1>1. CASE Tick \/ Suspend
    <2>1. /\ unseen \in 0 .. Cap /\ unseen' = Counted(unseen)
          /\ answer # None <=> answer' # None
          /\ answer # None => answer.life \in Nat /\ answer'.life = AfterTick(answer.life)
      BY <1>1, AnswerAges, TokenAssumption
         DEF Tick, Suspend, TokensAge, TokenInv, TypeOK, Answer
    <2> QED
      BY <2>1 DEF Counted, AfterTick, TokenInv, TimeInv, WaitInv
  <1>2. CASE BeginRefresh
    BY <1>2 DEF BeginRefresh, Go, LockFree, TokenInv, LockInv, WaitInv
  <1>3. ASSUME NEW a \in Accounts, Exchange(a) PROVE WaitInv'
    BY <1>3 DEF Exchange, TokenInv, TimeInv, WaitInv, TypeOK, clockVars
  <1>4. CASE Granted
    BY <1>4 DEF Granted, TokenInv, WaitInv, TypeOK, clockVars
  <1>5. CASE Store \/ StoreFails \/ SignedIn \/ GrantDropped
    BY <1>5 DEF Store, StoreFails, SignedIn, GrantDropped, WaitInv
  <1>6. CASE UNCHANGED <<answer, unseen>>
    BY <1>6 DEF TokenInv, TimeInv, WaitInv
  <1> QED
    BY <1>1, <1>2, <1>3, <1>4, <1>5, <1>6
       DEF Next, LoopStep, SignupEnds, BeginDrain, EndDrain, CheckTimer, EndRefresh, EndCycle,
           Refused, OpenBrowser, NotGranted, RemoveAccount, clockVars, vars

(* Every action leaves tokens that outlast the margin from the last look.   *)
LEMMA TimeStep ==
  ASSUME TokenInv, TypeOK', LockInv', WaitInv', [Next]_vars
  PROVE  \A b \in handles' : TimeAt(b)'
  <1> SUFFICES ASSUME NEW b \in handles'
               PROVE  TimeAt(b)'
    OBVIOUS
  <1> USE CapIsEnough
  <1>1. CASE Tick
    BY <1>1, TokenAssumption
       DEF Tick, TokensAge, Counted, AfterTick, TokenInv, TimeInv, TimeAt, TypeOK, tokenVars
  <1>2. CASE Suspend
    BY <1>2, TokenAssumption
       DEF Suspend, TokensAge, Counted, AfterTick, TokenInv, TimeInv, TimeAt, TypeOK,
           tokenVars, loopVars
  <1>3. CASE BeginRefresh
    BY <1>3, TokenAssumption
       DEF BeginRefresh, Go, AccountsDueForRefresh, TokenInv, TimeInv, TimeAt, TypeOK,
           LockInv, tokenVars
  <1>4. ASSUME NEW a \in Accounts, Exchange(a) PROVE TimeAt(b)'
    BY <1>4, TokenAssumption
       DEF Exchange, GiveUp, TokenInv, TimeInv, TimeAt, TypeOK, Lapses, clockVars
  <1>5. ASSUME NEW a \in Accounts, Refused(a) PROVE TimeAt(b)'
    BY <1>5, TokenAssumption
       DEF Refused, GiveUp, TokenInv, TimeInv, TimeAt, TypeOK, Lapses, clockVars, tokenVars
  <1>6. CASE Store
    BY <1>6, TokenAssumption
       DEF Store, SetExpiry, TokenInv, TimeInv, TimeAt, WaitInv, TypeOK, LockInv, Answer
  <1>7. CASE StoreFails
    BY <1>7, TokenAssumption
       DEF StoreFails, GiveUp, TokenInv, TimeInv, TimeAt, TypeOK, Lapses, clockVars, tokenVars
  <1>8. CASE SignedIn
    BY <1>8, TokenAssumption
       DEF SignedIn, SetExpiry, TokenInv, TimeInv, TimeAt, WaitInv, TypeOK, LockInv, Answer,
           loopVars
  <1>9. CASE GrantDropped
    BY <1>9, TokenAssumption
       DEF GrantDropped, TokenInv, TimeInv, TimeAt, LockInv, clockVars, tokenVars, loopVars
  <1>10. ASSUME NEW a \in Accounts, RemoveAccount(a) PROVE TimeAt(b)'
    BY <1>10, TokenAssumption
       DEF RemoveAccount, DropHandle, TokenInv, TimeInv, TimeAt, TypeOK, loopVars
  <1>11. CASE UNCHANGED <<handles, access, left, unseen, late, held, toRefresh, lapse>>
    BY <1>11 DEF TokenInv, TimeInv, TimeAt
  <1> QED
    BY <1>1, <1>2, <1>3, <1>4, <1>5, <1>6, <1>7, <1>8, <1>9, <1>10, <1>11
       DEF Next, LoopStep, SignupEnds, BeginDrain, EndDrain, CheckTimer, EndRefresh, EndCycle,
           OpenBrowser, Granted, NotGranted, clockVars, tokenVars, loopVars, vars

-----------------------------------------------------------------------------
(* Nobody is signed in.                                                    *)
LEMMA InitTokenInv == Init => TokenInv
  BY TokenAssumption
     DEF Init, TokenInv, TypeOK, Stages, Cap, Longer, LockInv, AgreeInv, AgreeAt, Answered,
         TimeInv, WaitInv

(* Every step keeps the invariant, whose parts lean on each other.          *)
LEMMA NextTokenInv == TokenInv /\ [Next]_vars => TokenInv'
  <1> SUFFICES ASSUME TokenInv, [Next]_vars
               PROVE  TokenInv'
    OBVIOUS
  <1>1. TypeOK' /\ LockInv'
    BY TypeStep, LockStep DEF TokenInv, TimeInv
  <1>2. AgreeInv' /\ WaitInv'
    BY <1>1, AgreeStep, WaitStep
  <1>3. \A b \in handles' : TimeAt(b)'
    BY <1>1, <1>2, TimeStep
  <1> QED
    BY <1>1, <1>2, <1>3 DEF TokenInv, TimeInv

LEMMA TokenInvariant == Spec => []TokenInv
  BY InitTokenInv, NextTokenInv, PTL DEF Spec

(* The variables of sign-ins, refreshes and the loop keep their types, and  *)
(* only accounts that are signed in wait for a refresh.                     *)
THEOREM TokensTyped == Spec => []TypeOK
  <1>1. TokenInv => TypeOK
    BY DEF TokenInv
  <1> QED
    BY <1>1, TokenInvariant, PTL

(* Every request of the loop for a watched account that has not lapsed has  *)
(* a live access token, for every margin, lifetime and interval.            *)
THEOREM LoopIsAuthorized == Spec => []RequestsAuthorized
  <1>1. ASSUME TokenInv PROVE RequestsAuthorized
    <2>1. pc \in {"apply", "cycle"} => toRefresh = {}
      BY <1>1 DEF TokenInv, LockInv
    <2> QED
      BY <1>1, <2>1, LiveToken DEF TokenInv, RequestsAuthorized
  <1> QED
    BY <1>1, TokenInvariant, PTL

(* Memory, keyring and provider agree on the refresh token, whether or not  *)
(* the provider replaces it, unless a failure stranded the account.         *)
THEOREM RefreshTokensStayTrue == Spec => []RefreshTokensAgree
  <1>1. ASSUME TokenInv PROVE RefreshTokensAgree
    BY <1>1 DEF TokenInv, TypeOK, AgreeInv, AgreeAt, Answered, RefreshTokensAgree
  <1> QED
    BY <1>1, TokenInvariant, PTL

(* A removed account leaves no secret and no grant, unless a call failed or *)
(* its token ran out unwatched: a watched one can always revoke.            *)
THEOREM RemovalRevokes == Spec => []RemovedIsRevoked
  <1>1. ASSUME TokenInv PROVE RemovedIsRevoked
    BY <1>1 DEF TokenInv, TypeOK, AgreeInv, AgreeAt, Signing, RemovedIsRevoked
  <1> QED
    BY <1>1, TokenInvariant, PTL
=============================================================================
