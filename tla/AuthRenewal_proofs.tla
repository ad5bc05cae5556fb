------------------------ MODULE AuthRenewal_proofs -------------------------
(***************************************************************************)
(* Proofs about AuthRenewal, for any threads, processes and bounds.        *)
(***************************************************************************)
EXTENDS AuthRenewal, TLAPS

(***************************************************************************)
(* The inductive invariant.  The credential lock has one holder (LockInv), *)
(* who works on what the file holds (FileIsPinned) and, unless it only     *)
(* saves, on a token (UseInv).  A token on its way to the file is good and *)
(* nobody else's (FreshInv); the one in the file is good, or the holder of *)
(* the lock is about to replace it (GrantInv).                             *)
(***************************************************************************)
LockInv ==
    \A t, u \in Thread : pc[t] \in HoldsCred /\ pc[u] \in HoldsCred => t = u

UseInv == \A t \in Thread : pc[t] \in HoldsCred \ {"saving"} => use[t] # None

LoginInv == \A t \in Thread : pc[t] \in {"authorize", "store"} => op[t] = "login"

OnItsWay == {"store", "rotated"}

FreshInv ==
    /\ refreshable \subseteq 1 .. issued
    /\ file <= issued
    /\ \A t \in Thread : pc[t] \in OnItsWay => got[t] \in refreshable /\ got[t] # file
    /\ \A t, u \in Thread :
          t # u /\ pc[t] \in OnItsWay /\ pc[u] \in OnItsWay => got[t] # got[u]

Good == refreshable \cup lost \cup {None}

GrantInv == file \in Good \/ \E t \in Thread : pc[t] \in {"rotated", "revoked"}

SeenInv ==
    \A t \in Thread : pc[t] = "header" => file \in seen[t] /\ memory[ProcessOf[t]] \in seen[t]

Inv ==
    /\ TypeOK
    /\ LockInv
    /\ FileIsPinned
    /\ UseInv
    /\ LoginInv
    /\ FreshInv
    /\ GrantInv
    /\ SeenInv

-----------------------------------------------------------------------------
LEMMA InitInv == Init => Inv
<1> SUFFICES ASSUME Init PROVE Inv
  OBVIOUS
<1>1. TypeOK
  BY AuthAssumption DEF Init, TypeOK, Token, None, Place, Task
<1>2. LockInv /\ FileIsPinned /\ UseInv /\ LoginInv /\ SeenInv
  BY DEF Init, LockInv, FileIsPinned, UseInv, LoginInv, SeenInv, HoldsCred
<1>3. FreshInv
  BY DEF Init, FreshInv, OnItsWay
<1>4. GrantInv
  BY DEF Init, GrantInv, Good
<1> QED BY <1>1, <1>2, <1>3, <1>4 DEF Inv

\* A thread moves without touching the file or the service; it takes no lock
\* of the file, though it may give it back.
Moves(t, place) ==
    /\ pc' = [pc EXCEPT ![t] = place]
    /\ op' = op \/ (op' = [op EXCEPT ![t] = "retry"] /\ place = "reload")
    /\ \/ sent' = sent
       \/ \E v \in Token \cup {None} : sent' = [sent EXCEPT ![t] = v]
    /\ \/ asked' = asked
       \/ \E v \in Token \cup {None} : asked' = [asked EXCEPT ![t] = v]
    /\ use' = use \/ use' = [use EXCEPT ![t] = None]
    /\ got' = got \/ got' = [got EXCEPT ![t] = None]
    /\ left' = left
    /\ crashes' = crashes

LEMMA MoveTypes ==
    ASSUME TypeOK, NEW t \in Thread, NEW place \in Place, Moves(t, place)
    PROVE  /\ pc' \in [Thread -> Place]
           /\ op' \in [Thread -> Task \cup {"retry"}]
           /\ sent' \in [Thread -> Token \cup {None}]
           /\ asked' \in [Thread -> Token \cup {None}]
           /\ use' \in [Thread -> Token \cup {None}]
           /\ got' \in [Thread -> Token \cup {None}]
           /\ left' \in [Thread -> Nat]
           /\ crashes' \in 0 .. MaxCrashes
<1>1. op' \in [Thread -> Task \cup {"retry"}]
  BY DEF TypeOK, Moves
<1>2. sent' \in [Thread -> Token \cup {None}] /\ asked' \in [Thread -> Token \cup {None}]
  BY DEF TypeOK, Moves
<1>3. use' \in [Thread -> Token \cup {None}] /\ got' \in [Thread -> Token \cup {None}]
  BY DEF TypeOK, Moves
<1>4. pc' \in [Thread -> Place]
  BY DEF TypeOK, Moves
<1> QED BY <1>1, <1>2, <1>3, <1>4 DEF TypeOK, Moves

\* What memory may become in a step that does not write the file.
Remembers(t) == memory' = memory \/ memory' = [memory EXCEPT ![ProcessOf[t]] = file]

LEMMA QuietKeeps ==
    ASSUME Inv, NEW t \in Thread,
           NEW place \in Place \ (HoldsCred \cup {"authorize", "store", "header"}),
           pc[t] \notin {"rotated", "revoked"},
           Moves(t, place), Remembers(t),
           file' = file, UNCHANGED service, lost' = lost,
           seen' = seen \/ seen' = [seen EXCEPT ![t] = {}]
    PROVE  Inv'
<1> USE DEF Inv
<1>1. TypeOK'
  <2>1. memory' \in [Process -> Token \cup {None}]
    BY AuthAssumption DEF TypeOK, Remembers
  <2>2. seen' \in [Thread -> SUBSET (Token \cup {None})]
    BY DEF TypeOK
  <2> QED BY <2>1, <2>2, MoveTypes DEF TypeOK, service
<1>2. \A u \in Thread \ {t} : pc'[u] = pc[u] /\ op'[u] = op[u] /\ use'[u] = use[u] /\ got'[u] = got[u]
  BY DEF Moves, TypeOK
<1>3. pc'[t] = place
  BY DEF Moves, TypeOK
<1>4. LockInv'
  BY <1>2, <1>3 DEF LockInv
<1>5. FileIsPinned'
  BY <1>2, <1>3 DEF FileIsPinned
<1>6. UseInv'
  BY <1>2, <1>3 DEF UseInv
<1>7. LoginInv'
  BY <1>2, <1>3 DEF LoginInv
<1>8. FreshInv'
  <2>1. pc'[t] \notin OnItsWay
    BY <1>3 DEF OnItsWay, HoldsCred
  <2> QED BY <1>2, <2>1 DEF FreshInv, service
<1>9. GrantInv'
  <2>1. CASE file \in Good
    BY <2>1 DEF GrantInv, Good, service
  <2>2. CASE \E u \in Thread : pc[u] \in {"rotated", "revoked"}
    BY <1>2, <2>2 DEF GrantInv
  <2> QED BY <2>1, <2>2 DEF GrantInv
<1>10. SeenInv'
  <2> SUFFICES ASSUME NEW u \in Thread, pc'[u] = "header"
               PROVE  file' \in seen'[u] /\ memory'[ProcessOf[u]] \in seen'[u]
    BY DEF SeenInv
  <2>1. u # t
    BY <1>3
  <2>2. pc[u] = "header" /\ seen'[u] = seen[u]
    BY <1>2, <2>1 DEF TypeOK
  <2>3. memory'[ProcessOf[u]] \in {memory[ProcessOf[u]], file}
    BY AuthAssumption DEF TypeOK, Remembers
  <2> QED BY <2>2, <2>3 DEF SeenInv
<1> QED BY <1>1, <1>4, <1>5, <1>6, <1>7, <1>8, <1>9, <1>10

-----------------------------------------------------------------------------
(* The steps that neither write the file nor move the service.             *)
LEMMA EndMoves ==
    ASSUME TypeOK, NEW t \in Thread, End(t), UNCHANGED crashes
    PROVE  Moves(t, "idle")
BY DEF End, GoTo, Moves, None

LEMMA RetryMoves ==
    ASSUME TypeOK, NEW t \in Thread, Retry(t), UNCHANGED crashes
    PROVE  Moves(t, "reload")
BY DEF Retry, GoTo, Moves, None

LEMMA RequestKeeps ==
    ASSUME Inv, NEW t \in Thread,
           Header(t) \/ Remember(t) \/ Answer(t) \/ NoAnswer(t) \/ Recheck(t)
    PROVE  Inv'
<1> TypeOK
  BY DEF Inv
<1> memory[ProcessOf[t]] \in Token \cup {None}
  BY AuthAssumption DEF TypeOK
<1>1. CASE Header(t)
  <2>1. /\ pc[t] = "header"
        /\ seen' = [seen EXCEPT ![t] = {}]
        /\ UNCHANGED <<file, memory, crashes, service, lost>>
    BY <1>1 DEF Header
  <2>2. CASE End(t)
    BY <2>1, <2>2, EndMoves, QuietKeeps DEF Remembers, Place, HoldsCred
  <2>3. CASE /\ sent' = [sent EXCEPT ![t] = memory[ProcessOf[t]]]
             /\ GoTo(t, "remember")
             /\ UNCHANGED <<op, asked, use, got, left>>
    <3>1. Moves(t, "remember")
      BY <2>1, <2>3 DEF Moves, GoTo
    <3> QED BY <2>1, <3>1, QuietKeeps DEF Remembers, Place, HoldsCred
  <2> QED BY <1>1, <2>2, <2>3 DEF Header
<1>2. CASE Remember(t)
  <2>1. Moves(t, "wire")
    BY <1>2 DEF Remember, Moves, GoTo
  <2> QED BY <1>2, <2>1, QuietKeeps DEF Remember, Remembers, Place, HoldsCred, history
<1>3. CASE Answer(t)
  <2>1. pc[t] = "wire" /\ UNCHANGED <<file, memory, crashes, service, history>>
    BY <1>3 DEF Answer
  <2>2. CASE End(t)
    BY <2>1, <2>2, EndMoves, QuietKeeps DEF Remembers, Place, HoldsCred, history
  <2>3. CASE (GoTo(t, "rejected") \/ GoTo(t, "lock")) /\ UNCHANGED <<op, sent, asked, use, got, left>>
    <3>1. Moves(t, "rejected") \/ Moves(t, "lock")
      BY <2>1, <2>3 DEF Moves, GoTo
    <3> QED BY <2>1, <3>1, QuietKeeps DEF Remembers, Place, HoldsCred, history
  <2> QED BY <1>3, <2>2, <2>3 DEF Answer
<1>4. CASE NoAnswer(t)
  BY <1>4, EndMoves, QuietKeeps DEF NoAnswer, Remembers, Place, HoldsCred, history
<1>5. CASE Recheck(t)
  <2>1. /\ pc[t] = "rejected"
        /\ SetMemory(t, file)
        /\ UNCHANGED <<file, crashes, service, history>>
    BY <1>5 DEF Recheck, Loaded
  <2>2. CASE Retry(t)
    BY <2>1, <2>2, RetryMoves, QuietKeeps DEF Remembers, SetMemory, Place, HoldsCred, history
  <2>3. CASE GoTo(t, "lock") /\ UNCHANGED <<op, sent, asked, use, got, left>>
    <3>1. Moves(t, "lock")
      BY <2>1, <2>3 DEF Moves, GoTo
    <3> QED BY <2>1, <3>1, QuietKeeps DEF Remembers, SetMemory, Place, HoldsCred, history
  <2> QED BY <1>5, <2>2, <2>3 DEF Recheck
<1> QED BY <1>1, <1>2, <1>3, <1>4, <1>5

LEMMA LockedQuietKeeps ==
    ASSUME Inv, NEW t \in Thread,
           \/ TakeState(t) \/ CredTimesOut(t) \/ RenewalFails(t) \/ RevokeFails(t)
           \/ LoginFails(t) \/ Publish(t)
    PROVE  Inv'
<1> TypeOK
  BY DEF Inv
<1>1. CASE TakeState(t)
  <2>1. Moves(t, "cred")
    BY <1>1 DEF TakeState, Moves, GoTo
  <2> QED BY <1>1, <2>1, QuietKeeps DEF TakeState, Remembers, Place, HoldsCred, history
<1>2. CASE CredTimesOut(t)
  BY <1>2, EndMoves, QuietKeeps DEF CredTimesOut, Remembers, Place, HoldsCred, history
<1>3. CASE RenewalFails(t)
  BY <1>3, EndMoves, QuietKeeps DEF RenewalFails, Remembers, Place, HoldsCred, history
<1>4. CASE RevokeFails(t)
  BY <1>4, EndMoves, QuietKeeps DEF RevokeFails, Remembers, Place, HoldsCred, history
<1>5. CASE LoginFails(t)
  BY <1>5, EndMoves, QuietKeeps DEF LoginFails, Remembers, Place, HoldsCred, history
<1>6. CASE Publish(t)
  BY <1>6, EndMoves, QuietKeeps
     DEF Publish, Loaded, SetMemory, Remembers, Place, HoldsCred, history
<1> QED BY <1>1, <1>2, <1>3, <1>4, <1>5, <1>6

-----------------------------------------------------------------------------
(* The steps that take the lock of the file.                               *)
LEMMA ProceedKeeps ==
    ASSUME Inv, NEW t \in Thread, pc[t] = "cred", CredFree(t),
           NEW place \in {"refreshing", "revoking", "saving"},
           Proceed(t, place), place # "saving" => file # None,
           Remembers(t), UNCHANGED <<file, crashes, service, history>>
    PROVE  Inv'
<1> USE DEF Inv
<1>1. \A u \in Thread \ {t} : pc'[u] = pc[u] /\ op'[u] = op[u] /\ use'[u] = use[u] /\ got'[u] = got[u]
  BY DEF Proceed, GoTo, TypeOK
<1>2. pc'[t] = place /\ use'[t] = file
  BY DEF Proceed, GoTo, TypeOK, Loaded
<1>3. TypeOK'
  <2>1. memory' \in [Process -> Token \cup {None}]
    BY AuthAssumption DEF TypeOK, Remembers
  <2>2. pc' \in [Thread -> Place] /\ use' \in [Thread -> Token \cup {None}]
    BY DEF TypeOK, Proceed, GoTo, Loaded, Place
  <2> QED BY <2>1, <2>2 DEF TypeOK, Proceed, service, history
<1>4. LockInv'
  BY <1>1, <1>2 DEF LockInv, CredFree
<1>5. FileIsPinned'
  BY <1>1, <1>2 DEF FileIsPinned, CredFree
<1>6. UseInv'
  BY <1>1, <1>2 DEF UseInv, CredFree
<1>7. LoginInv'
  BY <1>1, <1>2 DEF LoginInv
<1>8. FreshInv'
  BY <1>1, <1>2 DEF FreshInv, OnItsWay, service
<1>9. GrantInv'
  BY <1>1, <1>2 DEF GrantInv, Good, CredFree, HoldsCred, service, history
<1>10. SeenInv'
  <2> SUFFICES ASSUME NEW u \in Thread, pc'[u] = "header"
               PROVE  file' \in seen'[u] /\ memory'[ProcessOf[u]] \in seen'[u]
    BY DEF SeenInv
  <2>1. pc[u] = "header" /\ seen'[u] = seen[u]
    BY <1>1, <1>2 DEF history
  <2>2. memory'[ProcessOf[u]] \in {memory[ProcessOf[u]], file}
    BY AuthAssumption DEF TypeOK, Remembers
  <2> QED BY <2>1, <2>2 DEF SeenInv
<1> QED BY <1>3, <1>4, <1>5, <1>6, <1>7, <1>8, <1>9, <1>10

LEMMA StartKeeps ==
    ASSUME Inv, NEW t \in Thread, StartRenewal(t) \/ StartLogout(t) \/ StartSave(t)
    PROVE  Inv'
<1> TypeOK
  BY DEF Inv
<1>1. /\ pc[t] = "cred" /\ CredFree(t)
      /\ UNCHANGED <<file, crashes, service, history>>
  BY DEF StartRenewal, StartLogout, StartSave
<1>2. Remembers(t)
  BY DEF StartRenewal, StartLogout, StartSave, Remembers, SetMemory, Loaded
<1>3. CASE End(t)
  BY <1>1, <1>2, <1>3, EndMoves, QuietKeeps DEF Place, HoldsCred, history
<1>4. CASE Retry(t)
  BY <1>1, <1>2, <1>4, RetryMoves, QuietKeeps DEF Place, HoldsCred, history
<1>5. CASE Proceed(t, "saving")
  BY <1>1, <1>2, <1>5, ProceedKeeps
<1>6. CASE file # None /\ (Proceed(t, "refreshing") \/ Proceed(t, "revoking"))
  BY <1>1, <1>2, <1>6, ProceedKeeps
<1> QED BY <1>3, <1>4, <1>5, <1>6 DEF StartRenewal, StartLogout, StartSave, Loaded

-----------------------------------------------------------------------------
(* Steps of one thread that leave the file alone.  Every conjunct speaks   *)
(* of what the other threads hold, and that stays.                         *)
OthersStay(t) ==
    \A u \in Thread \ {t} :
        pc'[u] = pc[u] /\ op'[u] = op[u] /\ use'[u] = use[u] /\ got'[u] = got[u]

LEMMA BeginKeeps ==
    ASSUME Inv, NEW t \in Thread, Begin(t)
    PROVE  Inv'
<1> USE DEF Inv
<1>1. PICK o \in Does[t] :
          /\ op' = [op EXCEPT ![t] = o]
          /\ GoTo(t, CASE o \in {"request", "lane"} -> "reload"
                       [] o \in {"save", "logout"}  -> "lock"
                       [] o = "login"               -> "authorize")
  BY DEF Begin
<1>2. o \in Task
  BY AuthAssumption
<1>3. pc'[t] \in {"reload", "lock", "authorize"} /\ (pc'[t] = "authorize" => op'[t] = "login")
  BY <1>1, <1>2 DEF TypeOK, GoTo, Task
<1>4. OthersStay(t)
  BY <1>1 DEF Begin, OthersStay, GoTo, TypeOK
<1>5. TypeOK'
  <2>1. op' \in [Thread -> Task \cup {"retry"}]
    BY <1>1, <1>2 DEF TypeOK
  <2>2. pc' \in [Thread -> Place]
    BY <1>1, <1>3 DEF TypeOK, GoTo, Place
  <2>3. left' \in [Thread -> Nat]
    <3>1. left[t] - 1 \in Nat
      BY DEF Begin, TypeOK
    <3> QED BY <3>1 DEF Begin, TypeOK
  <2> QED BY <2>1, <2>2, <2>3 DEF Begin, TypeOK, service, history
<1>6. LockInv' /\ FileIsPinned' /\ UseInv' /\ LoginInv'
  BY <1>3, <1>4 DEF Begin, OthersStay, LockInv, FileIsPinned, UseInv, LoginInv, HoldsCred
<1>7. FreshInv'
  BY <1>3, <1>4 DEF Begin, OthersStay, FreshInv, OnItsWay, service
<1>8. GrantInv'
  BY <1>3, <1>4 DEF Begin, OthersStay, GrantInv, Good, service, history
<1>9. SeenInv'
  BY <1>3, <1>4 DEF Begin, OthersStay, SeenInv, history
<1> QED BY <1>5, <1>6, <1>7, <1>8, <1>9

LEMMA ReloadKeeps ==
    ASSUME Inv, NEW t \in Thread, Reload(t)
    PROVE  Inv'
<1> USE DEF Inv
<1>1. OthersStay(t) /\ pc'[t] = "header" /\ seen'[t] = {file}
  BY DEF Reload, OthersStay, GoTo, TypeOK
<1>2. \A p \in Process : memory'[p] \in {memory[p], file}
  BY DEF Reload, SetMemory, Loaded, TypeOK
<1>3. memory'[ProcessOf[t]] = file
  BY AuthAssumption DEF Reload, SetMemory, Loaded, TypeOK
<1>4. TypeOK'
  <2>1. memory' \in [Process -> Token \cup {None}]
    BY DEF Reload, SetMemory, Loaded, TypeOK
  <2>2. pc' \in [Thread -> Place] /\ seen' \in [Thread -> SUBSET (Token \cup {None})]
    BY DEF Reload, GoTo, TypeOK, Place
  <2> QED BY <2>1, <2>2 DEF Reload, TypeOK, service
<1>5. LockInv' /\ FileIsPinned' /\ UseInv' /\ LoginInv'
  BY <1>1 DEF Reload, OthersStay, LockInv, FileIsPinned, UseInv, LoginInv, HoldsCred
<1>6. FreshInv'
  BY <1>1 DEF Reload, OthersStay, FreshInv, OnItsWay, service
<1>7. GrantInv'
  BY <1>1 DEF Reload, OthersStay, GrantInv, Good, service
<1>8. SeenInv'
  <2> SUFFICES ASSUME NEW u \in Thread, pc'[u] = "header"
               PROVE  file' \in seen'[u] /\ memory'[ProcessOf[u]] \in seen'[u]
    BY DEF SeenInv
  <2>1. CASE u = t
    BY <1>1, <1>3, <2>1 DEF Reload
  <2>2. CASE u # t
    <3>1. pc[u] = "header" /\ seen'[u] = seen[u]
      BY <1>1, <2>2 DEF Reload, OthersStay, TypeOK
    <3>2. ProcessOf[u] \in Process
      BY AuthAssumption
    <3> QED BY <1>2, <3>1, <3>2 DEF Reload, SeenInv
  <2> QED BY <2>1, <2>2
<1> QED BY <1>4, <1>5, <1>6, <1>7, <1>8

\* The token that is issued next is nobody's yet.
LEMMA IssueFacts ==
    ASSUME Inv, NEW t \in Thread, Issue(t)
    PROVE  /\ issued' = issued + 1 /\ issued' \in Token
           /\ issued' \notin refreshable /\ issued' # file
           /\ got'[t] = issued'
           /\ got' \in [Thread -> Token \cup {None}]
           /\ accepted' \subseteq Token
           /\ \A u \in Thread \ {t} : got'[u] = got[u]
<1> USE DEF Inv
<1>1. issued' = issued + 1 /\ issued' \in Token
  BY AuthAssumption DEF Issue, TypeOK, Token
<1>2. issued' \notin refreshable
  BY <1>1 DEF FreshInv, TypeOK, Token
<1>3. issued' # file
  BY <1>1 DEF FreshInv, TypeOK, Token, None
<1>4. got' \in [Thread -> Token \cup {None}] /\ got'[t] = issued'
  BY <1>1 DEF Issue, TypeOK
<1>5. accepted' \subseteq Token
  BY <1>1 DEF Issue, TypeOK
<1> QED BY <1>1, <1>2, <1>3, <1>4, <1>5 DEF Issue, TypeOK

LEMMA IssueKeeps ==
    ASSUME Inv, NEW t \in Thread, Rotate(t) \/ Authorize(t)
    PROVE  Inv'
<1> USE DEF Inv
<1>1. Issue(t)
  BY DEF Rotate, Authorize
<1>2. /\ UNCHANGED <<file, memory, op, sent, asked, use, left, crashes, history>>
      /\ \/ pc[t] = "refreshing" /\ GoTo(t, "rotated")
         \/ pc[t] = "authorize" /\ GoTo(t, "store")
  BY DEF Rotate, Authorize
<1>3. refreshable' \subseteq refreshable \cup {issued'} /\ issued' \in refreshable'
  BY <1>1 DEF Rotate, Authorize, Issue
<1>4. OthersStay(t)
  BY <1>2, IssueFacts, <1>1 DEF OthersStay, GoTo, TypeOK
<1>5. \/ pc[t] = "refreshing" /\ pc'[t] = "rotated"
      \/ pc[t] = "authorize" /\ pc'[t] = "store"
  BY <1>2 DEF GoTo, TypeOK
<1>6. TypeOK'
  <2>1. pc' \in [Thread -> Place]
    BY <1>2 DEF GoTo, TypeOK, Place
  <2>2. refreshable' \subseteq Token
    BY <1>1, <1>3, IssueFacts DEF TypeOK
  <2> QED BY <1>1, <1>2, <2>1, <2>2, IssueFacts DEF TypeOK, history
<1>7. LockInv' /\ FileIsPinned' /\ UseInv' /\ LoginInv'
  BY <1>2, <1>4, <1>5 DEF OthersStay, LockInv, FileIsPinned, UseInv, LoginInv, HoldsCred
<1>8. FreshInv'
  <2>1. refreshable' \subseteq 1 .. issued' /\ file' <= issued'
    BY <1>1, <1>2, <1>3, IssueFacts DEF FreshInv, TypeOK, Token, None
  <2>2. \A u \in Thread \ {t} : pc[u] \in OnItsWay => got[u] \in refreshable' /\ got[u] # file
    <3> SUFFICES ASSUME NEW u \in Thread \ {t}, pc[u] \in OnItsWay
                 PROVE  got[u] \in refreshable' /\ got[u] # file
      OBVIOUS
    <3>1. got[u] \in refreshable /\ got[u] # file
      BY DEF FreshInv
    <3>2. CASE Rotate(t)
      <4>1. use[t] = file
        BY <3>2 DEF Rotate, FileIsPinned, HoldsCred
      <4> QED BY <3>1, <3>2, <4>1 DEF Rotate
    <3>3. CASE Authorize(t)
      BY <3>1, <3>3 DEF Authorize
    <3> QED BY <3>1, <3>2, <3>3
  <2>3. \A u \in Thread \ {t} : pc[u] \in OnItsWay => got[u] # issued'
    BY <1>1, IssueFacts DEF FreshInv
  <2>4. got'[t] \in refreshable' /\ got'[t] # file' /\ got'[t] = issued'
    BY <1>1, <1>2, <1>3, IssueFacts
  <2> QED BY <1>2, <1>4, <2>1, <2>2, <2>3, <2>4 DEF FreshInv, OthersStay
<1>9. GrantInv'
  <2>1. CASE Rotate(t)
    BY <1>5, <2>1 DEF GrantInv, Rotate
  <2>2. CASE Authorize(t)
    BY <1>2, <1>4, <1>5, <2>2 DEF GrantInv, Good, Authorize, OthersStay, history
  <2> QED BY <2>1, <2>2
<1>10. SeenInv'
  BY <1>2, <1>4, <1>5 DEF SeenInv, OthersStay, history
<1> QED BY <1>6, <1>7, <1>8, <1>9, <1>10

LEMMA RevokeKeeps ==
    ASSUME Inv, NEW t \in Thread, Revoke(t)
    PROVE  Inv'
<1> USE DEF Inv
<1>1. OthersStay(t) /\ pc'[t] = "revoked" /\ use'[t] = use[t]
  BY DEF Revoke, OthersStay, GoTo, TypeOK
<1>2. use[t] = file
  BY DEF Revoke, FileIsPinned, HoldsCred
<1>3. TypeOK'
  <2>1. pc' \in [Thread -> Place]
    BY DEF Revoke, GoTo, TypeOK, Place
  <2> QED BY <2>1 DEF Revoke, TypeOK, history
<1>4. LockInv' /\ FileIsPinned' /\ UseInv' /\ LoginInv'
  BY <1>1 DEF Revoke, OthersStay, LockInv, FileIsPinned, UseInv, LoginInv, HoldsCred
<1>5. FreshInv'
  BY <1>1, <1>2 DEF Revoke, OthersStay, FreshInv, OnItsWay
<1>6. GrantInv'
  BY <1>1 DEF GrantInv
<1>7. SeenInv'
  BY <1>1 DEF Revoke, OthersStay, SeenInv, history
<1> QED BY <1>3, <1>4, <1>5, <1>6, <1>7

LEMMA AnswerLostKeeps ==
    ASSUME Inv, NEW t \in Thread, AnswerLost(t)
    PROVE  Inv'
<1> USE DEF Inv
<1>1. OthersStay(t) /\ pc'[t] = "idle"
  BY DEF AnswerLost, OthersStay, End, GoTo, TypeOK
<1>2. use[t] = file /\ file # None
  BY DEF AnswerLost, FileIsPinned, UseInv, HoldsCred
<1>3. TypeOK'
  <2>1. Moves(t, "idle") /\ "idle" \in Place
    BY EndMoves DEF AnswerLost, Place
  <2>2. lost' \subseteq Token
    BY <1>2 DEF AnswerLost, TypeOK
  <2> QED BY <2>1, <2>2, MoveTypes DEF AnswerLost, TypeOK, service
<1>4. LockInv' /\ FileIsPinned' /\ UseInv' /\ LoginInv'
  BY <1>1 DEF AnswerLost, OthersStay, LockInv, FileIsPinned, UseInv, LoginInv, HoldsCred
<1>5. FreshInv'
  BY <1>1 DEF AnswerLost, OthersStay, FreshInv, OnItsWay, service
<1>6. GrantInv'
  BY <1>2 DEF AnswerLost, GrantInv, Good
<1>7. SeenInv'
  BY <1>1 DEF AnswerLost, OthersStay, SeenInv
<1> QED BY <1>3, <1>4, <1>5, <1>6, <1>7

LEMMA ExpireKeeps ==
    ASSUME Inv, NEW token \in Token, Expire(token)
    PROVE  Inv'
<1> USE DEF Inv
<1>1. TypeOK'
  BY DEF Expire, TypeOK, local, history
<1>2. LockInv' /\ FileIsPinned' /\ UseInv' /\ LoginInv'
  BY DEF Expire, LockInv, FileIsPinned, UseInv, LoginInv, local
<1>3. FreshInv' /\ GrantInv' /\ SeenInv'
  BY DEF Expire, FreshInv, GrantInv, Good, SeenInv, local, history
<1> QED BY <1>1, <1>2, <1>3

-----------------------------------------------------------------------------
(* The steps that write the file: the writer is the only one who works on  *)
(* it, and what it writes is good and nobody else's.                       *)
Writes(t, token, place) ==
    /\ OthersStay(t)
    /\ pc' = [pc EXCEPT ![t] = place]
    /\ \A u \in Thread \ {t} : pc[u] \notin HoldsCred
    /\ pc[t] # "header"
    /\ token <= issued
    /\ \A u \in Thread \ {t} : pc[u] \in OnItsWay => got[u] # token
    /\ token \in Good \/ (token = file /\ pc[t] = "saving")
    /\ WriteFile(token)
    /\ memory' = memory \/ memory' = [memory EXCEPT ![ProcessOf[t]] = token]
    /\ UNCHANGED <<crashes, service, left>>
    /\ op' \in [Thread -> Task \cup {"retry"}]
    /\ sent' \in [Thread -> Token \cup {None}]
    /\ asked' \in [Thread -> Token \cup {None}]
    /\ use' \in [Thread -> Token \cup {None}]
    /\ got' \in [Thread -> Token \cup {None}]

LEMMA WriteKeeps ==
    ASSUME Inv, NEW t \in Thread, NEW token \in Token \cup {None},
           NEW place \in {"idle", "reload", "publish"}, Writes(t, token, place)
    PROVE  Inv'
<1> USE DEF Inv, Writes
<1>1. pc'[t] = place
  BY DEF TypeOK
<1>2. TypeOK'
  <2>1. memory' \in [Process -> Token \cup {None}]
    BY DEF TypeOK
  <2>2. pc' \in [Thread -> Place]
    BY DEF TypeOK, Place
  <2>3. seen' \in [Thread -> SUBSET (Token \cup {None})]
    BY DEF TypeOK, WriteFile
  <2> QED BY <2>1, <2>2, <2>3 DEF TypeOK, WriteFile, service
<1>3. LockInv' /\ FileIsPinned' /\ UseInv' /\ LoginInv'
  BY <1>1 DEF OthersStay, LockInv, FileIsPinned, UseInv, LoginInv, HoldsCred
<1>4. FreshInv'
  BY <1>1 DEF OthersStay, FreshInv, OnItsWay, WriteFile, service
<1>5. GrantInv'
  <2>1. CASE token \in Good
    BY <2>1 DEF GrantInv, Good, WriteFile, service
  <2>2. CASE token = file /\ pc[t] = "saving"
    <3>1. \A u \in Thread : pc[u] \notin {"rotated", "revoked"}
      BY <2>2 DEF HoldsCred
    <3> QED BY <2>2, <3>1 DEF GrantInv, Good, WriteFile, service
  <2> QED BY <2>1, <2>2
<1>6. SeenInv'
  <2> SUFFICES ASSUME NEW u \in Thread, pc'[u] = "header"
               PROVE  file' \in seen'[u] /\ memory'[ProcessOf[u]] \in seen'[u]
    BY DEF SeenInv
  <2>1. pc[u] = "header" /\ u # t
    BY <1>1 DEF OthersStay
  <2>2. seen'[u] = seen[u] \cup {token} /\ file' = token
    BY <2>1 DEF WriteFile
  <2>3. memory'[ProcessOf[u]] \in {memory[ProcessOf[u]], token}
    BY AuthAssumption DEF TypeOK
  <2>4. memory[ProcessOf[u]] \in seen[u]
    BY <2>1 DEF SeenInv
  <2> QED BY <2>2, <2>3, <2>4
<1> QED BY <1>2, <1>3, <1>4, <1>5, <1>6

LEMMA EndFacts ==
    ASSUME TypeOK, NEW t \in Thread, End(t) \/ Retry(t)
    PROVE  /\ OthersStay(t)
           /\ op' \in [Thread -> Task \cup {"retry"}]
           /\ sent' \in [Thread -> Token \cup {None}]
           /\ asked' \in [Thread -> Token \cup {None}]
           /\ use' \in [Thread -> Token \cup {None}]
           /\ got' \in [Thread -> Token \cup {None}]
           /\ left' = left
<1>1. OthersStay(t) /\ left' = left
  BY DEF End, Retry, GoTo, OthersStay, TypeOK
<1>2. op' \in [Thread -> Task \cup {"retry"}]
  BY DEF End, Retry, TypeOK
<1>3. sent' \in [Thread -> Token \cup {None}] /\ asked' \in [Thread -> Token \cup {None}]
  BY DEF End, Retry, TypeOK
<1>4. use' \in [Thread -> Token \cup {None}] /\ got' \in [Thread -> Token \cup {None}]
  BY DEF End, Retry, TypeOK
<1> QED BY <1>1, <1>2, <1>3, <1>4

LEMMA WritesKeep ==
    ASSUME Inv, NEW t \in Thread,
           Save(t) \/ StoreRenewed(t) \/ Tombstone(t) \/ StoreLogin(t)
    PROVE  Inv'
<1> TypeOK /\ LockInv /\ FileIsPinned /\ FreshInv
  BY DEF Inv
<1>0. End(t) \/ Retry(t) =>
        /\ OthersStay(t)
        /\ op' \in [Thread -> Task \cup {"retry"}]
        /\ sent' \in [Thread -> Token \cup {None}]
        /\ asked' \in [Thread -> Token \cup {None}]
        /\ use' \in [Thread -> Token \cup {None}]
        /\ got' \in [Thread -> Token \cup {None}]
        /\ left' = left
  BY EndFacts
<1>1. \A u \in Thread \ {t} : pc[u] \notin HoldsCred
  <2>1. CASE pc[t] \in HoldsCred
    BY <2>1 DEF LockInv
  <2>2. CASE StoreLogin(t)
    BY <2>2 DEF StoreLogin, CredFree
  <2> QED BY <2>1, <2>2 DEF Save, StoreRenewed, Tombstone, HoldsCred
<1>2. CASE Save(t)
  <2>1. use[t] = file /\ file \in Token \cup {None} /\ pc[t] = "saving"
    BY <1>2 DEF Save, FileIsPinned, HoldsCred, TypeOK
  <2>2. file <= issued /\ \A u \in Thread \ {t} : pc[u] \in OnItsWay => got[u] # file
    BY DEF FreshInv
  <2>3. End(t) /\ WriteFile(file) /\ UNCHANGED <<crashes, service>>
    BY <1>2, <2>1 DEF Save
  <2>4. pc' = [pc EXCEPT ![t] = "idle"] /\ memory' = [memory EXCEPT ![ProcessOf[t]] = file]
    BY <1>2, <2>1, <2>3 DEF Save, End, GoTo, SetMemory
  <2>5. Writes(t, file, "idle")
    BY <1>0, <1>1, <2>1, <2>2, <2>3, <2>4 DEF Writes
  <2> QED BY <2>1, <2>5, WriteKeeps
<1>3. CASE StoreRenewed(t)
  <2>1. pc[t] = "rotated"
    BY <1>3 DEF StoreRenewed
  <2>2. PICK token \in Token \cup {None} : token = got[t]
    BY DEF TypeOK
  <2>3. token \in refreshable /\ \A u \in Thread \ {t} : pc[u] \in OnItsWay => got[u] # token
    BY <2>1, <2>2 DEF FreshInv, OnItsWay
  <2>4. token <= issued /\ token \in Good /\ pc[t] # "header"
    BY <2>1, <2>3 DEF FreshInv, TypeOK, Token, Good
  <2>5. Retry(t) /\ WriteFile(token) /\ UNCHANGED <<crashes, service>>
    BY <1>3, <2>2 DEF StoreRenewed
  <2>6. pc' = [pc EXCEPT ![t] = "reload"] /\ memory' = [memory EXCEPT ![ProcessOf[t]] = token]
    BY <1>3, <2>2, <2>5 DEF StoreRenewed, Retry, GoTo, SetMemory
  <2>7. Writes(t, token, "reload")
    BY <1>0, <1>1, <2>2, <2>3, <2>4, <2>5, <2>6 DEF Writes
  <2> QED BY <2>2, <2>7, WriteKeeps
<1>4. CASE Tombstone(t)
  <2>1. None <= issued /\ \A u \in Thread \ {t} : pc[u] \in OnItsWay => got[u] # None
    BY DEF FreshInv, TypeOK, Token, None
  <2>2. End(t) /\ WriteFile(None) /\ UNCHANGED <<crashes, service>>
    BY <1>4 DEF Tombstone
  <2>3. pc' = [pc EXCEPT ![t] = "idle"] /\ memory' = [memory EXCEPT ![ProcessOf[t]] = None]
    BY <1>4, <2>2 DEF Tombstone, End, GoTo, SetMemory
  <2>4. pc[t] # "header" /\ None \in Good
    BY <1>4 DEF Tombstone, Good
  <2>5. Writes(t, None, "idle")
    BY <1>0, <1>1, <2>1, <2>2, <2>3, <2>4 DEF Writes
  <2> QED BY <2>5, WriteKeeps
<1>5. CASE StoreLogin(t)
  <2>1. pc[t] = "store"
    BY <1>5 DEF StoreLogin
  <2>2. PICK token \in Token \cup {None} : token = got[t]
    BY DEF TypeOK
  <2>3. token \in refreshable /\ \A u \in Thread \ {t} : pc[u] \in OnItsWay => got[u] # token
    BY <2>1, <2>2 DEF FreshInv, OnItsWay
  <2>4. token <= issued /\ token \in Good /\ pc[t] # "header"
    BY <2>1, <2>3 DEF FreshInv, TypeOK, Token, Good
  <2>5. /\ WriteFile(token)
        /\ UNCHANGED <<memory, op, sent, asked, use, got, left, crashes, service>>
    BY <1>5, <2>2 DEF StoreLogin
  <2>6. pc' = [pc EXCEPT ![t] = "publish"] /\ OthersStay(t)
    BY <1>5 DEF StoreLogin, GoTo, OthersStay, TypeOK
  <2>7. /\ op' \in [Thread -> Task \cup {"retry"}]
        /\ sent' \in [Thread -> Token \cup {None}]
        /\ asked' \in [Thread -> Token \cup {None}]
        /\ use' \in [Thread -> Token \cup {None}]
        /\ got' \in [Thread -> Token \cup {None}]
    BY <2>5 DEF TypeOK
  <2>8. Writes(t, token, "publish")
    BY <1>1, <2>2, <2>3, <2>4, <2>5, <2>6, <2>7 DEF Writes
  <2> QED BY <2>2, <2>8, WriteKeeps
<1> QED BY <1>2, <1>3, <1>4, <1>5

LEMMA CrashKeeps ==
    ASSUME Inv, NEW p \in Process, Crash(p)
    PROVE  Inv'
<1> USE DEF Inv
<1>1. \A t \in Thread :
         \/ /\ ProcessOf[t] # p
            /\ pc'[t] = pc[t] /\ op'[t] = op[t] /\ use'[t] = use[t] /\ got'[t] = got[t]
            /\ seen'[t] = seen[t]
         \/ ProcessOf[t] = p /\ pc'[t] = "idle"
  BY DEF Crash
<1>2. \A t \in Thread : ProcessOf[t] # p => memory'[ProcessOf[t]] = memory[ProcessOf[t]]
  BY AuthAssumption DEF Crash, TypeOK
<1>3. UNCHANGED <<file, op, left, service>>
  BY DEF Crash
<1>4. TypeOK'
  <2>1. pc' \in [Thread -> Place]
    BY DEF Crash, TypeOK, Place
  <2>2. memory' \in [Process -> Token \cup {None}]
    BY DEF Crash, TypeOK
  <2>3. sent' \in [Thread -> Token \cup {None}] /\ asked' \in [Thread -> Token \cup {None}]
    BY DEF Crash, TypeOK
  <2>4. use' \in [Thread -> Token \cup {None}] /\ got' \in [Thread -> Token \cup {None}]
    BY DEF Crash, TypeOK
  <2>5. lost' \subseteq Token
    <3>1. \A t \in Thread : pc[t] \in {"rotated", "revoked"} => use[t] \in Token
      BY DEF UseInv, HoldsCred, TypeOK
    <3> QED BY <3>1 DEF Crash, TypeOK
  <2>6. crashes' \in 0 .. MaxCrashes
    BY AuthAssumption DEF Crash, TypeOK
  <2>7. seen' \in [Thread -> SUBSET (Token \cup {None})]
    BY DEF Crash, TypeOK
  <2> QED BY <1>3, <2>1, <2>2, <2>3, <2>4, <2>5, <2>6, <2>7 DEF TypeOK, service
<1>5. LockInv' /\ FileIsPinned' /\ UseInv' /\ LoginInv'
  BY <1>1, <1>3 DEF LockInv, FileIsPinned, UseInv, LoginInv, HoldsCred
<1>6. FreshInv'
  BY <1>1, <1>3 DEF FreshInv, OnItsWay, service
<1>7. GrantInv'
  <2>1. CASE file \in Good
    BY <1>3, <2>1 DEF GrantInv, Good, Crash, service
  <2>2. CASE \E t \in Thread : pc[t] \in {"rotated", "revoked"}
    <3>1. PICK t \in Thread : pc[t] \in {"rotated", "revoked"}
      BY <2>2
    <3>2. use[t] = file
      BY <3>1 DEF FileIsPinned, HoldsCred
    <3>3. CASE ProcessOf[t] = p
      BY <1>3, <3>1, <3>2, <3>3 DEF Crash, GrantInv, Good
    <3>4. CASE ProcessOf[t] # p
      BY <1>1, <3>1, <3>4 DEF GrantInv
    <3> QED BY <3>3, <3>4
  <2> QED BY <2>1, <2>2 DEF GrantInv
<1>8. SeenInv'
  BY <1>1, <1>2, <1>3 DEF SeenInv
<1> QED BY <1>4, <1>5, <1>6, <1>7, <1>8

-----------------------------------------------------------------------------
LEMMA NextInv == Inv /\ [Next]_vars => Inv'
<1> SUFFICES ASSUME Inv, [Next]_vars PROVE Inv'
  OBVIOUS
<1>1. ASSUME NEW t \in Thread, Begin(t) PROVE Inv'
  BY <1>1, BeginKeeps
<1>2. ASSUME NEW t \in Thread, RequestStep(t) PROVE Inv'
  BY <1>2, ReloadKeeps, RequestKeeps DEF RequestStep
<1>3. ASSUME NEW t \in Thread, LockedStep(t) PROVE Inv'
  BY <1>3, LockedQuietKeeps, StartKeeps, IssueKeeps, RevokeKeeps, WritesKeep, AnswerLostKeeps
     DEF LockedStep
<1>4. ASSUME NEW t \in Thread, LoginStep(t) PROVE Inv'
  BY <1>4, LockedQuietKeeps, IssueKeeps, WritesKeep DEF LoginStep
<1>5. ASSUME NEW token \in Token, Expire(token) PROVE Inv'
  BY <1>5, ExpireKeeps
<1>6. ASSUME NEW p \in Process, Crash(p) PROVE Inv'
  BY <1>6, CrashKeeps
<1>7. CASE UNCHANGED vars
  BY <1>7 DEF vars, local, service, history, Inv, TypeOK, LockInv, FileIsPinned, UseInv,
              LoginInv, FreshInv, GrantInv, Good, SeenInv
<1> QED BY <1>1, <1>2, <1>3, <1>4, <1>5, <1>6, <1>7 DEF Next, ThreadStep, AllDone

\* Inv holds in every state of every behaviour.
THEOREM SpecInv == Spec => []Inv
<1> QED BY InitInv, NextInv, PTL DEF Spec

\* Whatever the threads of all processes do, and whoever is killed, the
\* variables have their types.
THEOREM SpecTypeOK == Spec => []TypeOK
<1>1. Inv => TypeOK
  BY DEF Inv
<1> QED BY <1>1, SpecInv, PTL

\* The credential that a renewal, a save or a logout works on is the one in
\* the file until it has written or given up: credential_lock() is enough.
THEOREM SpecFileIsPinned == Spec => []FileIsPinned
<1>1. Inv => FileIsPinned
  BY DEF Inv
<1> QED BY <1>1, SpecInv, PTL

\* A request sends what the file holds, or held since it was reloaded.
THEOREM SpecSendsCurrentToken == Spec => []SendsCurrentToken
<1>1. Inv => SendsCurrentToken
  BY DEF Inv, SeenInv, SendsCurrentToken
<1> QED BY <1>1, SpecInv, PTL

\* The login in the file is not spent while nobody works on it, unless the
\* answer of the service was lost.
THEOREM SpecGrantIsKept == Spec => []GrantIsKept
<1>1. Inv => GrantIsKept
  <2> SUFFICES ASSUME GrantInv, \A t \in Thread : pc[t] \notin HoldsCred
               PROVE  file \in refreshable \cup lost \cup {None}
    BY DEF Inv, GrantIsKept
  <2> QED BY DEF GrantInv, Good, HoldsCred
<1> QED BY <1>1, SpecInv, PTL

-----------------------------------------------------------------------------
(* The action properties: only one kind of step can touch them.            *)

\* A renewal starts with a refresh token that was not used, except where the
\* answer to its use was lost.
THEOREM SpecRefreshTokensAreUsedOnce == Spec => RefreshTokensAreUsedOnce
<1> DEFINE Once == \A t \in Thread : (pc[t] # "refreshing" /\ pc'[t] = "refreshing") =>
                       use'[t] \in refreshable \cup lost
<1>1. Inv /\ [Next]_vars => [Once]_vars
  <2> SUFFICES ASSUME Inv, Next, NEW t \in Thread, pc[t] # "refreshing", pc'[t] = "refreshing"
               PROVE  use'[t] \in refreshable \cup lost
    OBVIOUS
  <2>1. StartRenewal(t) /\ Proceed(t, "refreshing")
    <3>1. TypeOK
      BY DEF Inv
    <3>2. \A u \in Thread : Begin(u) => pc'[t] # "refreshing"
      BY <3>1, AuthAssumption DEF Begin, GoTo, TypeOK, Task
    <3>3. \A u \in Thread : RequestStep(u) => pc'[t] # "refreshing"
      BY <3>1 DEF RequestStep, Reload, Header, Remember, Answer, NoAnswer, Recheck,
                  End, Retry, GoTo, TypeOK
    <3>4. \A u \in Thread : LoginStep(u) => pc'[t] # "refreshing"
      BY <3>1 DEF LoginStep, Authorize, LoginFails, StoreLogin, Publish, End, GoTo, TypeOK
    <3>5. \A u \in Thread : LockedStep(u) => u = t /\ StartRenewal(t) /\ Proceed(t, "refreshing")
      BY <3>1 DEF LockedStep, TakeState, CredTimesOut, StartRenewal, Rotate, RenewalFails,
                  StoreRenewed, StartLogout, Revoke, RevokeFails, Tombstone, StartSave, Save,
                  AnswerLost, End, Retry, Proceed, GoTo, TypeOK
    <3>6. \A token \in Token : ~Expire(token)
      BY DEF Expire, local
    <3>7. \A p \in Process : ~Crash(p)
      BY DEF Crash
    <3> QED BY <3>2, <3>3, <3>4, <3>5, <3>6, <3>7
            DEF Next, ThreadStep, AllDone, vars, local
  <2>2. use'[t] = file /\ CredFree(t) /\ file # None
    BY <2>1 DEF StartRenewal, Proceed, Loaded, Inv, TypeOK, End, Retry, GoTo
  <2>3. file \in Good
    BY <2>2 DEF Inv, GrantInv, CredFree, HoldsCred
  <2> QED BY <2>2, <2>3 DEF Good
<1> QED BY <1>1, SpecInv, PTL DEF Spec, RefreshTokensAreUsedOnce

\* Only four kinds of step write the file.
LEMMA FileWriters ==
    ASSUME Inv, Next, file' # file
    PROVE  \E t \in Thread : Save(t) \/ StoreRenewed(t) \/ Tombstone(t) \/ StoreLogin(t)
<1>1. \A t \in Thread : Begin(t) => file' = file
  BY DEF Begin
<1>2. \A t \in Thread : RequestStep(t) => file' = file
  BY DEF RequestStep, Reload, Header, Remember, Answer, NoAnswer, Recheck
<1>3. \A t \in Thread : LockedStep(t) =>
          file' = file \/ Save(t) \/ StoreRenewed(t) \/ Tombstone(t)
  BY DEF LockedStep, TakeState, CredTimesOut, StartRenewal, Rotate, RenewalFails,
         StartLogout, Revoke, RevokeFails, StartSave, AnswerLost
<1>4. \A t \in Thread : LoginStep(t) => file' = file \/ StoreLogin(t)
  BY DEF LoginStep, Authorize, LoginFails, Publish
<1>5. (\A token \in Token : Expire(token) => file' = file) /\ (AllDone => file' = file)
  BY DEF Expire, AllDone, vars
<1>6. \A p \in Process : Crash(p) => file' = file
  BY DEF Crash
<1> QED BY <1>1, <1>2, <1>3, <1>4, <1>5, <1>6 DEF Next, ThreadStep

\* After a logout, only a login that has just been issued brings a credential
\* back: no renewal or save that was under way does.
THEOREM SpecLogoutCannotBeUndone == Spec => LogoutCannotBeUndone
<1> DEFINE ByLogin == (file = None /\ file' # None) =>
          \E t \in Thread : op[t] = "login" /\ pc[t] = "store" /\ file' = got[t]
<1>1. Inv /\ [Next]_vars => [ByLogin]_vars
  <2> SUFFICES ASSUME Inv, Next, file = None, file' # None
               PROVE  \E t \in Thread : op[t] = "login" /\ pc[t] = "store" /\ file' = got[t]
    OBVIOUS
  <2>1. PICK t \in Thread : Save(t) \/ StoreRenewed(t) \/ Tombstone(t) \/ StoreLogin(t)
    BY FileWriters
  <2>2. ~Save(t)
    BY DEF Save, WriteFile, Inv, FileIsPinned, HoldsCred
  <2>3. ~StoreRenewed(t)
    BY DEF StoreRenewed, Inv, FileIsPinned, UseInv, HoldsCred
  <2>4. ~Tombstone(t)
    BY DEF Tombstone, WriteFile
  <2>5. StoreLogin(t) => op[t] = "login" /\ pc[t] = "store" /\ file' = got[t]
    BY DEF StoreLogin, WriteFile, Inv, LoginInv
  <2> QED BY <2>1, <2>2, <2>3, <2>4, <2>5
<1> QED BY <1>1, SpecInv, PTL DEF Spec, LogoutCannotBeUndone

-----------------------------------------------------------------------------
(* Alone(t) is what the counterexamples to RotatesOnlyRejected break: no    *)
(* other thread of the process changes TOKEN.                              *)

\* What a request remembers is what it has sent.
RemembersSent(t) ==
    /\ op[t] # "lane"
    /\ pc[t] = "remember" => memory[ProcessOf[t]] = sent[t] /\ sent[t] # None
    /\ pc[t] \in {"wire", "rejected", "lock", "cred"} /\ op[t] = "request" =>
           asked[t] = sent[t] /\ sent[t] # None
    /\ pc[t] = "refreshing" => use[t] = sent[t]

SentInv == \A t \in Thread : Alone(t) => RemembersSent(t)

\* A thread's own steps.
LEMMA OwnStepSent ==
    ASSUME TypeOK, NEW t \in Thread, Alone(t), RemembersSent(t), Begin(t) \/ ThreadStep(t)
    PROVE  RemembersSent(t)'
<1> USE DEF TypeOK, RemembersSent, GoTo
<1>1. CASE Begin(t)
  <2>1. PICK o \in Does[t] :
            /\ op' = [op EXCEPT ![t] = o]
            /\ GoTo(t, CASE o \in {"request", "lane"} -> "reload"
                         [] o \in {"save", "logout"}  -> "lock"
                         [] o = "login"               -> "authorize")
    BY <1>1 DEF Begin
  <2>2. o \in Task \ {"lane"}
    BY AuthAssumption DEF Alone
  <2>3. pc'[t] \in {"reload", "authorize"} \/ (pc'[t] = "lock" /\ op'[t] # "request")
    BY <2>1, <2>2 DEF Task
  <2> QED BY <2>1, <2>2, <2>3
<1>2. ASSUME End(t) PROVE RemembersSent(t)'
  BY <1>2 DEF End
<1>3. ASSUME Retry(t) PROVE RemembersSent(t)'
  BY <1>3 DEF Retry
<1>4. CASE RequestStep(t)
  <2>1. CASE Reload(t)
    BY <2>1 DEF Reload
  <2>2. CASE Header(t)
    BY <1>2, <2>2 DEF Header
  <2>3. CASE Remember(t)
    BY <2>3 DEF Remember
  <2>4. CASE Answer(t) \/ NoAnswer(t)
    BY <1>2, <2>4 DEF Answer, NoAnswer
  <2>5. CASE Recheck(t)
    BY <1>3, <2>5 DEF Recheck
  <2> QED BY <1>4, <2>1, <2>2, <2>3, <2>4, <2>5 DEF RequestStep
<1>5. CASE LockedStep(t)
  <2>1. CASE StartRenewal(t)
    <3>1. CASE Proceed(t, "refreshing") /\ ~AlreadyRenewed(t)
      BY <2>1, <3>1 DEF StartRenewal, Proceed, AlreadyRenewed, Loaded
    <3> QED BY <1>2, <1>3, <2>1, <3>1 DEF StartRenewal
  <2>2. CASE StartLogout(t) \/ StartSave(t)
    BY <1>2, <2>2 DEF StartLogout, StartSave, Proceed
  <2>3. CASE TakeState(t)
    BY <2>3 DEF TakeState
  <2>4. CASE Rotate(t) \/ Revoke(t)
    BY <2>4 DEF Rotate, Revoke
  <2>5. CASE StoreRenewed(t)
    BY <1>3, <2>5 DEF StoreRenewed
  <2>6. CASE \/ CredTimesOut(t) \/ RenewalFails(t) \/ RevokeFails(t)
             \/ Tombstone(t) \/ Save(t) \/ AnswerLost(t)
    BY <1>2, <2>6 DEF CredTimesOut, RenewalFails, RevokeFails, Tombstone, Save, AnswerLost
  <2> QED BY <1>5, <2>1, <2>2, <2>3, <2>4, <2>5, <2>6 DEF LockedStep
<1>6. CASE LoginStep(t)
  <2>1. CASE Authorize(t) \/ StoreLogin(t)
    BY <2>1 DEF Authorize, StoreLogin
  <2>2. CASE LoginFails(t) \/ Publish(t)
    BY <1>2, <2>2 DEF LoginFails, Publish
  <2> QED BY <1>6, <2>1, <2>2 DEF LoginStep
<1> QED BY <1>1, <1>4, <1>5, <1>6 DEF ThreadStep

\* The steps of another process's thread.
LEMMA OtherStepSent ==
    ASSUME TypeOK, NEW t \in Thread, Alone(t), RemembersSent(t),
           NEW u \in Thread \ {t}, Begin(u) \/ ThreadStep(u)
    PROVE  RemembersSent(t)'
<1> DEFINE Stays == /\ op'[t] = op[t] /\ pc'[t] = pc[t] /\ sent'[t] = sent[t]
                    /\ asked'[t] = asked[t] /\ use'[t] = use[t]
           Same  == memory'[ProcessOf[t]] = memory[ProcessOf[t]]
<1>1. ProcessOf[u] # ProcessOf[t]
  BY DEF Alone, Peers
<1>2. (\E token : SetMemory(u, token)) \/ memory' = memory => Same
  <2>1. ProcessOf[t] \in Process /\ ProcessOf[u] \in Process
    BY AuthAssumption
  <2>2. ASSUME NEW token, SetMemory(u, token) PROVE Same
    BY <1>1, <2>1, <2>2 DEF SetMemory, TypeOK
  <2> QED BY <2>2
<1>3. End(u) \/ Retry(u) => Stays
  BY DEF End, Retry, GoTo, TypeOK
<1>4. Stays /\ Same => RemembersSent(t)'
  BY DEF RemembersSent
<1> HIDE DEF Stays, Same
<1>5. CASE Begin(u)
  BY <1>2, <1>4, <1>5 DEF Begin, GoTo, TypeOK, Stays
<1>6. CASE RequestStep(u)
  <2>1. CASE Reload(u) \/ Remember(u)
    BY <1>2, <1>4, <2>1 DEF Reload, Remember, GoTo, TypeOK, Stays
  <2>2. CASE Header(u) \/ Answer(u) \/ NoAnswer(u)
    <3>1. Stays
      BY <1>3, <2>2 DEF Header, Answer, NoAnswer, GoTo, TypeOK, Stays
    <3> QED BY <1>2, <1>4, <2>2, <3>1 DEF Header, Answer, NoAnswer
  <2>3. CASE Recheck(u)
    BY <1>2, <1>3, <1>4, <2>3 DEF Recheck, GoTo, TypeOK, Stays
  <2> QED BY <1>6, <2>1, <2>2, <2>3 DEF RequestStep
<1>7. CASE LockedStep(u)
  <2>1. CASE StartRenewal(u)
    <3>1. Stays
      BY <1>3, <2>1 DEF StartRenewal, Proceed, GoTo, TypeOK, Stays
    <3> QED BY <1>2, <1>4, <2>1, <3>1 DEF StartRenewal
  <2>2. CASE StartLogout(u) \/ StartSave(u)
    <3>1. Stays
      BY <1>3, <2>2 DEF StartLogout, StartSave, Proceed, GoTo, TypeOK, Stays
    <3> QED BY <1>2, <1>4, <2>2, <3>1 DEF StartLogout, StartSave
  <2>3. CASE TakeState(u) \/ Rotate(u) \/ Revoke(u)
    BY <1>2, <1>4, <2>3 DEF TakeState, Rotate, Revoke, GoTo, TypeOK, Stays
  <2>4. CASE CredTimesOut(u) \/ RenewalFails(u) \/ RevokeFails(u) \/ AnswerLost(u)
    BY <1>2, <1>3, <1>4, <2>4 DEF CredTimesOut, RenewalFails, RevokeFails, AnswerLost
  <2>5. CASE StoreRenewed(u) \/ Tombstone(u) \/ Save(u)
    BY <1>2, <1>3, <1>4, <2>5 DEF StoreRenewed, Tombstone, Save
  <2> QED BY <1>7, <2>1, <2>2, <2>3, <2>4, <2>5 DEF LockedStep
<1>8. CASE LoginStep(u)
  <2>1. CASE Authorize(u) \/ StoreLogin(u)
    BY <1>2, <1>4, <2>1 DEF Authorize, StoreLogin, GoTo, TypeOK, Stays
  <2>2. CASE LoginFails(u) \/ Publish(u)
    BY <1>2, <1>3, <1>4, <2>2 DEF LoginFails, Publish
  <2> QED BY <1>8, <2>1, <2>2 DEF LoginStep
<1> QED BY <1>5, <1>6, <1>7, <1>8 DEF ThreadStep

\* A process of one thread that runs no relay lane rotates only the token that
\* the service has rejected, whatever other processes do.
THEOREM SpecAloneRotatesOnlyRejected == Spec => []AloneRotatesOnlyRejected
<1>1. Init => SentInv
  BY DEF Init, SentInv, RemembersSent
<1>2. TypeOK /\ SentInv /\ [Next]_vars => SentInv'
  <2> SUFFICES ASSUME TypeOK, SentInv, [Next]_vars, NEW t \in Thread, Alone(t)
               PROVE  RemembersSent(t)'
    BY DEF SentInv, Alone, Peers
  <2> RemembersSent(t)
    BY DEF SentInv
  <2>1. ASSUME NEW u \in Thread, Begin(u) \/ ThreadStep(u) PROVE RemembersSent(t)'
    BY <2>1, OwnStepSent, OtherStepSent
  <2>2. ASSUME NEW token \in Token, Expire(token) PROVE RemembersSent(t)'
    BY <2>2 DEF Expire, RemembersSent, local
  <2>3. ASSUME NEW p \in Process, Crash(p) PROVE RemembersSent(t)'
    BY <2>3, AuthAssumption DEF Crash, RemembersSent, TypeOK
  <2>4. CASE UNCHANGED vars
    BY <2>4 DEF RemembersSent, vars, local
  <2> QED BY <2>1, <2>2, <2>3, <2>4 DEF Next, AllDone
<1>3. SentInv => AloneRotatesOnlyRejected
  BY DEF SentInv, RemembersSent, AloneRotatesOnlyRejected
<1> QED BY <1>1, <1>2, <1>3, SpecTypeOK, PTL DEF Spec
=============================================================================
