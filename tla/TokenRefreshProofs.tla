-------------------------- MODULE TokenRefreshProofs --------------------------
(***************************************************************************)
(* Proofs about TokenRefresh for any number of callers and any clock.      *)
(*                                                                         *)
(* LockInv says what each place in the code holds of tokenMux, WaitInv     *)
(* that nobody waits for nothing; TokenInv, that nobody loses a good token *)
(* it has seen.                                                            *)
(***************************************************************************)
EXTENDS TokenRefresh, TLAPS

------------------------------------------------------------------------------
(* The inductive invariants *)

ReaderPlaces == {"check", "upgrade", "use"}
ExclusivePlaces == {"recheck", "create", "unlock"}

\* A caller has the lock its place needs, and only that one.
LockInv ==
  \A c \in Callers :
    /\ c \in readers <=> pc[c] \in ReaderPlaces
    /\ writer = c <=> pc[c] \in ExclusivePlaces \cup {"drain"}
    /\ pc[c] \in ExclusivePlaces => readers = {}

\* Who waits to read waits for somebody.
WaitInv ==
  \A c \in Callers : pc[c] \in {"waitcheck", "waituse"} => writer # NoCaller

\* A new token is requested only when it is needed; a caller past its look at
\* the token, not failed, saw one good at a time that is not in the future,
\* and whoever replaces it later makes it last longer.
TokenInv ==
  \A c \in Callers :
    /\ seen[c] <= now
    /\ pc[c] = "create" => tokenNeedsRefresh
    /\ pc[c] \in {"unlock", "relock", "waituse", "use"} /\ ~err[c] =>
         tokenExpiration - seen[c] >= Margin

------------------------------------------------------------------------------
(* Type correctness *)

\* The clock, the token, and every caller's place and locks stay well formed:
\* in particular nobody uses the answer to a token request that failed.
THEOREM TypeCorrect == Spec => []TypeOK
<1>1. Init => TypeOK
  BY TimeAssumption DEF Init, TypeOK, Labels
<1>2. TypeOK /\ [Next]_vars => TypeOK'
  <2> SUFFICES ASSUME TypeOK, [Next]_vars PROVE TypeOK'
    OBVIOUS
  <2> USE TimeAssumption DEF TypeOK, Labels
  <2>1. CASE Tick
    BY <2>1 DEF Tick, lock
  <2>2. ASSUME NEW c \in Callers, Call(c) PROVE TypeOK'
    BY <2>2 DEF Call, RLock, Goto
  <2>3. ASSUME NEW c \in Callers, Check(c) PROVE TypeOK'
    BY <2>3 DEF Check, Goto, lock
  <2>4. ASSUME NEW c \in Callers, ReleaseRead(c) PROVE TypeOK'
    BY <2>4 DEF ReleaseRead, RUnlock, Goto
  <2>5. ASSUME NEW c \in Callers, AnnounceWrite(c) PROVE TypeOK'
    BY <2>5 DEF AnnounceWrite, Goto
  <2>6. ASSUME NEW c \in Callers, AcquireWrite(c) PROVE TypeOK'
    BY <2>6 DEF AcquireWrite, Goto, lock
  <2>7. ASSUME NEW c \in Callers, Recheck(c) PROVE TypeOK'
    BY <2>7 DEF Recheck, Goto, lock
  <2>8. ASSUME NEW c \in Callers, CreateToken(c) PROVE TypeOK'
    <3>1. tokenExpiration' \in Int /\ now' \in Nat
      BY <2>8 DEF CreateToken
    <3>2. seen' \in [Callers -> Nat] /\ err' \in [Callers -> BOOLEAN]
      BY <2>8 DEF CreateToken
    <3> QED
      BY <2>8, <3>1, <3>2 DEF CreateToken, Goto, lock
  <2>9. ASSUME NEW c \in Callers, Unlock(c) PROVE TypeOK'
    BY <2>9 DEF Unlock, Admitted, Waiting
  <2>10. ASSUME NEW c \in Callers, Relock(c) PROVE TypeOK'
    BY <2>10 DEF Relock, RLock, Goto
  <2>11. ASSUME NEW c \in Callers, Return(c) PROVE TypeOK'
    BY <2>11 DEF Return, EndCall, RUnlock, Goto
  <2>12. CASE UNCHANGED vars
    BY <2>12 DEF vars
  <2> QED
    BY <2>1, <2>2, <2>3, <2>4, <2>5, <2>6, <2>7, <2>8, <2>9, <2>10, <2>11,
       <2>12 DEF Next, Step
<1> QED
  BY <1>1, <1>2, PTL DEF Spec

------------------------------------------------------------------------------
(* The lock *)

\* Every place holds the lock it needs, and a writer is alone.
LEMMA LockKept == Spec => []LockInv
<1>1. Init => LockInv
  BY CallerAssumption DEF Init, LockInv, ReaderPlaces, ExclusivePlaces
<1>2. TypeOK /\ LockInv /\ [Next]_vars => LockInv'
  <2> SUFFICES ASSUME TypeOK, LockInv, [Next]_vars PROVE LockInv'
    OBVIOUS
  <2> USE CallerAssumption DEF TypeOK, LockInv, ReaderPlaces, ExclusivePlaces
  <2>1. CASE Tick
    BY <2>1 DEF Tick, lock
  <2>2. ASSUME NEW c \in Callers, Call(c) PROVE LockInv'
    BY <2>2 DEF Call, RLock, Goto
  <2>3. ASSUME NEW c \in Callers, Check(c) PROVE LockInv'
    BY <2>3 DEF Check, Goto, lock
  <2>4. ASSUME NEW c \in Callers, ReleaseRead(c) PROVE LockInv'
    BY <2>4 DEF ReleaseRead, RUnlock, Goto
  <2>5. ASSUME NEW c \in Callers, AnnounceWrite(c) PROVE LockInv'
    BY <2>5 DEF AnnounceWrite, Goto
  <2>6. ASSUME NEW c \in Callers, AcquireWrite(c) PROVE LockInv'
    BY <2>6 DEF AcquireWrite, Goto, lock
  <2>7. ASSUME NEW c \in Callers, Recheck(c) PROVE LockInv'
    BY <2>7 DEF Recheck, Goto, lock
  <2>8. ASSUME NEW c \in Callers, CreateToken(c) PROVE LockInv'
    BY <2>8 DEF CreateToken, Goto, lock
  <2>9. ASSUME NEW c \in Callers, Unlock(c) PROVE LockInv'
    BY <2>9 DEF Unlock, Admitted, Waiting
  <2>10. ASSUME NEW c \in Callers, Relock(c) PROVE LockInv'
    BY <2>10 DEF Relock, RLock, Goto
  <2>11. ASSUME NEW c \in Callers, Return(c) PROVE LockInv'
    BY <2>11 DEF Return, EndCall, RUnlock, Goto
  <2>12. CASE UNCHANGED vars
    BY <2>12 DEF vars
  <2> QED
    BY <2>1, <2>2, <2>3, <2>4, <2>5, <2>6, <2>7, <2>8, <2>9, <2>10, <2>11,
       <2>12 DEF Next, Step
<1> QED
  BY <1>1, <1>2, TypeCorrect, PTL DEF Spec

\* Nobody reads or writes the token fields while another caller may write
\* them, although the read lock is given up to get the write lock.
THEOREM RaceFree == Spec => []NoDataRace
<1>1. LockInv => NoDataRace
  BY DEF LockInv, NoDataRace, Reading, Writing, ReaderPlaces, ExclusivePlaces
<1> QED
  BY <1>1, LockKept, PTL

\* Readers wait only while there is a writer.
LEMMA WaitersHaveAWriter == Spec => []WaitInv
<1>1. Init => WaitInv
  BY DEF Init, WaitInv
<1>2. TypeOK /\ WaitInv /\ [Next]_vars => WaitInv'
  <2> SUFFICES ASSUME TypeOK, WaitInv, [Next]_vars PROVE WaitInv'
    OBVIOUS
  <2> USE CallerAssumption DEF TypeOK, WaitInv
  <2>1. CASE Tick
    BY <2>1 DEF Tick, lock
  <2>2. ASSUME NEW c \in Callers, Call(c) PROVE WaitInv'
    BY <2>2 DEF Call, RLock, Goto
  <2>3. ASSUME NEW c \in Callers, Check(c) PROVE WaitInv'
    BY <2>3 DEF Check, Goto, lock
  <2>4. ASSUME NEW c \in Callers, ReleaseRead(c) PROVE WaitInv'
    BY <2>4 DEF ReleaseRead, RUnlock, Goto
  <2>5. ASSUME NEW c \in Callers, AnnounceWrite(c) PROVE WaitInv'
    BY <2>5 DEF AnnounceWrite, Goto
  <2>6. ASSUME NEW c \in Callers, AcquireWrite(c) PROVE WaitInv'
    BY <2>6 DEF AcquireWrite, Goto, lock
  <2>7. ASSUME NEW c \in Callers, Recheck(c) PROVE WaitInv'
    BY <2>7 DEF Recheck, Goto, lock
  <2>8. ASSUME NEW c \in Callers, CreateToken(c) PROVE WaitInv'
    BY <2>8 DEF CreateToken, Goto, lock
  <2>9. ASSUME NEW c \in Callers, Unlock(c) PROVE WaitInv'
    BY <2>9 DEF Unlock, Admitted, Waiting
  <2>10. ASSUME NEW c \in Callers, Relock(c) PROVE WaitInv'
    BY <2>10 DEF Relock, RLock, Goto
  <2>11. ASSUME NEW c \in Callers, Return(c) PROVE WaitInv'
    BY <2>11 DEF Return, EndCall, RUnlock, Goto
  <2>12. CASE UNCHANGED vars
    BY <2>12 DEF vars
  <2> QED
    BY <2>1, <2>2, <2>3, <2>4, <2>5, <2>6, <2>7, <2>8, <2>9, <2>10, <2>11,
       <2>12 DEF Next, Step
<1> QED
  BY <1>1, <1>2, TypeCorrect, PTL DEF Spec

\* Whoever waits, somebody can take a step: who waits has a writer, a writer
\* that waits has readers, and readers do not wait.
THEOREM NoDeadlock == Spec => []SomebodyMoves
<1>1. TypeOK /\ LockInv /\ WaitInv => SomebodyMoves
  <2> SUFFICES ASSUME TypeOK, LockInv, WaitInv,
                      NEW c \in Callers, pc[c] # "idle"
               PROVE  \E d \in Callers : CanStep(d)
    BY DEF SomebodyMoves
  <2> USE DEF LockInv, ReaderPlaces, ExclusivePlaces
  <2>1. CASE writer = NoCaller
    <3>1. pc[c] \notin {"waitcheck", "waituse"}
      BY <2>1 DEF WaitInv
    <3>2. pc[c] # "drain"
      BY <2>1, CallerAssumption
    <3>3. CanStep(c)
      BY <2>1, <3>1, <3>2 DEF CanStep, TypeOK, Labels
    <3> QED
      BY <3>3
  <2>2. CASE writer # NoCaller
    <3>1. writer \in Callers /\ pc[writer] \in ExclusivePlaces \cup {"drain"}
      BY <2>2 DEF TypeOK
    <3>2. CASE pc[writer] = "drain" /\ readers # {}
      <4>1. PICK d \in readers : d \in Callers
        BY <3>2 DEF TypeOK
      <4>2. CanStep(d)
        BY <4>1 DEF CanStep
      <4> QED
        BY <4>1, <4>2
    <3>3. CASE ~(pc[writer] = "drain" /\ readers # {})
      <4>1. CanStep(writer)
        BY <3>1, <3>3 DEF CanStep
      <4> QED
        BY <3>1, <4>1
    <3> QED
      BY <3>2, <3>3
  <2> QED
    BY <2>1, <2>2
<1> QED
  BY <1>1, TypeCorrect, LockKept, WaitersHaveAWriter, PTL

------------------------------------------------------------------------------
(* The token *)

\* A caller keeps the good token it has seen, whatever the others do.
LEMMA TokenKept == Spec => []TokenInv
<1>1. Init => TokenInv
  <2> SUFFICES ASSUME Init, NEW c \in Callers
               PROVE pc[c] = "idle" /\ seen[c] <= now
    BY DEF TokenInv
  <2> QED
    BY DEF Init
<1>2. TypeOK /\ LockInv /\ TokenInv /\ [Next]_vars => TokenInv'
  <2> SUFFICES ASSUME TypeOK, LockInv, TokenInv, [Next]_vars PROVE TokenInv'
    OBVIOUS
  <2> USE TimeAssumption DEF TypeOK, Labels, TokenInv
  <2>1. CASE Tick
    BY <2>1 DEF Tick, lock, tokenNeedsRefresh
  <2>2. ASSUME NEW c \in Callers, Call(c) PROVE TokenInv'
    BY <2>2 DEF Call, RLock, Goto, tokenNeedsRefresh
  <2>3. ASSUME NEW c \in Callers, Check(c) PROVE TokenInv'
    BY <2>3 DEF Check, Goto, lock, tokenNeedsRefresh
  <2>4. ASSUME NEW c \in Callers, ReleaseRead(c) PROVE TokenInv'
    BY <2>4 DEF ReleaseRead, RUnlock, Goto, tokenNeedsRefresh
  <2>5. ASSUME NEW c \in Callers, AnnounceWrite(c) PROVE TokenInv'
    BY <2>5 DEF AnnounceWrite, Goto, tokenNeedsRefresh
  <2>6. ASSUME NEW c \in Callers, AcquireWrite(c) PROVE TokenInv'
    BY <2>6 DEF AcquireWrite, Goto, lock, tokenNeedsRefresh
  <2>7. ASSUME NEW c \in Callers, Recheck(c) PROVE TokenInv'
    BY <2>7 DEF Recheck, Goto, lock, tokenNeedsRefresh
  <2>8. ASSUME NEW c \in Callers, CreateToken(c) PROVE TokenInv'
    <3>1. \A d \in Callers \ {c} : pc[d] # "create"
      BY <2>8 DEF CreateToken, LockInv, ExclusivePlaces
    <3> QED
      BY <2>8, <3>1 DEF CreateToken, Goto, lock, tokenNeedsRefresh
  <2>9. ASSUME NEW c \in Callers, Unlock(c) PROVE TokenInv'
    BY <2>9 DEF Unlock, Admitted, tokenNeedsRefresh
  <2>10. ASSUME NEW c \in Callers, Relock(c) PROVE TokenInv'
    BY <2>10 DEF Relock, RLock, Goto, tokenNeedsRefresh
  <2>11. ASSUME NEW c \in Callers, Return(c) PROVE TokenInv'
    BY <2>11 DEF Return, EndCall, RUnlock, Goto, tokenNeedsRefresh
  <2>12. CASE UNCHANGED vars
    BY <2>12 DEF vars, tokenNeedsRefresh
  <2> QED
    BY <2>1, <2>2, <2>3, <2>4, <2>5, <2>6, <2>7, <2>8, <2>9, <2>10, <2>11,
       <2>12 DEF Next, Step
<1> QED
  BY <1>1, <1>2, TypeCorrect, LockKept, PTL DEF Spec

\* A request that did not fail carries a token that is valid for an hour from
\* when its caller last looked.
THEOREM TokenIsGood == Spec => []SendsGoodToken
<1>1. TokenInv => SendsGoodToken
  BY DEF TokenInv, SendsGoodToken
<1> QED
  BY <1>1, TokenKept, PTL

\* Callers that all find the same token expiring replace it once.
THEOREM RefreshedOnce == Spec => OneRefreshPerExpiry
<1>1. TokenInv /\ [Next]_vars => [tokenExpiration' # tokenExpiration => tokenNeedsRefresh]_vars
  <2> SUFFICES ASSUME TokenInv, [Next]_vars, tokenExpiration' # tokenExpiration
               PROVE tokenNeedsRefresh
    OBVIOUS
  <2>1. PICK c \in Callers : CreateToken(c)
    BY DEF Next, Step, Tick, Call, Check, ReleaseRead, AnnounceWrite,
           AcquireWrite, Recheck, Unlock, Relock, Return, EndCall, vars
  <2> QED
    BY <2>1 DEF TokenInv, CreateToken
<1> QED
  BY <1>1, TokenKept, PTL DEF Spec, OneRefreshPerExpiry

=============================================================================
