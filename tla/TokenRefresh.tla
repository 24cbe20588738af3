----------------------------- MODULE TokenRefresh -----------------------------
(***************************************************************************)
(* tokenRefreshRoundTripper: the service account token an instance's       *)
(* clients share.  Requests run concurrently, read the token under the     *)
(* read lock of tokenMux and, when it expires within the hour, trade the   *)
(* read lock for the write lock, request a new one and trade back.  A      *)
(* RWMutex has no upgrade: between two locks anything may happen.          *)
(*                                                                         *)
(* sync.RWMutex is modelled by what its documentation promises: a blocked  *)
(* Lock keeps later readers out, and Unlock lets the waiting readers in    *)
(* before the next writer.                                                 *)
(***************************************************************************)
EXTENDS Integers

CONSTANTS
  Callers,  \* goroutines that use the round tripper
  NoCaller, \* nobody
  Margin,   \* the hour before its expiration when a token is to be refreshed
  Lifetime, \* how long a new token is valid
  MaxTime   \* bound on the clock

ASSUME CallerAssumption == NoCaller \notin Callers
ASSUME TimeAssumption ==
  /\ Margin \in Nat \ {0} /\ Lifetime \in Nat /\ MaxTime \in Nat
  /\ Margin <= Lifetime

VARIABLES
  now,             \* the clock
  tokenExpiration, \* of the current token; the zero time when there is none
  pc,              \* [Callers -> where a caller is]
  op,              \* [Callers -> {"RoundTrip", "TriggerRefresh"}]
  err,             \* [Callers -> BOOLEAN], refreshTokenReadLocked failed
  seen,            \* [Callers -> Nat], when it last found or made the token good
  readers,         \* the callers that hold tokenMux for reading
  writer           \* the caller that holds it for writing, or is next to

vars == <<now, tokenExpiration, pc, op, err, seen, readers, writer>>
lock == <<readers, writer>>

Labels == {"idle", "check", "upgrade", "lock", "drain", "recheck", "create",
           "unlock", "relock", "waitcheck", "waituse", "use"}

TypeOK ==
  /\ now \in Nat
  /\ tokenExpiration \in Int
  /\ pc \in [Callers -> Labels]
  /\ op \in [Callers -> {"RoundTrip", "TriggerRefresh"}]
  /\ err \in [Callers -> BOOLEAN]
  /\ seen \in [Callers -> Nat]
  /\ readers \in SUBSET Callers
  /\ writer \in Callers \cup {NoCaller}

Init ==
  /\ now = 0
  /\ tokenExpiration = -Margin
  /\ pc = [c \in Callers |-> "idle"]
  /\ op = [c \in Callers |-> "RoundTrip"]
  /\ err = [c \in Callers |-> FALSE]
  /\ seen = [c \in Callers |-> 0]
  /\ readers = {}
  /\ writer = NoCaller

tokenNeedsRefresh == tokenExpiration - now < Margin

Goto(c, label) == pc' = [pc EXCEPT ![c] = label]

Tick ==
  /\ now < MaxTime
  /\ now' = now + 1
  /\ UNCHANGED <<tokenExpiration, pc, op, err, seen, lock>>

------------------------------------------------------------------------------
(* sync.RWMutex *)

\* RLock: get it, or wait at `wait' for the writer to let c in.
RLock(c, next, wait) ==
  IF writer = NoCaller
  THEN readers' = readers \cup {c} /\ Goto(c, next)
  ELSE UNCHANGED readers /\ Goto(c, wait)

RUnlock(c) == readers' = readers \ {c}

\* Unlock lets in the readers that wait.
Waiting == {c \in Callers : pc[c] \in {"waitcheck", "waituse"}}
Admitted(label) == CASE label = "waitcheck" -> "check"
                     [] label = "waituse" -> "use"
                     [] OTHER -> label

------------------------------------------------------------------------------
(* RoundTrip and TriggerRefresh *)

Call(c) ==
  /\ pc[c] = "idle"
  /\ \E o \in {"RoundTrip", "TriggerRefresh"} : op' = [op EXCEPT ![c] = o]
  /\ RLock(c, "check", "waitcheck")
  /\ UNCHANGED <<now, tokenExpiration, err, seen, writer>>

\* The variables of a call end with it.
EndCall(c) ==
  /\ Goto(c, "idle")
  /\ op' = [op EXCEPT ![c] = "RoundTrip"]
  /\ err' = [err EXCEPT ![c] = FALSE]
  /\ seen' = [seen EXCEPT ![c] = 0]
  /\ UNCHANGED <<now, tokenExpiration, writer>>

\* if t.tokenNeedsRefresh() of RoundTrip; TriggerRefresh does not ask.
Check(c) ==
  LET good == op[c] = "RoundTrip" /\ ~tokenNeedsRefresh IN
  /\ pc[c] = "check"
  /\ Goto(c, IF good THEN "use" ELSE "upgrade")
  /\ seen' = [seen EXCEPT ![c] = IF good THEN now ELSE @]
  /\ UNCHANGED <<now, tokenExpiration, op, err, lock>>

------------------------------------------------------------------------------
(* refreshTokenReadLocked *)

\* Faulty: the token is replaced under the read lock.
KeepReadLock(c) ==
  /\ pc[c] = "upgrade"
  /\ Goto(c, "recheck")
  /\ UNCHANGED <<now, tokenExpiration, op, err, seen, lock>>

ReleaseRead(c) ==
  /\ pc[c] = "upgrade"
  /\ RUnlock(c)
  /\ Goto(c, "lock")
  /\ UNCHANGED <<now, tokenExpiration, op, err, seen, writer>>

\* Lock: exclude other writers and later readers, then wait for the readers.
AnnounceWrite(c) ==
  /\ pc[c] = "lock"
  /\ writer = NoCaller
  /\ writer' = c
  /\ Goto(c, "drain")
  /\ UNCHANGED <<now, tokenExpiration, op, err, seen, readers>>

AcquireWrite(c) ==
  /\ pc[c] = "drain"
  /\ readers = {}
  /\ Goto(c, "recheck")
  /\ UNCHANGED <<now, tokenExpiration, op, err, seen, lock>>

\* Faulty: the token is not looked at again under the write lock.
NoRecheck(c) ==
  /\ pc[c] = "recheck"
  /\ Goto(c, "create")
  /\ UNCHANGED <<now, tokenExpiration, op, err, seen, lock>>

\* Another caller may have refreshed the token in the meantime.
Recheck(c) ==
  /\ pc[c] = "recheck"
  /\ Goto(c, IF tokenNeedsRefresh THEN "create" ELSE "unlock")
  /\ seen' = [seen EXCEPT ![c] = IF tokenNeedsRefresh THEN @ ELSE now]
  /\ UNCHANGED <<now, tokenExpiration, op, err, lock>>

\* Faulty: the answer is used before the error is looked at; it is nil, and
\* the goroutine panics.
CreateTokenUnchecked(c) ==
  /\ pc[c] = "create"
  /\ \/ /\ tokenExpiration' = now + Lifetime
        /\ seen' = [seen EXCEPT ![c] = now]
        /\ Goto(c, "unlock")
     \/ /\ Goto(c, "panicked")
        /\ UNCHANGED <<tokenExpiration, seen>>
  /\ UNCHANGED <<now, op, err, lock>>

\* Faulty: the error of the request is dropped.
CreateTokenLosesError(c) ==
  /\ pc[c] = "create"
  /\ \/ /\ tokenExpiration' = now + Lifetime
        /\ seen' = [seen EXCEPT ![c] = now]
     \/ /\ seen' = [seen EXCEPT ![c] = now]
        /\ UNCHANGED tokenExpiration
  /\ Goto(c, "unlock")
  /\ UNCHANGED <<now, op, err, lock>>

\* CreateToken, with the write lock held; it may fail.
CreateToken(c) ==
  /\ pc[c] = "create"
  /\ \/ /\ tokenExpiration' = now + Lifetime
        /\ seen' = [seen EXCEPT ![c] = now]
        /\ UNCHANGED err
     \/ /\ err' = [err EXCEPT ![c] = TRUE]
        /\ UNCHANGED <<tokenExpiration, seen>>
  /\ Goto(c, "unlock")
  /\ UNCHANGED <<now, op, lock>>

\* The deferred calls run last to first: Unlock, and then RLock.
Unlock(c) ==
  /\ pc[c] = "unlock"
  /\ writer' = NoCaller
  /\ readers' = readers \cup Waiting
  /\ pc' = [d \in Callers |-> IF d = c THEN "relock" ELSE Admitted(pc[d])]
  /\ UNCHANGED <<now, tokenExpiration, op, err, seen>>

Relock(c) ==
  /\ pc[c] = "relock"
  /\ RLock(c, "use", "waituse")
  /\ UNCHANGED <<now, tokenExpiration, op, err, seen, writer>>

\* Faulty: the early return of RoundTrip on an error does not unlock.
ReturnKeepingLock(c) ==
  /\ pc[c] = "use"
  /\ IF err[c] THEN UNCHANGED readers ELSE RUnlock(c)
  /\ EndCall(c)

\* RoundTrip puts the token into the request or returns the error, and
\* TriggerRefresh returns; each gives up the read lock first.
Return(c) ==
  /\ pc[c] = "use"
  /\ RUnlock(c)
  /\ EndCall(c)

------------------------------------------------------------------------------
Step(c) ==
  \/ Check(c) \/ ReleaseRead(c) \/ AnnounceWrite(c) \/ AcquireWrite(c)
  \/ Recheck(c) \/ CreateToken(c) \/ Unlock(c) \/ Relock(c) \/ Return(c)

Next == Tick \/ \E c \in Callers : Call(c) \/ Step(c)

Spec == Init /\ [][Next]_vars

\* Goroutines run, the API server answers a token request or refuses it, and
\* a mutex does not starve a writer (Go hands it over after a millisecond).
FairSpec == /\ Spec
            /\ \A c \in Callers : WF_vars(Step(c)) /\ SF_vars(AnnounceWrite(c))

------------------------------------------------------------------------------
(* Properties *)

\* Nobody reads the token fields while a caller may write them: the trade of
\* locks keeps every access under the lock it needs.
Reading(c) == pc[c] \in {"check", "upgrade", "use"}
Writing(c) == pc[c] \in {"recheck", "create", "unlock"}
NoDataRace ==
  \A c, d \in Callers : Writing(c) /\ c # d => ~Reading(d) /\ ~Writing(d)

\* A request that did not fail goes out with a token that is valid for an hour
\* from when its caller last looked, even when another caller refreshed the
\* token while this one held no lock.
SendsGoodToken ==
  \A c \in Callers : pc[c] = "use" /\ ~err[c] =>
    tokenExpiration - seen[c] >= Margin

\* The trade of locks does not end in a deadlock: whoever waits, for the
\* mutex, for its readers or for its writer, somebody can take a step.  No
\* caller keeps a lock it returned from, and none waits for itself.
CanStep(c) ==
  \/ pc[c] \in {"check", "upgrade", "recheck", "create", "unlock", "relock", "use"}
  \/ pc[c] = "lock" /\ writer = NoCaller
  \/ pc[c] = "drain" /\ readers = {}
SomebodyMoves ==
  (\E c \in Callers : pc[c] # "idle") => \E c \in Callers : CanStep(c)

\* However many callers find the same token expiring, it is replaced once: a
\* token is requested only while the current one needs it.
OneRefreshPerExpiry ==
  [][tokenExpiration' # tokenExpiration => tokenNeedsRefresh]_vars

\* Every call returns: no caller waits for a lock forever.
CallsReturn == \A c \in Callers : pc[c] # "idle" ~> pc[c] = "idle"

=============================================================================
