------------------------ MODULE EngineLifecycleProofs ------------------------
(***************************************************************************)
(* The safety of the engine's life for every number of requests, closers   *)
(* and slots.  The argument: once the engine is closing nobody enters, so  *)
(* the searches that are left are among those its owner awaits; there is   *)
(* one owner, and where it stands tells which backends are still open.     *)
(***************************************************************************)
EXTENDS EngineLifecycle, FiniteSetTheorems, TLAPS

Owning == {"requests", "abandoning", "vector", "graph"}

\* One task at most owns the close, and only while the engine closes.
OneOwner ==
  /\ \A c, d \in Closers : closer[c] \in Owning /\ closer[d] \in Owning => c = d
  /\ \A c \in Closers : closer[c] \in Owning => closing

\* Where the owner stands tells what it has closed; before it nobody has.
InTurn ==
  /\ ~closing => \A b \in Backends : backend[b] = "open"
  /\ \A c \in Closers : closer[c] \in {"requests", "abandoning", "vector"}
                          => \A b \in Backends : backend[b] = "open"
  /\ \A c \in Closers : closer[c] = "graph"
                          => backend["vector"] # "open" /\ backend["graph"] = "open"

\* The searches left while the engine closes are the ones it awaits, and none
\* is left when it goes on to the backends.
Drained ==
  /\ closing => registered \subseteq targets
  /\ \A c \in Closers : closer[c] \in {"vector", "graph"} => registered = {}
  /\ \A b \in Backends : backend[b] # "open" => registered = {}

\* closed is set after closing, and a follower waits only for a close.
Closing == closed => closing

\* A request that has not arrived has no operation.
Unarrived == \A r \in Requests : handler[r] = "out" => op[r] = "none"

IInv ==
  /\ TypeOK /\ IsFiniteSet(registered) /\ AdmissionExact
  /\ Unarrived /\ NoDetachedSearch
  /\ OneOwner /\ InTurn /\ Drained /\ Closing /\ ClosedMeansBoth

----------------------------------------------------------------------------
\* What Task.cancel does to the operations: it moves none into the engine, and
\* none of those in it out.
LEMMA CancelMoves ==
  ASSUME TypeOK, NEW rs
  PROVE  /\ Cancelled(rs) \in [Requests -> OpStates]
         /\ \A r \in Requests :
              /\ Cancelled(rs)[r] \in Inside <=> op[r] \in Inside
              /\ op[r] \in Ended => Cancelled(rs)[r] = op[r]
BY DEF TypeOK, Cancelled, OpStates, Inside, Ended

\* One more search in the engine, or one less, is one more or one less slot.
LEMMA OneMore ==
  ASSUME TypeOK, IsFiniteSet(registered), AdmissionExact, NEW r \in Requests,
         op[r] \notin Inside, op' \in [Requests -> OpStates], op'[r] \in Inside,
         \A q \in Requests \ {r} : op'[q] = op[q],
         inFlight < Limit, inFlight' = inFlight + 1, registered' = registered \cup {r}
  PROVE  IsFiniteSet(registered') /\ AdmissionExact'
<1>1. r \notin registered
  BY DEF AdmissionExact
<1>2. IsFiniteSet(registered') /\ Cardinality(registered') = Cardinality(registered) + 1
  BY <1>1, FS_AddElement
<1>3. registered' = {q \in Requests : op'[q] \in Inside}
  BY DEF AdmissionExact
<1>4. inFlight' <= Limit
  BY LimitPositive DEF TypeOK
<1> QED BY <1>2, <1>3, <1>4 DEF AdmissionExact

LEMMA OneLess ==
  ASSUME TypeOK, IsFiniteSet(registered), AdmissionExact, NEW r \in Requests,
         op[r] \in Inside, op' \in [Requests -> OpStates], op'[r] \notin Inside,
         \A q \in Requests \ {r} : op'[q] = op[q],
         inFlight' = inFlight - 1, registered' = registered \ {r}
  PROVE  IsFiniteSet(registered') /\ AdmissionExact' /\ inFlight' \in 0 .. Limit
<1>1. r \in registered
  BY DEF AdmissionExact
<1>2. IsFiniteSet(registered') /\ Cardinality(registered') = Cardinality(registered) - 1
  BY <1>1, FS_RemoveElement
<1>3. registered' = {q \in Requests : op'[q] \in Inside}
  BY DEF AdmissionExact
<1>4. Cardinality(registered') \in Nat
  BY <1>2, FS_CardinalityType
<1>5. inFlight = Cardinality(registered) /\ inFlight \in 0 .. Limit
  BY DEF AdmissionExact, TypeOK
<1>6. inFlight' = Cardinality(registered')
  BY <1>2, <1>5
<1>7. inFlight' \in 0 .. Limit
  BY <1>4, <1>5, <1>6, LimitPositive
<1>8. inFlight' <= Limit
  BY <1>7, LimitPositive
<1> QED BY <1>2, <1>3, <1>6, <1>7, <1>8 DEF AdmissionExact

\* The steps of a request leave the close as it is; what they may disturb of it
\* is Drained, and of the rest the types, the slots and the handlers.
LEMMA RequestStepKeeps ==
  ASSUME IInv, UNCHANGED closeVars, TypeOK', IsFiniteSet(registered'), AdmissionExact',
         Unarrived', NoDetachedSearch', registered' \subseteq registered \/ ~closing
  PROVE  IInv'
<1>1. OneOwner' /\ InTurn' /\ Closing' /\ ClosedMeansBoth'
  BY DEF IInv, closeVars, OneOwner, InTurn, Closing, ClosedMeansBoth
<1>2. Drained'
  <2>1. CASE registered' \subseteq registered
    BY <2>1 DEF IInv, closeVars, Drained
  <2>2. CASE ~closing
    BY <2>2 DEF IInv, closeVars, Drained, OneOwner, InTurn, Owning
  <2> QED BY <2>1, <2>2
<1> QED BY <1>1, <1>2 DEF IInv

\* The steps of a close that leave the requests as they are.
LEMMA CloseStepKeeps ==
  ASSUME IInv, UNCHANGED requestVars, TypeOK',
         OneOwner', InTurn', Drained', Closing', ClosedMeansBoth'
  PROVE  IInv'
<1>1. IsFiniteSet(registered') /\ AdmissionExact'
  BY DEF IInv, requestVars, AdmissionExact
<1>2. Unarrived' /\ NoDetachedSearch'
  BY DEF IInv, requestVars, Unarrived, NoDetachedSearch
<1> QED BY <1>1, <1>2 DEF IInv

----------------------------------------------------------------------------
LEMMA InitHolds == Init => IInv
<1> SUFFICES ASSUME Init PROVE IInv OBVIOUS
<1>1. TypeOK
  <2>1. {closing, closed, complete} \subseteq BOOLEAN
    BY DEF Init
  <2>2. inFlight \in 0 .. Limit
    BY LimitPositive DEF Init
  <2> QED BY <2>1, <2>2 DEF Init, TypeOK, HandlerStates, OpStates, CloserStates
<1>2. IsFiniteSet(registered) /\ AdmissionExact
  BY FS_EmptySet, LimitPositive DEF Init, AdmissionExact, Inside
<1>3. Unarrived /\ NoDetachedSearch
  BY DEF Init, Unarrived, NoDetachedSearch
<1>4. OneOwner /\ InTurn /\ Closing /\ ClosedMeansBoth
  BY DEF Init, OneOwner, InTurn, Closing, ClosedMeansBoth, Owning, Backends
<1>5. Drained
  BY DEF Init, Drained
<1> QED BY <1>1, <1>2, <1>3, <1>4, <1>5 DEF IInv

\* A step of a request preserves the invariant.
LEMMA RequestSteps ==
  ASSUME IInv, NEW r \in Requests,
         Arrive(r) \/ Enter(r) \/ Search(r) \/ Unwind(r) \/ Reply(r) \/ Disconnect(r) \/ Join(r)
  PROVE  IInv'
<1> USE DEF IInv
<1>1. CASE Arrive(r)
  <2>1. TypeOK'
    BY <1>1 DEF Arrive, TypeOK, closeVars, HandlerStates, OpStates
  <2>2. op[r] = "none" /\ op' = [op EXCEPT ![r] = "created"]
    BY <1>1 DEF Arrive, Unarrived
  <2>3. IsFiniteSet(registered') /\ AdmissionExact'
    BY <1>1, <2>2 DEF Arrive, AdmissionExact, TypeOK, Inside
  <2>4. Unarrived' /\ NoDetachedSearch'
    BY <1>1, <2>2 DEF Arrive, Unarrived, NoDetachedSearch, TypeOK
  <2> QED BY <1>1, <2>1, <2>3, <2>4, RequestStepKeeps DEF Arrive
<1>2. CASE Enter(r)
  <2>1. CASE closing \/ inFlight >= Limit
    <3>1. op' = [op EXCEPT ![r] = "refused"] /\ UNCHANGED <<inFlight, registered, handler, closeVars>>
      BY <1>2, <2>1 DEF Enter
    <3>2. TypeOK'
      BY <3>1 DEF TypeOK, closeVars, OpStates
    <3>3. IsFiniteSet(registered') /\ AdmissionExact'
      BY <1>2, <3>1 DEF Enter, AdmissionExact, TypeOK, Inside
    <3>4. Unarrived' /\ NoDetachedSearch'
      BY <1>2, <3>1 DEF Enter, Unarrived, NoDetachedSearch, TypeOK, Ended
    <3> QED BY <3>1, <3>2, <3>3, <3>4, RequestStepKeeps
  <2>2. CASE ~(closing \/ inFlight >= Limit)
    <3>1. /\ op' = [op EXCEPT ![r] = "executing"] /\ inFlight' = inFlight + 1
          /\ registered' = registered \cup {r} /\ UNCHANGED <<handler, closeVars>>
      BY <1>2, <2>2 DEF Enter
    <3>2. TypeOK'
      <4>1. inFlight' \in 0 .. Limit
        BY <2>2, <3>1, LimitPositive DEF TypeOK
      <4> QED BY <3>1, <4>1 DEF TypeOK, closeVars, OpStates
    <3>3. /\ op[r] = "created" /\ op' \in [Requests -> OpStates] /\ op'[r] = "executing"
          /\ \A q \in Requests \ {r} : op'[q] = op[q]
      BY <1>2, <3>1 DEF Enter, TypeOK, OpStates
    <3>4. IsFiniteSet(registered') /\ AdmissionExact'
      <4>1. inFlight < Limit
        BY <2>2, LimitPositive DEF TypeOK
      <4> QED BY <3>1, <3>3, <4>1, OneMore DEF Inside
    <3>5. Unarrived' /\ NoDetachedSearch'
      BY <3>1, <3>3 DEF Unarrived, NoDetachedSearch, Ended
    <3> QED BY <2>2, <3>1, <3>2, <3>4, <3>5, RequestStepKeeps
  <2> QED BY <2>1, <2>2
<1>3. ASSUME NEW end \in Ended, op[r] \in Inside, op' = [op EXCEPT ![r] = end],
             inFlight' = inFlight - 1, registered' = registered \ {r},
             UNCHANGED <<handler, closeVars>>
      PROVE  IInv'
  <2>1. /\ op' \in [Requests -> OpStates] /\ op'[r] = end
        /\ \A q \in Requests \ {r} : op'[q] = op[q]
    BY <1>3 DEF TypeOK, OpStates, Ended
  <2>2. IsFiniteSet(registered') /\ AdmissionExact' /\ inFlight' \in 0 .. Limit
    BY <1>3, <2>1, OneLess DEF Inside, Ended
  <2>3. TypeOK'
    BY <1>3, <2>1, <2>2 DEF TypeOK, closeVars
  <2>4. Unarrived' /\ NoDetachedSearch'
    BY <1>3, <2>1 DEF Unarrived, NoDetachedSearch, Inside, Ended
  <2> QED BY <1>3, <2>2, <2>3, <2>4, RequestStepKeeps
<1>4. CASE Search(r)
  BY <1>3, <1>4 DEF Search, Inside, Ended
<1>5. CASE Unwind(r)
  BY <1>3, <1>5 DEF Unwind, Inside, Ended
<1>6. CASE Reply(r)
  <2>1. TypeOK'
    BY <1>6 DEF Reply, TypeOK, closeVars, HandlerStates, Ended
  <2>2. IsFiniteSet(registered') /\ AdmissionExact'
    BY <1>6 DEF Reply, AdmissionExact
  <2>3. Unarrived' /\ NoDetachedSearch'
    BY <1>6 DEF Reply, Unarrived, NoDetachedSearch, TypeOK, Ended
  <2> QED BY <1>6, <2>1, <2>2, <2>3, RequestStepKeeps DEF Reply
<1>7. CASE Disconnect(r)
  <2>1. TypeOK'
    BY <1>7, CancelMoves DEF Disconnect, TypeOK, closeVars, HandlerStates
  <2>2. IsFiniteSet(registered') /\ AdmissionExact'
    BY <1>7, CancelMoves DEF Disconnect, AdmissionExact
  <2>3. Unarrived'
    BY <1>7 DEF Disconnect, Unarrived, TypeOK, Cancelled
  <2>4. NoDetachedSearch'
    BY <1>7, CancelMoves DEF Disconnect, NoDetachedSearch, TypeOK, Ended
  <2> QED BY <1>7, <2>1, <2>2, <2>3, <2>4, RequestStepKeeps DEF Disconnect
<1>8. CASE Join(r)
  <2>1. TypeOK'
    BY <1>8 DEF Join, TypeOK, closeVars, HandlerStates
  <2>2. IsFiniteSet(registered') /\ AdmissionExact'
    BY <1>8 DEF Join, AdmissionExact
  <2>3. Unarrived' /\ NoDetachedSearch'
    BY <1>8 DEF Join, Unarrived, NoDetachedSearch, TypeOK
  <2> QED BY <1>8, <2>1, <2>2, <2>3, RequestStepKeeps DEF Join
<1> QED BY <1>1, <1>2, <1>4, <1>5, <1>6, <1>7, <1>8

\* The types of what a close changes.
LEMMA CloserMoves ==
  ASSUME TypeOK, NEW c \in Closers, NEW to \in CloserStates,
         closer' = [closer EXCEPT ![c] = to]
  PROVE  /\ closer' \in [Closers -> CloserStates] /\ closer'[c] = to
         /\ \A d \in Closers \ {c} : closer'[d] = closer[d]
BY DEF TypeOK

\* A step of a close preserves the invariant.
LEMMA CloseSteps ==
  ASSUME IInv, NEW c \in Closers,
         \/ CloseAsOwner(c) \/ CloseAsFollower(c) \/ FollowerReturns(c) \/ RequestsEnded(c)
         \/ CloseVector(c) \/ CloseGraph(c) \/ CancelCloser(c) \/ Abandon(c)
  PROVE  IInv'
<1> USE DEF IInv
<1>1. CASE CloseAsOwner(c)
  <2> DEFINE to == IF registered = {} THEN "vector" ELSE "requests"
  <2>1. /\ ~closing /\ closing' = TRUE /\ targets' = registered /\ op' = Cancelled(registered)
        /\ to \in CloserStates /\ closer' = [closer EXCEPT ![c] = to]
        /\ UNCHANGED <<handler, inFlight, registered, closed, complete, backend>>
    BY <1>1 DEF CloseAsOwner, CloserStates
  <2>2. /\ closer' \in [Closers -> CloserStates] /\ closer'[c] = to
        /\ \A d \in Closers \ {c} : closer'[d] = closer[d]
    BY <2>1, CloserMoves
  <2>3. TypeOK'
    <3>1. {closing', closed', complete'} \subseteq BOOLEAN
      BY <2>1 DEF TypeOK
    <3> QED BY <2>1, <2>2, <3>1, CancelMoves DEF TypeOK
  <2>4. IsFiniteSet(registered') /\ AdmissionExact'
    BY <2>1, CancelMoves DEF AdmissionExact
  <2>5. Unarrived'
    BY <2>1 DEF Unarrived, TypeOK, Cancelled
  <2>6. NoDetachedSearch'
    BY <2>1, CancelMoves DEF NoDetachedSearch
  <2>7. \A d \in Closers : closer[d] \notin Owning
    BY <2>1 DEF OneOwner
  <2>8. OneOwner' /\ InTurn' /\ Closing'
    BY <2>1, <2>2, <2>7 DEF OneOwner, InTurn, Closing, Owning
  <2>9. Drained'
    BY <2>1, <2>2, <2>7 DEF Drained, Owning
  <2>10. ClosedMeansBoth'
    BY <2>1, <2>2 DEF ClosedMeansBoth
  <2> QED BY <2>3, <2>4, <2>5, <2>6, <2>8, <2>9, <2>10
<1>2. ASSUME NEW to \in {"waiting", "returned", "raised"}, closer' = [closer EXCEPT ![c] = to],
             to = "returned" => closed,
             UNCHANGED <<requestVars, closing, closed, complete, targets, backend>>
      PROVE  IInv'
  <2>1. /\ closer' \in [Closers -> CloserStates] /\ closer'[c] = to
        /\ \A d \in Closers \ {c} : closer'[d] = closer[d]
    BY <1>2, CloserMoves DEF CloserStates
  <2>2. TypeOK'
    BY <1>2, <2>1 DEF TypeOK, requestVars
  <2>3. OneOwner' /\ InTurn' /\ Closing'
    BY <1>2, <2>1 DEF OneOwner, InTurn, Closing, Owning
  <2>4. Drained'
    BY <1>2, <2>1 DEF Drained, requestVars
  <2>5. ClosedMeansBoth'
    BY <1>2, <2>1 DEF ClosedMeansBoth
  <2> QED BY <1>2, <2>2, <2>3, <2>4, <2>5, CloseStepKeeps
<1>3. CASE CloseAsFollower(c)
  BY <1>2, <1>3 DEF CloseAsFollower
<1>4. CASE FollowerReturns(c)
  BY <1>2, <1>4 DEF FollowerReturns, ClosedMeansBoth
<1>5. CASE Abandon(c)
  BY <1>2, <1>5 DEF Abandon
<1>6. CASE CancelCloser(c)
  <2>1. CASE closer[c] = "waiting"
    BY <1>2, <1>6, <2>1 DEF CancelCloser, TypeOK
  <2>2. CASE closer[c] = "requests"
    <3>1. /\ closer' = [closer EXCEPT ![c] = "abandoning"]
          /\ UNCHANGED <<requestVars, closing, closed, complete, targets, backend>>
      BY <1>6, <2>2 DEF CancelCloser, TypeOK
    <3>2. /\ closer' \in [Closers -> CloserStates] /\ closer'[c] = "abandoning"
          /\ \A d \in Closers \ {c} : closer'[d] = closer[d]
      BY <3>1, CloserMoves DEF CloserStates
    <3>3. TypeOK'
      BY <3>1, <3>2 DEF TypeOK, requestVars
    <3>4. OneOwner' /\ InTurn' /\ Closing'
      BY <2>2, <3>1, <3>2 DEF OneOwner, InTurn, Closing, Owning
    <3>5. Drained' /\ ClosedMeansBoth'
      BY <3>1, <3>2 DEF Drained, ClosedMeansBoth, requestVars
    <3> QED BY <3>1, <3>3, <3>4, <3>5, CloseStepKeeps
  <2> QED BY <1>6, <2>1, <2>2 DEF CancelCloser
<1>7. CASE RequestsEnded(c)
  <2>1. /\ closer[c] = "requests" /\ closer' = [closer EXCEPT ![c] = "vector"]
        /\ UNCHANGED <<requestVars, closing, closed, complete, targets, backend>>
    BY <1>7 DEF RequestsEnded
  <2>2. /\ closer' \in [Closers -> CloserStates] /\ closer'[c] = "vector"
        /\ \A d \in Closers \ {c} : closer'[d] = closer[d]
    BY <2>1, CloserMoves DEF CloserStates
  <2>3. TypeOK'
    BY <2>1, <2>2 DEF TypeOK, requestVars
  <2>4. OneOwner' /\ InTurn' /\ Closing'
    BY <2>1, <2>2 DEF OneOwner, InTurn, Closing, Owning
  <2>5. registered = {}
    <3>1. closing /\ registered \subseteq targets
      BY <2>1 DEF OneOwner, Drained, Owning
    <3>2. \A r \in registered : op[r] \in Inside /\ op[r] \in Ended
      BY <1>7, <3>1 DEF RequestsEnded, AdmissionExact
    <3> QED BY <3>2 DEF Inside, Ended
  <2>6. Drained' /\ ClosedMeansBoth'
    BY <2>1, <2>2, <2>5 DEF Drained, ClosedMeansBoth, requestVars
  <2> QED BY <2>1, <2>3, <2>4, <2>6, CloseStepKeeps
<1>8. CASE CloseVector(c)
  <2>1. PICK end \in {"closed", "failed"} : backend' = [backend EXCEPT !["vector"] = end]
    BY <1>8 DEF CloseVector
  <2>2. /\ closer[c] = "vector" /\ closer' = [closer EXCEPT ![c] = "graph"]
        /\ UNCHANGED <<requestVars, closing, closed, complete, targets>>
    BY <1>8 DEF CloseVector
  <2>3. /\ closer' \in [Closers -> CloserStates] /\ closer'[c] = "graph"
        /\ \A d \in Closers \ {c} : closer'[d] = closer[d]
    BY <2>2, CloserMoves DEF CloserStates
  <2>4. /\ backend' \in [Backends -> {"open", "closed", "failed"}]
        /\ backend'["vector"] = end /\ backend'["graph"] = backend["graph"]
    BY <2>1 DEF TypeOK, Backends
  <2>5. TypeOK'
    BY <2>2, <2>3, <2>4 DEF TypeOK, requestVars
  <2>6. OneOwner' /\ Closing'
    BY <2>2, <2>3 DEF OneOwner, Closing, Owning
  <2>7. closing /\ registered = {} /\ \A b \in Backends : backend[b] = "open"
    BY <2>2 DEF OneOwner, Drained, InTurn, Owning
  <2>8. InTurn'
    BY <2>2, <2>3, <2>4, <2>6, <2>7 DEF InTurn, OneOwner, Owning, Backends
  <2>9. Drained'
    BY <2>2, <2>7, <2>3 DEF Drained, requestVars
  <2>10. ClosedMeansBoth'
    BY <2>2, <2>3, <2>7 DEF ClosedMeansBoth, Backends
  <2> QED BY <2>2, <2>5, <2>6, <2>8, <2>9, <2>10, CloseStepKeeps
<1>9. CASE CloseGraph(c)
  <2>1. PICK end \in {"closed", "failed"} :
          /\ backend' = [backend EXCEPT !["graph"] = end]
          /\ closer' = [closer EXCEPT ![c] =
               IF end = "closed" /\ backend["vector"] = "closed" THEN "returned" ELSE "raised"]
    BY <1>9 DEF CloseGraph
  <2> DEFINE to == IF end = "closed" /\ backend["vector"] = "closed" THEN "returned" ELSE "raised"
  <2>2. /\ closer[c] = "graph" /\ closed' = TRUE /\ complete' = TRUE
        /\ UNCHANGED <<requestVars, closing, targets>>
    BY <1>9 DEF CloseGraph
  <2>3. to \in {"returned", "raised"}
    OBVIOUS
  <2>4. /\ closer' \in [Closers -> CloserStates] /\ closer'[c] = to
        /\ \A d \in Closers \ {c} : closer'[d] = closer[d]
    BY <2>1, <2>3, CloserMoves DEF CloserStates
  <2> HIDE DEF to
  <2>5. /\ backend' \in [Backends -> {"open", "closed", "failed"}]
        /\ backend'["graph"] = end /\ backend'["vector"] = backend["vector"]
    BY <2>1 DEF TypeOK, Backends
  <2>6. TypeOK'
    <3>1. {closing', closed', complete'} \subseteq BOOLEAN
      BY <2>2 DEF TypeOK
    <3> QED BY <2>2, <2>4, <2>5, <3>1 DEF TypeOK, requestVars
  <2>7. closing /\ registered = {} /\ backend["vector"] # "open"
    BY <2>2 DEF OneOwner, Drained, InTurn, Owning
  <2>8. OneOwner' /\ Closing'
    BY <2>2, <2>3, <2>4, <2>7 DEF OneOwner, Closing, Owning
  <2>9. \A d \in Closers : closer'[d] \notin Owning
    BY <2>2, <2>3, <2>4 DEF OneOwner, Owning
  <2>10. InTurn'
    BY <2>2, <2>7, <2>9 DEF InTurn, Owning
  <2>11. Drained'
    BY <2>2, <2>7, <2>9 DEF Drained, Owning, requestVars
  <2>12. ClosedMeansBoth'
    BY <2>2, <2>5, <2>7 DEF ClosedMeansBoth, Backends
  <2> QED BY <2>2, <2>6, <2>8, <2>10, <2>11, <2>12, CloseStepKeeps
<1> QED BY <1>1, <1>3, <1>4, <1>5, <1>6, <1>7, <1>8, <1>9

LEMMA StepHolds == IInv /\ [Next]_vars => IInv'
<1> SUFFICES ASSUME IInv, [Next]_vars PROVE IInv' OBVIOUS
<1>1. CASE UNCHANGED vars
  BY <1>1 DEF vars, requestVars, closeVars, IInv, TypeOK, AdmissionExact, Unarrived,
     NoDetachedSearch, OneOwner, InTurn, Drained, Closing, ClosedMeansBoth
<1>2. CASE Next
  BY <1>2, RequestSteps, CloseSteps DEF Next
<1> QED BY <1>1, <1>2

\* Only the owner closes a backend, and only one that is open.
LEMMA BackendSteps ==
  ASSUME IInv, Next, NEW b \in Backends, backend[b] # "open"
  PROVE  backend'[b] = backend[b]
<1>1. CASE \E c \in Closers : CloseVector(c)
  <2>1. PICK c \in Closers : CloseVector(c) BY <1>1
  <2>2. backend[b] = "open"
    BY <2>1 DEF CloseVector, IInv, InTurn
  <2> QED BY <2>2
<1>2. CASE \E c \in Closers : CloseGraph(c)
  <2>1. PICK c \in Closers : CloseGraph(c) BY <1>2
  <2>2. backend["graph"] = "open" /\ b \in {"vector", "graph"}
    BY <2>1 DEF CloseGraph, IInv, InTurn, Backends
  <2>3. PICK end \in {"closed", "failed"} : backend' = [backend EXCEPT !["graph"] = end]
    BY <2>1 DEF CloseGraph
  <2> QED BY <2>2, <2>3 DEF IInv, TypeOK, Backends
<1>3. CASE \E c \in Closers : \/ CloseAsOwner(c) \/ CloseAsFollower(c) \/ FollowerReturns(c)
                              \/ RequestsEnded(c) \/ CancelCloser(c) \/ Abandon(c)
  BY <1>3 DEF CloseAsOwner, CloseAsFollower, FollowerReturns, RequestsEnded, CancelCloser, Abandon
<1>4. CASE \E r \in Requests : \/ Arrive(r) \/ Enter(r) \/ Search(r) \/ Unwind(r)
                               \/ Reply(r) \/ Disconnect(r) \/ Join(r)
  BY <1>4 DEF Arrive, Enter, Search, Unwind, Reply, Disconnect, Join, closeVars
<1> QED BY <1>1, <1>2, <1>3, <1>4 DEF Next

\* There is never a second owner to count.
LEMMA OwnersCounted ==
  ASSUME IInv
  PROVE  Cardinality({c \in Closers : closer[c] \in {"requests", "vector", "graph"}}) <= 1
<1> DEFINE S == {c \in Closers : closer[c] \in {"requests", "vector", "graph"}}
<1>1. \A c, d \in S : c = d
  BY DEF IInv, OneOwner, Owning
<1>2. CASE S = {}
  BY <1>2, FS_EmptySet
<1>3. CASE S # {}
  <2>1. PICK c : c \in S BY <1>3
  <2>2. S = {c} BY <1>1, <2>1
  <2> HIDE DEF S
  <2>3. Cardinality(S) = 1 BY <2>2, FS_Singleton
  <2> QED BY <2>3 DEF S
<1> QED BY <1>2, <1>3

----------------------------------------------------------------------------
\* The inductive invariant holds in every reachable state.
THEOREM Invariance == Safety => []IInv
<1> QED BY InitHolds, StepHolds, PTL DEF Safety

\* The counter of requests in flight stays between 0 and the limit, whatever is
\* refused, fails or is cancelled (AdmissionController.slot).
THEOREM TypeCorrect == Safety => []TypeOK
<1>1. IInv => TypeOK BY DEF IInv
<1> QED BY <1>1, Invariance, PTL

\* Every admitted search holds exactly one slot and is registered for shutdown, and at
\* no time are there more of them than the limit (BaselineSearchEngine._run_search,
\* AdmissionController.slot).
THEOREM SlotsAreExact == Safety => []AdmissionExact
<1>1. IInv => AdmissionExact BY DEF IInv
<1> QED BY <1>1, Invariance, PTL

\* No search is in the engine once a backend has been closed, or has failed to
\* close (BaselineSearchEngine.close).
THEOREM ServiceEndsFirst == Safety => []NoServiceAfterClose
<1>1. IInv => NoServiceAfterClose
  BY DEF IInv, Drained, AdmissionExact, NoServiceAfterClose
<1> QED BY <1>1, Invariance, PTL

\* A handler that has ended has awaited its search (run_until_disconnect).
THEOREM NothingDetached == Safety => []NoDetachedSearch
<1>1. IInv => NoDetachedSearch BY DEF IInv
<1> QED BY <1>1, Invariance, PTL

\* An engine that calls itself closed has tried to close both backends, and a
\* close returns only then (BaselineSearchEngine.close).
THEOREM ClosedIsClosed == Safety => []ClosedMeansBoth
<1>1. IInv => ClosedMeansBoth BY DEF IInv
<1> QED BY <1>1, Invariance, PTL

\* No backend is closed twice, and no two tasks own the close, however many
\* call close() at once.
THEOREM BackendsCloseOnce == Safety => ClosedOnce
<1> DEFINE A == \A b \in Backends :
       /\ backend[b] # "open" => backend'[b] = backend[b]
       /\ Cardinality({c \in Closers : closer[c] \in {"requests", "vector", "graph"}}) <= 1
<1>1. IInv /\ [Next]_vars => [A]_vars
  BY BackendSteps, OwnersCounted
<1> QED BY <1>1, Invariance, PTL DEF Safety, ClosedOnce
=============================================================================
