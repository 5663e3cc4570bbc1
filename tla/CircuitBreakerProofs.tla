------------------------ MODULE CircuitBreakerProofs ------------------------
(***************************************************************************)
(* The circuit breaker's safety for every number of calls, every threshold *)
(* and every window.  The three invariants hold together or not at all:    *)
(* that an open window is not disturbed needs the probe to be held only in *)
(* the half-open state, which needs SingleProbe, whose step for a probe's  *)
(* verdict needs that there is no second probe.                            *)
(***************************************************************************)
EXTENDS CircuitBreaker, TLAPS

IInv == TypeOK /\ SingleProbe /\ CountMatchesState

\* The values every method assigns are in the ranges of the fields.
LEMMA Ranges == /\ 0 \in 0 .. Threshold /\ 0 \in 0 .. OpenTicks /\ OpenTicks \in 0 .. OpenTicks
                /\ {"closed", "open", "half_open"} = CircuitState
BY CircuitLimits DEF CircuitState

\* What each method gives back is a breaker again, the counter never passes
\* the threshold: states.py counts to failure_threshold and stops.
LEMMA RecordedIsBreaker ==
  ASSUME NEW b \in Breakers, NEW p \in {"plain", "probe"}, NEW v \in Verdicts,
         b.state = "closed" => b.failures < Threshold
  PROVE  Recorded(b, p, v) \in Breakers
<1>1. CASE v = "success"
  <2> DEFINE cleared == [b EXCEPT !.state = "closed", !.failures = 0, !.left = 0]
  <2>1. cleared \in Breakers
    BY Ranges DEF Breakers
  <2>2. [cleared EXCEPT !.probe = FALSE] \in Breakers
    BY <2>1 DEF Breakers
  <2>3. Recorded(b, p, v) \in {cleared, [cleared EXCEPT !.probe = FALSE], b}
    BY <1>1 DEF Recorded, RecordedSuccess
  <2> QED BY <2>1, <2>2, <2>3
<1>2. CASE v = "failure"
  <2>1. ASSUME NEW x \in Breakers PROVE Opened(x) \in Breakers
    BY Ranges DEF Opened, Breakers
  <2>2. [b EXCEPT !.probe = FALSE] \in Breakers
    BY DEF Breakers
  <2> DEFINE counted == [b EXCEPT !.failures = @ + 1]
  <2>3. b.state = "closed" => counted \in Breakers
    BY CircuitLimits DEF Breakers
  <2>4. \/ Recorded(b, p, v) = Opened([b EXCEPT !.probe = FALSE])
        \/ b.state = "closed" /\ Recorded(b, p, v) \in {Opened(counted), counted}
        \/ Recorded(b, p, v) = b
    BY <1>2 DEF Recorded, RecordedFailure
  <2> QED BY <2>1, <2>2, <2>3, <2>4
<1>3. CASE v = "ignored"
  <2>1. [b EXCEPT !.probe = FALSE, !.state = "open", !.left = 0] \in Breakers
    BY Ranges DEF Breakers
  <2> QED BY <1>3, <2>1 DEF Recorded, RecordedIgnored
<1> QED BY <1>1, <1>2, <1>3 DEF Verdicts

\* A plain permit's verdict leaves a circuit that is not closed as it is.
LEMMA StalePermitIsMute ==
  ASSUME NEW b \in Breakers, NEW v \in Verdicts, b.state # "closed"
  PROVE  Recorded(b, "plain", v) = b
BY DEF Recorded, RecordedSuccess, RecordedFailure, RecordedIgnored, Verdicts

\* A plain permit's verdict on a closed circuit never marks a probe; it keeps
\* the circuit closed below the threshold, or opens it with the counter full.
LEMMA PlainVerdict ==
  ASSUME NEW b \in Breakers, NEW v \in Verdicts, b.state = "closed",
         b.failures < Threshold, b.left = 0
  PROVE  LET r == Recorded(b, "plain", v)
         IN  /\ r.probe = b.probe
             /\ \/ r.state = "closed" /\ r.failures < Threshold /\ r.left = 0
                \/ r.state = "open" /\ r.failures = Threshold
<1>1. CASE v = "success"
  <2> DEFINE cleared == [b EXCEPT !.state = "closed", !.failures = 0, !.left = 0]
  <2>1. Recorded(b, "plain", v) = cleared
    BY <1>1 DEF Recorded, RecordedSuccess
  <2>2. /\ cleared.state = "closed" /\ cleared.failures = 0
        /\ cleared.left = 0 /\ cleared.probe = b.probe
    BY DEF Breakers
  <2>3. cleared.failures < Threshold
    BY <2>2, CircuitLimits
  <2> HIDE DEF cleared
  <2> QED BY <2>1, <2>2, <2>3
<1>2. CASE v = "failure"
  <2> DEFINE counted == [b EXCEPT !.failures = @ + 1]
  <2>1. Recorded(b, "plain", v) =
          IF counted.failures >= Threshold THEN Opened(counted) ELSE counted
    BY <1>2 DEF Recorded, RecordedFailure
  <2>2. /\ counted.failures = b.failures + 1 /\ counted.state = "closed"
        /\ counted.left = 0 /\ counted.probe = b.probe
    BY DEF Breakers
  <2>3. /\ Opened(counted).state = "open" /\ Opened(counted).probe = b.probe
        /\ Opened(counted).failures = b.failures + 1
    BY DEF Opened, Breakers
  <2> QED BY <2>1, <2>2, <2>3, CircuitLimits DEF Breakers
<1>3. CASE v = "ignored"
  BY <1>3 DEF Recorded, RecordedIgnored, Breakers
<1> QED BY <1>1, <1>2, <1>3 DEF Verdicts

\* A probe's verdict always gives the probe's place back, and leaves the
\* circuit closed with an empty counter or open with its counter untouched.
LEMMA ProbeVerdict ==
  ASSUME NEW b \in Breakers, NEW v \in Verdicts
  PROVE  LET r == Recorded(b, "probe", v)
         IN  /\ r.probe = FALSE
             /\ \/ r.state = "closed" /\ r.failures = 0 /\ r.left = 0
                \/ r.state = "open" /\ r.failures = b.failures
<1>1. CASE v = "success"
  BY <1>1 DEF Recorded, RecordedSuccess, Breakers
<1>2. CASE v = "failure"
  BY <1>2 DEF Recorded, RecordedFailure, Opened, Breakers
<1>3. CASE v = "ignored"
  BY <1>3 DEF Recorded, RecordedIgnored, Breakers
<1> QED BY <1>1, <1>2, <1>3 DEF Verdicts

----------------------------------------------------------------------------
LEMMA InitHolds == Init => IInv
<1> SUFFICES ASSUME Init PROVE IInv OBVIOUS
<1>1. TypeOK
  BY CircuitLimits DEF Init, TypeOK, NewBreaker, Breakers, CircuitState, Permits
<1>2. SingleProbe
  BY DEF Init, SingleProbe, ProbeHolders, NewBreaker
<1>3. CountMatchesState
  BY CircuitLimits DEF Init, CountMatchesState, NewBreaker
<1> QED BY <1>1, <1>2, <1>3 DEF IInv

LEMMA AcquireKeeps ==
  ASSUME IInv, NEW c \in Calls, Acquire(c)
  PROVE  IInv'
<1> USE DEF IInv
<1>1. CASE breaker.state = "closed"
  <2>1. permit' = [permit EXCEPT ![c] = "plain"] /\ breaker' = breaker
    BY <1>1 DEF Acquire, PermitFrom, Acquired, Refresh
  <2>2. TypeOK'
    BY <2>1 DEF TypeOK, Permits
  <2>3. ProbeHolders' = ProbeHolders
    BY <2>1 DEF Acquire, ProbeHolders, TypeOK
  <2> QED BY <2>1, <2>2, <2>3 DEF SingleProbe, CountMatchesState
<1>2. CASE breaker.state # "closed"
  <2>1. /\ ~breaker.probe
        /\ Refresh(breaker).state = "half_open"
        /\ breaker.left = 0
    BY <1>2 DEF Acquire, Rejects, Refresh, TypeOK, Breakers, CircuitState,
                CountMatchesState, SingleProbe
  <2>2. /\ permit' = [permit EXCEPT ![c] = "probe"]
        /\ breaker' = [breaker EXCEPT !.state = "half_open", !.probe = TRUE]
    BY <2>1 DEF Acquire, PermitFrom, Acquired, Refresh, TypeOK, Breakers
  <2>3. TypeOK'
    BY <2>2 DEF TypeOK, Permits, Breakers, CircuitState
  <2>4. ProbeHolders' = {c}
    BY <2>1, <2>2 DEF ProbeHolders, TypeOK, SingleProbe
  <2>5. SingleProbe'
    BY <2>2, <2>4 DEF SingleProbe, TypeOK, Breakers
  <2>6. CountMatchesState'
    BY <1>2, <2>1, <2>2 DEF CountMatchesState, TypeOK, Breakers
  <2> QED BY <2>3, <2>5, <2>6
<1> QED BY <1>1, <1>2

LEMMA RecordKeeps ==
  ASSUME IInv, NEW c \in Calls, NEW v \in Verdicts, Record(c, v)
  PROVE  IInv'
<1> USE DEF IInv
<1>1. permit[c] \in {"plain", "probe"}
  BY DEF Record, TypeOK, Permits
<1>2. TypeOK'
  BY <1>1, RecordedIsBreaker DEF Record, TypeOK, Permits, CountMatchesState
<1>3. ProbeHolders' = ProbeHolders \ {c}
  BY DEF Record, ProbeHolders, TypeOK
<1>4. CASE permit[c] = "plain"
  <2>1. ProbeHolders' = ProbeHolders
    BY <1>3, <1>4 DEF ProbeHolders
  <2>2. CASE breaker.state # "closed"
    BY <1>2, <1>4, <2>1, <2>2, StalePermitIsMute
       DEF Record, TypeOK, SingleProbe, CountMatchesState
  <2>3. CASE breaker.state = "closed"
    <3>1. /\ breaker'.probe = breaker.probe
          /\ \/ breaker'.state = "closed" /\ breaker'.failures < Threshold /\ breaker'.left = 0
             \/ breaker'.state = "open" /\ breaker'.failures = Threshold
      BY <1>4, <2>3, PlainVerdict DEF Record, TypeOK, CountMatchesState, Breakers
    <3>2. ~breaker.probe
      BY <2>3 DEF SingleProbe
    <3>3. SingleProbe'
      BY <2>1, <3>1, <3>2 DEF SingleProbe
    <3>4. CountMatchesState'
      BY <3>1, CircuitLimits DEF CountMatchesState
    <3> QED BY <1>2, <3>3, <3>4
  <2> QED BY <2>2, <2>3
<1>5. CASE permit[c] = "probe"
  <2>1. c \in ProbeHolders
    BY <1>5 DEF ProbeHolders
  <2>2. breaker.state = "half_open" /\ breaker.failures = Threshold
    BY <2>1, CircuitLimits DEF SingleProbe, CountMatchesState, TypeOK, Breakers
  <2>3. ProbeHolders' = {}
    BY <1>3, <2>1 DEF SingleProbe
  <2>4. /\ breaker'.probe = FALSE
        /\ \/ breaker'.state = "closed" /\ breaker'.failures = 0 /\ breaker'.left = 0
           \/ breaker'.state = "open" /\ breaker'.failures = breaker.failures
    BY <1>5, ProbeVerdict DEF Record, TypeOK
  <2>5. SingleProbe'
    BY <2>3, <2>4 DEF SingleProbe
  <2>6. CountMatchesState'
    BY <2>2, <2>4, CircuitLimits DEF CountMatchesState
  <2> QED BY <1>2, <2>5, <2>6
<1> QED BY <1>1, <1>4, <1>5

LEMMA SnapshotKeeps ==
  ASSUME IInv, Snapshot
  PROVE  IInv'
<1> USE DEF IInv
<1>1. CASE breaker.state = "open" /\ breaker.left = 0
  <2>1. breaker' = [breaker EXCEPT !.state = "half_open"]
    BY <1>1 DEF Snapshot, Refresh
  <2>2. TypeOK'
    BY <2>1 DEF Snapshot, TypeOK, Breakers, CircuitState
  <2>3. ProbeHolders' = ProbeHolders
    BY DEF Snapshot, ProbeHolders
  <2>4. SingleProbe'
    BY <2>1, <2>3 DEF SingleProbe, TypeOK, Breakers
  <2>5. CountMatchesState'
    BY <1>1, <2>1 DEF CountMatchesState, TypeOK, Breakers
  <2> QED BY <2>2, <2>4, <2>5
<1>2. CASE ~(breaker.state = "open" /\ breaker.left = 0)
  <2>1. UNCHANGED vars
    BY <1>2 DEF Snapshot, Refresh, vars
  <2> QED BY <2>1 DEF vars, TypeOK, SingleProbe, ProbeHolders, CountMatchesState
<1> QED BY <1>1, <1>2

LEMMA TickKeeps ==
  ASSUME IInv, Tick
  PROVE  IInv'
<1> USE DEF IInv
<1>1. breaker' = [breaker EXCEPT !.left = @ - 1] /\ breaker.left \in 1 .. OpenTicks
  BY CircuitLimits DEF Tick, Ticked, TypeOK, Breakers
<1>2. TypeOK'
  BY <1>1, CircuitLimits DEF Tick, TypeOK, Breakers
<1>3. ProbeHolders' = ProbeHolders
  BY DEF Tick, ProbeHolders
<1>4. SingleProbe'
  BY <1>1, <1>3 DEF SingleProbe, TypeOK, Breakers
<1>5. CountMatchesState'
  BY <1>1 DEF CountMatchesState, TypeOK, Breakers
<1> QED BY <1>2, <1>4, <1>5

LEMMA NextKeeps == IInv /\ [Next]_vars => IInv'
<1> SUFFICES ASSUME IInv, [Next]_vars PROVE IInv' OBVIOUS
<1>1. ASSUME NEW c \in Calls, Acquire(c) PROVE IInv'
  BY <1>1, AcquireKeeps
<1>2. ASSUME NEW c \in Calls, Finish(c) PROVE IInv'
  BY <1>2, RecordKeeps DEF Finish
<1>3. CASE Snapshot
  BY <1>3, SnapshotKeeps
<1>4. CASE Tick
  BY <1>4, TickKeeps
<1>5. CASE UNCHANGED vars
  BY <1>5 DEF vars, IInv, TypeOK, SingleProbe, ProbeHolders, CountMatchesState
<1> QED BY <1>1, <1>2, <1>3, <1>4, <1>5 DEF Next

\* The inductive invariant holds for every threshold, window and set of calls.
THEOREM Invariance == Safety => []IInv
<1> QED BY InitHolds, NextKeeps, PTL DEF Safety

\* The breaker and its permits keep their types: the counter of states.py
\* never exceeds failure_threshold, and no window exceeds open_seconds.
THEOREM TypeCorrect == Safety => []TypeOK
<1>1. IInv => TypeOK BY DEF IInv
<1> QED BY Invariance, <1>1, PTL

\* At most one half-open probe exists, and the flag of states.py tells it.
THEOREM ProbeIsSingle == Safety => []SingleProbe
<1>1. IInv => SingleProbe BY DEF IInv
<1> QED BY Invariance, <1>1, PTL

\* The failure counter and the circuit state never disagree.
THEOREM CountIsRight == Safety => []CountMatchesState
<1>1. IInv => CountMatchesState BY DEF IInv
<1> QED BY Invariance, <1>1, PTL

----------------------------------------------------------------------------
\* While an open window has time left, the circuit is open and no call holds a
\* probe permit, so that every verdict recorded meanwhile is a stale one.
LEMMA NoProbeInWindow ==
  ASSUME IInv, breaker.left > 0
  PROVE  /\ breaker.state = "open"
         /\ \A c \in Calls : permit[c] \in {"none", "plain"}
<1>1. breaker.state = "open"
  BY DEF IInv, CountMatchesState
<1>2. ProbeHolders = {}
  BY <1>1 DEF IInv, SingleProbe
<1>3. ASSUME NEW c \in Calls PROVE permit[c] \in {"none", "plain"}
  BY <1>2 DEF IInv, TypeOK, Permits, ProbeHolders
<1> QED BY <1>1, <1>3

\* No late success or failure of a call admitted before the trip shortens,
\* extends or restarts an open window (the comments at states.py:226 and 241).
THEOREM WindowIsUndisturbed == Safety => WindowUndisturbed
<1> DEFINE Kept == breaker.left > 0 =>
                     /\ breaker'.state = "open"
                     /\ breaker'.left \in {breaker.left, breaker.left - 1}
                     /\ breaker'.failures = breaker.failures
<1>1. IInv /\ [Next]_vars => [Kept]_vars
  <2> SUFFICES ASSUME IInv, Next, breaker.left > 0
               PROVE  /\ breaker'.state = "open"
                      /\ breaker'.left \in {breaker.left, breaker.left - 1}
                      /\ breaker'.failures = breaker.failures
    BY DEF Kept
  <2>1. breaker.state = "open" /\ \A c \in Calls : permit[c] \in {"none", "plain"}
    BY NoProbeInWindow
  <2>2. ASSUME NEW c \in Calls, Acquire(c) PROVE FALSE
    BY <2>1, <2>2 DEF Acquire, Rejects, Refresh
  <2>3. ASSUME NEW c \in Calls, Finish(c) PROVE breaker' = breaker
    BY <2>1, <2>3, StalePermitIsMute DEF Finish, Record, IInv, TypeOK
  <2>4. ASSUME Snapshot PROVE breaker' = breaker
    BY <2>1, <2>4 DEF Snapshot, Refresh
  <2>5. CASE Tick
    <3>1. breaker' = [breaker EXCEPT !.left = breaker.left - 1]
      BY <2>5 DEF Tick, Ticked
    <3> QED BY <2>1, <3>1 DEF IInv, TypeOK, Breakers
  <2> QED BY <2>1, <2>2, <2>3, <2>4, <2>5 DEF Next
<1> QED BY Invariance, <1>1, PTL DEF Safety, WindowUndisturbed

----------------------------------------------------------------------------
LEMMA InitRefines == Init => Contract!Init
BY DEF Init, Contract!Init, NewBreaker, Mode, Inside, Standing

\* The step of a call changes what the contract sees of that call alone.
LEMMA InsideChanges ==
  ASSUME TypeOK, NEW c \in Calls, NEW p \in Permits, permit' = [permit EXCEPT ![c] = p]
  PROVE  Inside' = [Inside EXCEPT ![c] = Standing(p)]
BY DEF Inside, TypeOK

LEMMA AcquireRefines ==
  ASSUME IInv, NEW c \in Calls, Acquire(c)
  PROVE  Contract!Enter(c) \/ Contract!StartTrial(c)
<1> USE DEF IInv
<1>1. Inside[c] = "out"
  BY DEF Acquire, Inside, Standing
<1>2. CASE breaker.state = "closed"
  <2>1. permit' = [permit EXCEPT ![c] = "plain"] /\ breaker' = breaker
    BY <1>2 DEF Acquire, PermitFrom, Acquired, Refresh
  <2>2. Inside' = [Inside EXCEPT ![c] = "in"]
    BY <2>1, InsideChanges DEF Permits, Standing
  <2>3. Mode = "serving" /\ Mode' = Mode
    BY <1>2, <2>1 DEF Mode
  <2> QED BY <1>1, <2>2, <2>3 DEF Contract!Enter
<1>3. CASE breaker.state # "closed"
  <2>1. ~breaker.probe /\ Refresh(breaker).state = "half_open"
    BY <1>3 DEF Acquire, Rejects, Refresh, TypeOK, Breakers, CircuitState, SingleProbe
  <2>2. /\ permit' = [permit EXCEPT ![c] = "probe"]
        /\ breaker' = [breaker EXCEPT !.state = "half_open", !.probe = TRUE]
    BY <2>1 DEF Acquire, PermitFrom, Acquired, Refresh, TypeOK, Breakers
  <2>3. Inside' = [Inside EXCEPT ![c] = "trying"]
    BY <2>2, InsideChanges DEF Permits, Standing
  <2>4. Mode = "resting"
    BY <1>3, <2>1 DEF Mode
  <2>5. breaker'.state = "half_open" /\ breaker'.probe = TRUE
    BY <2>2 DEF TypeOK, Breakers
  <2>6. Mode' = "trial"
    BY <2>5 DEF Mode
  <2> QED BY <1>1, <2>3, <2>4, <2>6 DEF Contract!StartTrial
<1> QED BY <1>2, <1>3

LEMMA RecordRefines ==
  ASSUME IInv, NEW c \in Calls, NEW v \in Verdicts, Record(c, v)
  PROVE  Contract!Leave(c) \/ Contract!EndTrial(c)
<1> USE DEF IInv
<1>1. Inside' = [Inside EXCEPT ![c] = "out"]
  BY InsideChanges DEF Record, Permits, Standing
<1>2. CASE permit[c] = "plain"
  <2>1. Inside[c] = "in"
    BY <1>2 DEF Inside, Standing
  <2>2. CASE breaker.state # "closed"
    <3>1. breaker' = breaker
      BY <1>2, <2>2, StalePermitIsMute DEF Record, TypeOK
    <3>2. Mode' = Mode
      BY <3>1 DEF Mode
    <3> QED BY <1>1, <2>1, <3>2 DEF Contract!Leave
  <2>3. CASE breaker.state = "closed"
    <3>1. /\ breaker'.probe = breaker.probe
          /\ breaker'.state \in {"closed", "open"}
      BY <1>2, <2>3, PlainVerdict DEF Record, TypeOK, CountMatchesState, Breakers
    <3>2. ~breaker.probe
      BY <2>3 DEF SingleProbe
    <3>3. Mode = "serving" /\ Mode' \in {"serving", "resting"}
      BY <2>3, <3>1, <3>2 DEF Mode
    <3> QED BY <1>1, <2>1, <3>3 DEF Contract!Leave
  <2> QED BY <2>2, <2>3
<1>3. CASE permit[c] = "probe"
  <2>1. Inside[c] = "trying"
    BY <1>3 DEF Inside, Standing
  <2>2. breaker'.probe = FALSE /\ breaker'.state \in {"closed", "open"}
    BY <1>3, ProbeVerdict DEF Record, TypeOK
  <2>3. Mode' \in {"serving", "resting"}
    BY <2>2 DEF Mode
  <2> QED BY <1>1, <2>1, <2>3 DEF Contract!EndTrial
<1> QED BY <1>2, <1>3 DEF Record, TypeOK, Permits

\* Every step of the breaker is a step of the contract, or one it cannot see.
LEMMA StepRefines == IInv /\ [Next]_vars => [Contract!Next]_<<Mode, Inside>>
<1> SUFFICES ASSUME IInv, [Next]_vars
             PROVE  [Contract!Next]_<<Mode, Inside>>
  OBVIOUS
<1>1. ASSUME NEW c \in Calls, Acquire(c) PROVE Contract!Next
  BY <1>1, AcquireRefines DEF Contract!Next
<1>2. ASSUME NEW c \in Calls, Finish(c) PROVE Contract!Next
  BY <1>2, RecordRefines DEF Finish, Contract!Next
<1>3. CASE Snapshot
  <2>1. CASE breaker.state = "open" /\ breaker.left = 0
    <3>1. breaker' = [breaker EXCEPT !.state = "half_open"]
      BY <1>3, <2>1 DEF Snapshot, Refresh
    <3>2. breaker'.state = "half_open" /\ breaker'.probe = breaker.probe
      BY <3>1 DEF IInv, TypeOK, Breakers
    <3>3. Mode' = Mode
      BY <2>1, <3>2 DEF Mode
    <3> QED BY <1>3, <3>3 DEF Snapshot, Inside
  <2>2. CASE ~(breaker.state = "open" /\ breaker.left = 0)
    <3>1. breaker' = breaker /\ permit' = permit
      BY <1>3, <2>2 DEF Snapshot, Refresh
    <3> QED BY <3>1 DEF Mode, Inside
  <2> QED BY <2>1, <2>2
<1>4. CASE Tick
  <2>1. breaker'.state = breaker.state /\ breaker'.probe = breaker.probe
    BY <1>4 DEF Tick, Ticked, IInv, TypeOK, Breakers
  <2>2. Mode' = Mode
    BY <2>1 DEF Mode
  <2> QED BY <1>4, <2>2 DEF Tick, Inside
<1>5. CASE UNCHANGED vars
  BY <1>5 DEF vars, Mode, Inside
<1> QED BY <1>1, <1>2, <1>3, <1>4, <1>5 DEF Next

\* The breaker implements the safety part of its contract: only the outcome of
\* the one trial reopens the service, and nobody enters while it rests.
THEOREM ImplementsContract == Safety => Contract!Safety
<1>1. Safety => Contract!Init /\ [][Contract!Next]_<<Mode, Inside>>
  BY InitRefines, StepRefines, Invariance, PTL DEF Safety
<1> QED BY <1>1, PTL DEF Contract!Safety, Contract!vars
=============================================================================
