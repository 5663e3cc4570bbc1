--------------------------- MODULE CircuitBreaker ---------------------------
(***************************************************************************)
(* One CircuitBreaker (scheduler/states.py) and the calls that pass        *)
(* through it.  A call acquires a permit, runs its backend operation while *)
(* the clock and the other calls go on, and at some later time records one *)
(* verdict with the permit it was given then.  The hard part is what a     *)
(* permit means by the time it comes back: the circuit may have opened,    *)
(* turned half-open or closed again in between.                            *)
(***************************************************************************)
EXTENDS CircuitOps

CONSTANT Calls   \* the calls that can be in the backend at the same time

VARIABLES
  breaker,   \* the CircuitBreaker object
  permit     \* permit[c]: what call c holds, "none" outside the backend

vars == <<breaker, permit>>

TypeOK == breaker \in Breakers /\ permit \in [Calls -> Permits]

Init == breaker = NewBreaker /\ permit = [c \in Calls |-> "none"]

----------------------------------------------------------------------------
\* acquire returns a permit.
Acquire(c) ==
  /\ permit[c] = "none"
  /\ ~Rejects(breaker)
  /\ permit' = [permit EXCEPT ![c] = PermitFrom(breaker)]
  /\ breaker' = Acquired(breaker)

\* record_success, record_failure or record_ignored: once for each permit.
Record(c, verdict) ==
  /\ permit[c] # "none"
  /\ breaker' = Recorded(breaker, permit[c], verdict)
  /\ permit' = [permit EXCEPT ![c] = "none"]

\* snapshot (and the acquire that is rejected) only refreshes the state.
Snapshot ==
  /\ breaker' = Refresh(breaker)
  /\ UNCHANGED permit

Tick ==
  /\ breaker.left > 0
  /\ breaker' = Ticked(breaker)
  /\ UNCHANGED permit

Finish(c) == \E verdict \in Verdicts : Record(c, verdict)

Next ==
  \/ \E c \in Calls : Acquire(c)
  \/ \E c \in Calls : Finish(c)
  \/ Snapshot
  \/ Tick

Safety == Init /\ [][Next]_vars

\* The clock runs, and every call records a verdict in the end: its operation
\* is bounded by the branch cutoff (RequestScheduler).  Calls need not arrive.
Fairness == WF_vars(Tick) /\ \A c \in Calls : WF_vars(Finish(c))

Spec == Safety /\ Fairness

----------------------------------------------------------------------------
ProbeHolders == {c \in Calls : permit[c] = "probe"}

\* The half-open circuit has exactly one probe: _probe_in_flight is set exactly
\* when some call holds a probe permit, no two calls hold one, and meanwhile
\* the circuit stays half-open, whatever the late calls of an earlier closed
\* period record.
SingleProbe ==
  /\ breaker.probe <=> ProbeHolders # {}
  /\ \A c, d \in ProbeHolders : c = d
  /\ breaker.probe => breaker.state = "half_open"

\* The counter agrees with the state: a closed circuit has strictly fewer
\* failures than trip it and no window; a circuit that is not closed has them
\* all, so that nothing recorded since it opened was counted.
CountMatchesState ==
  /\ breaker.state = "closed" <=> breaker.failures < Threshold
  /\ breaker.left > 0 => breaker.state = "open"

\* An open window lasts exactly as long as it was opened for: until it is over
\* no step leaves the open state, restarts the window or cuts it short, though
\* calls admitted before the trip keep recording successes and failures.
WindowUndisturbed ==
  [][breaker.left > 0 => /\ breaker'.state = "open"
                         /\ breaker'.left \in {breaker.left, breaker.left - 1}
                         /\ breaker'.failures = breaker.failures]_vars

\* A circuit never rejects for ever: time and again an acquire would be let
\* through.  A probe whose place were not given back on a cancellation or a
\* deadline would shut the backend out for the rest of the process.
NeverWedged == []<>~Rejects(breaker)

----------------------------------------------------------------------------
(* The contract: serving is closed, trial is half-open with its probe out. *)
Mode == CASE breaker.state = "closed" -> "serving"
          [] breaker.state # "closed" /\ breaker.probe -> "trial"
          [] OTHER -> "resting"

Standing(p) == CASE p = "none"  -> "out"
                 [] p = "plain" -> "in"
                 [] p = "probe" -> "trying"

Inside == [c \in Calls |-> Standing(permit[c])]

Contract == INSTANCE CircuitContract
              WITH Callers <- Calls, mode <- Mode, inside <- Inside

\* The breaker keeps its contract (CircuitContract): in particular only the
\* outcome of the one probe reopens the service, and a probe always ends.
KeepsContract == Contract!Spec
=============================================================================
