----------------------------- MODULE CircuitOps -----------------------------
(***************************************************************************)
(* One circuit breaker as a value: the state of a CircuitBreaker object    *)
(* (scheduler/states.py) and what each of its methods does to it.  Every   *)
(* method body runs under an asyncio.Lock and contains no await, so on the *)
(* event loop it is one indivisible step; this module gives those steps as *)
(* functions from breaker to breaker, for CircuitBreaker (one breaker and  *)
(* its callers) and RequestScheduler (one breaker for each branch).        *)
(*                                                                         *)
(* The clock is only ever compared with _open_until_ns, so a breaker keeps *)
(* the time that is left of its open window: `left`, counted down by the   *)
(* clock and 0 once now_ns() >= _open_until_ns.                            *)
(***************************************************************************)
EXTENDS Naturals

CONSTANTS
  Threshold,   \* failure_threshold: counted failures that open the circuit
  OpenTicks    \* open_seconds, in ticks of the modelled clock

\* The constructor rejects limits that are not positive (states.py:193).
ASSUME CircuitLimits == Threshold \in Nat \ {0} /\ OpenTicks \in Nat \ {0}

CircuitState == {"closed", "open", "half_open"}

Breakers == [state    : CircuitState,
             failures : 0 .. Threshold,   \* _failures
             left     : 0 .. OpenTicks,   \* _open_until_ns - now_ns(), at least 0
             probe    : BOOLEAN]          \* _probe_in_flight

\* CircuitPermit.half_open_probe; "none" is the caller that holds no permit.
Permits == {"none", "plain", "probe"}

NewBreaker == [state |-> "closed", failures |-> 0, left |-> 0, probe |-> FALSE]

----------------------------------------------------------------------------
(* Faulty variants of the operators below, one for each property of the     *)
(* breaker: a run with the variant in place of the operator must fail.      *)

\* The probe is let in without being marked as in flight.
AcquiredUnmarked(b) ==
  IF b.state = "open" /\ b.left = 0 THEN [b EXCEPT !.state = "half_open"] ELSE b

\* Any success closes the circuit, also one admitted before it opened.
RecordedStaleSuccess(b, permit) ==
  [b EXCEPT !.state = "closed", !.failures = 0, !.left = 0, !.probe = @ /\ permit # "probe"]

\* A probe closes the circuit and keeps the old failures.
RecordedSuccessNoReset(b, permit) ==
  IF permit = "probe" \/ b.state = "closed"
  THEN [b EXCEPT !.state = "closed", !.left = 0, !.probe = @ /\ permit # "probe"]
  ELSE b

\* The failure of a call admitted before the trip opens a new window.
RecordedStaleFailure(b, permit) ==
  IF permit = "probe" \/ b.failures + 1 >= Threshold
  THEN [b EXCEPT !.probe = @ /\ permit # "probe", !.state = "open", !.left = OpenTicks,
                 !.failures = Threshold]
  ELSE [b EXCEPT !.failures = @ + 1]

\* A cancelled probe keeps its place.
RecordedIgnoredLeak(b, permit) == b

----------------------------------------------------------------------------
\* _refresh: an open circuit whose window has passed becomes half-open.
Refresh(b) ==
  IF b.state = "open" /\ b.left = 0 THEN [b EXCEPT !.state = "half_open"] ELSE b

\* _open: a new window starts now.
Opened(b) == [b EXCEPT !.state = "open", !.left = OpenTicks]

\* acquire raises CircuitOpenError ...
Rejects(b) ==
  LET r == Refresh(b) IN r.state = "open" \/ (r.state = "half_open" /\ r.probe)

\* ... or returns a permit, which is the probe when the circuit is half-open.
PermitFrom(b) == IF Refresh(b).state = "half_open" THEN "probe" ELSE "plain"

Acquired(b) ==
  LET r == Refresh(b) IN IF r.state = "half_open" THEN [r EXCEPT !.probe = TRUE] ELSE r

\* record_success: a probe closes the circuit; the success of a plain permit
\* counts only while the circuit is still closed.
RecordedSuccess(b, permit) ==
  LET cleared == [b EXCEPT !.state = "closed", !.failures = 0, !.left = 0]
  IN  CASE permit = "probe"                       -> [cleared EXCEPT !.probe = FALSE]
        [] permit = "plain" /\ b.state = "closed" -> cleared
        [] permit = "plain" /\ b.state # "closed" -> b

\* record_failure: a probe opens a new window; the failure of a plain permit
\* counts only while the circuit is closed, and the Threshold-th opens it.
RecordedFailure(b, permit) ==
  LET counted == [b EXCEPT !.failures = @ + 1]
  IN  CASE permit = "probe"                       -> Opened([b EXCEPT !.probe = FALSE])
        [] permit = "plain" /\ b.state = "closed" ->
             IF counted.failures >= Threshold THEN Opened(counted) ELSE counted
        [] permit = "plain" /\ b.state # "closed" -> b

\* record_ignored: the outcome says nothing of the backend.  A probe gives its
\* place back: the circuit is open with a window that ends at once.
RecordedIgnored(b, permit) ==
  IF permit = "probe" THEN [b EXCEPT !.probe = FALSE, !.state = "open", !.left = 0] ELSE b

Verdicts == {"success", "failure", "ignored"}

Recorded(b, permit, verdict) ==
  CASE verdict = "success" -> RecordedSuccess(b, permit)
    [] verdict = "failure" -> RecordedFailure(b, permit)
    [] verdict = "ignored" -> RecordedIgnored(b, permit)

\* The clock passes one tick of the open window.
Ticked(b) == [b EXCEPT !.left = IF @ > 0 THEN @ - 1 ELSE 0]
=============================================================================
