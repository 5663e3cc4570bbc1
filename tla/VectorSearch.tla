---------------------------- MODULE VectorSearch ----------------------------
(***************************************************************************)
(* The vector searches of the serving process (backends/vector/qdrant.py): *)
(* QdrantVectorBackend.search with _within_deadline, the cached validation *)
(* of the served collection, and the operations that a cutoff leaves       *)
(* running.                                                                *)
(*                                                                         *)
(* A search is one branch of a request.  It awaits an operation of its     *)
(* own, which is a task; the task talks to Qdrant over a pool of           *)
(* connections, and one that is cancelled while it connects takes its      *)
(* place in the pool away for good (docstring of _within_deadline).        *)
(***************************************************************************)
EXTENDS Naturals, Sequences, FiniteSets, SequencesExt

CONSTANTS
  Searches,        \* the places of searches that run at one time
  Tasks,           \* names of operations, used again when they have ended: the bound
                   \* on how many there are at one time
  MaxAbandoned,    \* _MAX_ABANDONED_BACKEND_TASKS
  PoolSize         \* connections of the client

ASSUME SearchLimits ==
  IsFiniteSet(Searches) /\ MaxAbandoned \in Nat \ {0} /\ PoolSize \in Nat \ {0}

VARIABLES
  store,        \* the served collection: complete, bare (without indexes) or absent
  validated,    \* whether the version is in _validated_versions
  search,       \* search[s]: what it awaits
  cut,          \* cut[s]: its branch cutoff has passed
  task,         \* task[t]: the operation, and by whom it was cancelled
  inflight,     \* the operations left running, oldest first
  leaked        \* places of the pool that are gone

vars == <<store, validated, search, cut, task, inflight, leaked>>

Outcomes == {"none", "ok", "unavailable", "inconsistent", "timeout"}

Operations ==
  [kind : {"require", "query"}, at : {"new", "waiting", "connecting", "sent", "ended"},
   outcome : Outcomes, cancelled : {"no", "disconnect", "deadline", "evicted"}]

\* A name that is free is that of an operation that has ended.
Ended == [kind |-> "query", at |-> "ended", outcome |-> "none", cancelled |-> "no"]

Idle == [at |-> "idle"]
Awaiting == [at : {"require", "query"}, task : Tasks]

\* The states of the searches, the operations and the client.
TypeOK ==
  /\ store \in {"complete", "bare", "absent"}
  /\ validated \in BOOLEAN
  /\ search \in [Searches -> Awaiting \cup {Idle}]
  /\ cut \in [Searches -> BOOLEAN]
  /\ task \in [Tasks -> Operations]
  /\ inflight \in Seq(Tasks)
  /\ leaked \in 0 .. PoolSize

\* The engine has verified the stage before it serves (build_baseline_search_engine).
Init ==
  /\ store = "complete" /\ validated = TRUE
  /\ search = [s \in Searches |-> Idle]
  /\ cut = [s \in Searches |-> FALSE]
  /\ task = [t \in Tasks |-> Ended]
  /\ inflight = <<>>
  /\ leaked = 0

Running(t) == task[t].at # "ended"

\* A cancellation of an operation that has ended does nothing.
Cancelled(op, cause) == IF op.at = "ended" THEN op ELSE [op EXCEPT !.cancelled = cause]

----------------------------------------------------------------------------
(* The searches.                                                            *)

Fails(s) == search' = [search EXCEPT ![s] = Idle]

\* With what s awaited, which has ended, out of the way.
Collected(s) == IF search[s] = Idle THEN task ELSE [task EXCEPT ![search[s].task] = Ended]
Gives(s) == Fails(s) /\ task' = Collected(s) /\ UNCHANGED inflight

\* A name no operation goes by, in the list of those left running either.
Free == {t \in Tasks : /\ task[t] = Ended /\ t \notin Range(inflight)
                       /\ \A s \in Searches : search[s] # Idle => search[s].task # t}

\* A new task for s; of the operations left running the last few are kept.
Launches(s, kind, kept) ==
  LET oldest == Len(inflight) - kept IN
  \E new \in Free :
    /\ inflight' = SubSeq(inflight, oldest + 1, Len(inflight))
    /\ task' = [t \in Tasks |->
         IF t = new THEN [Ended EXCEPT !.kind = kind, !.at = "new"]
         ELSE IF \E i \in 1 .. oldest : inflight[i] = t THEN Cancelled(task[t], "evicted")
         ELSE Collected(s)[t]]
    /\ search' = [search EXCEPT ![s] = [at |-> kind, task |-> new]]

Kept == IF Len(inflight) < MaxAbandoned THEN Len(inflight) ELSE MaxAbandoned - 1

\* Launch that does not look at what remains of the time.
LaunchLate(s, kind, late) == Launches(s, kind, Kept)

\* Launch that makes no room.
LaunchMore(s, kind, late) ==
  IF late THEN Gives(s) ELSE Launches(s, kind, Len(inflight))

\* _within_deadline up to its await: nothing is begun after the cutoff; the
\* oldest of the operations left running make room; the new one is a task.
Launch(s, kind, late) == IF late THEN Gives(s) ELSE Launches(s, kind, Kept)

\* search, with a deadline of its own; execute_vector_search has looked at it.
Begin(s) ==
  /\ search[s] = Idle
  /\ cut' = [cut EXCEPT ![s] = FALSE]
  /\ Launch(s, "require", FALSE)
  /\ UNCHANGED <<store, validated, leaked>>

\* RETRYABLE_BY_ERROR of the code that an outcome is raised with.
Retryable(outcome) == outcome \in {"unavailable", "timeout"}

\* The operation has ended: on to the query, or the answer, or the error.
Resumes(s) ==
  LET done == search[s].task
      outcome == task[done].outcome IN
  /\ search[s] # Idle /\ ~Running(done)
  /\ validated' = (validated /\ ~(outcome = "unavailable" /\ ~Retryable(outcome)))
  /\ IF outcome = "ok" /\ search[s].at = "require" THEN Launch(s, "query", cut[s])
     ELSE Gives(s)
  /\ UNCHANGED <<store, cut, leaked>>

\* asyncio.wait times out: the operation is left running.
TimesOut(s) ==
  /\ search[s] # Idle /\ cut[s] /\ Running(search[s].task)
  /\ inflight' = Append(inflight, search[s].task)
  /\ Fails(s)
  /\ UNCHANGED <<store, validated, cut, task, leaked>>

\* CancelBranch that forgets the operation.
CancelBranchAlone(s, cause) ==
  /\ search[s] # Idle
  /\ cause = "deadline" => cut[s]
  /\ Fails(s)
  /\ UNCHANGED <<store, validated, cut, task, inflight, leaked>>

\* The branch is cancelled: by a client that leaves or an engine that closes, or by
\* the scheduler, whose own timer is set for the same cutoff.
CancelBranch(s, cause) ==
  /\ search[s] # Idle
  /\ cause = "deadline" => cut[s]
  /\ task' = [task EXCEPT ![search[s].task] = IF @.at = "ended" THEN Ended ELSE Cancelled(@, cause)]
  /\ Fails(s)
  /\ UNCHANGED <<store, validated, cut, inflight, leaked>>

Cutoff(s) ==
  /\ search[s] # Idle /\ ~cut[s]
  /\ cut' = [cut EXCEPT ![s] = TRUE]
  /\ UNCHANGED <<store, validated, search, task, inflight, leaked>>

----------------------------------------------------------------------------
(* The operations.                                                          *)

Proceeds(t) == task[t].cancelled = "no"

Waiters(t) == {s \in Searches : search[s] # Idle /\ search[s].task = t}

\* An outcome that nobody awaits is thrown away (_consume_finished_task).
Ends(t, outcome) ==
  task' = [task EXCEPT ![t] =
             [Ended EXCEPT !.outcome = IF Waiters(t) = {} THEN "none" ELSE outcome]]

\* Its first turn: a version that has been validated is not asked for.
FirstTurn(t) ==
  /\ task[t].at = "new" /\ Proceeds(t)
  /\ IF task[t].kind = "require" /\ validated THEN Ends(t, "ok")
     ELSE task' = [task EXCEPT ![t].at = "waiting"]
  /\ UNCHANGED <<store, validated, search, cut, inflight, leaked>>

\* A place of the pool: with a connection in it, or one to be made.
Busy == {t \in Tasks : task[t].at \in {"connecting", "sent"}}

TakesPlace(t) ==
  /\ task[t].at = "waiting" /\ Proceeds(t)
  /\ Cardinality(Busy) + leaked < PoolSize
  /\ \E at \in {"connecting", "sent"} : task' = [task EXCEPT ![t].at = at]
  /\ UNCHANGED <<store, validated, search, cut, inflight, leaked>>

Connects(t) ==
  /\ task[t].at = "connecting" /\ Proceeds(t)
  /\ task' = [task EXCEPT ![t].at = "sent"]
  /\ UNCHANGED <<store, validated, search, cut, inflight, leaked>>

\* Qdrant answers.  A query does not look at the shape of the collection; that
\* a version is valid is remembered by an operation nobody awaits as well.
AnswerOf(kind) ==
  IF store = "absent" THEN "unavailable"
  ELSE IF store = "bare" /\ kind = "require" THEN "inconsistent" ELSE "ok"
Answers(t) ==
  LET outcome == AnswerOf(task[t].kind) IN
  /\ task[t].at = "sent" /\ Proceeds(t)
  /\ Ends(t, outcome)
  /\ validated' = (validated \/ (task[t].kind = "require" /\ outcome = "ok"))
  /\ UNCHANGED <<store, search, cut, inflight, leaked>>

\* An error of the connection or the client's own timeout, in every phase.
Breaks(t) ==
  /\ task[t].at \in {"waiting", "connecting", "sent"} /\ Proceeds(t)
  /\ \E outcome \in {"unavailable", "timeout"} : Ends(t, outcome)
  /\ UNCHANGED <<store, validated, search, cut, inflight, leaked>>

\* The turn in which the cancellation arrives.
Unwinds(t) ==
  /\ Running(t) /\ ~Proceeds(t)
  /\ Ends(t, "none")
  /\ leaked' = leaked + (IF task[t].at = "connecting" THEN 1 ELSE 0)
  /\ UNCHANGED <<store, validated, search, cut, inflight>>

\* The collection is lost, and staged again.
StoreChanges ==
  /\ store' = (CASE store = "complete" -> "absent"
                 [] store = "absent" -> "bare"
                 [] store = "bare" -> "complete")
  /\ UNCHANGED <<validated, search, cut, task, inflight, leaked>>

SearchStep(s) ==
  \/ Begin(s) \/ Resumes(s) \/ TimesOut(s) \/ Cutoff(s)
  \/ CancelBranch(s, "disconnect") \/ CancelBranch(s, "deadline")

TaskStep(t) ==
  FirstTurn(t) \/ TakesPlace(t) \/ Connects(t) \/ Answers(t) \/ Breaks(t) \/ Unwinds(t)

Next ==
  \/ \E s \in Searches : SearchStep(s)
  \/ \E t \in Tasks : TaskStep(t)
  \/ StoreChanges

Spec == Init /\ [][Next]_vars

----------------------------------------------------------------------------
\* Every operation that runs is awaited by one search, or kept among those left
\* running, or on its way out; never two of these ("keep nothing dangling").
NothingDangles ==
  \A t \in Tasks : Running(t) =>
    Cardinality(Waiters(t)) + Cardinality({i \in DOMAIN inflight : inflight[i] = t})
      = IF Proceeds(t) THEN 1 ELSE 0

\* The limit is looked at before an operation is begun and may be passed when it
\* is left: by as many as there are searches at work, less one.
AbandonedBounded == Len(inflight) < MaxAbandoned + Cardinality(Searches)

\* No operation is begun for a search whose cutoff has passed: the query is not sent
\* when finding the collection took all the time (the look at remaining_seconds).
NoneAfterCutoff ==
  [][\A t \in Tasks : ~Running(t) /\ Running(t)' =>
       \E s \in Searches : search'[s] # Idle /\ search'[s].task = t /\ ~cut'[s]]_vars

\* "On deadline exhaustion the operation task is deliberately NOT cancelled"
\* (_within_deadline).
DeadlineDetaches == \A t \in Tasks : task[t].cancelled # "deadline"
=============================================================================
