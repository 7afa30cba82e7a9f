-------------------------- MODULE CollectiveService --------------------------
(***************************************************************************)
(* The CollectiveOS service (oims/service.py): a FastAPI application on one *)
(* asyncio event loop.  OIMSServiceRuntime.execute holds an asyncio.Lock    *)
(* around run_collective_request, which it runs on a thread of the loop's   *)
(* default executor; /health runs its diagnostics on the same executor.  An *)
(* action of this module is what one task does between two awaits.          *)
(*                                                                         *)
(* The lock, the executor and FastAPI's order of checks are libraries: they *)
(* are modelled as service.py uses them.                                    *)
(***************************************************************************)
EXTENDS Naturals, SequencesExt

CONSTANTS
    Requests,   \* the clients that talk to the service
    Workers     \* threads of the executor: min(32, cpu_count + 4)

ASSUME WorkersAssumption == Workers \in Nat /\ Workers >= 2

VARIABLES
    pc,         \* pc[r]: where the task of request r is
    input,      \* input[r]: what r sent
    locked,     \* _inference_lock is held
    waiters,    \* the requests queued on _inference_lock, in order
    pool,       \* the work items no thread of the executor has taken yet
    result,     \* result[r]: how run_collective_request ended for r
    reply       \* reply[r]: the status r was answered with

vars == <<pc, input, locked, waiters, pool, result, reply>>

\* What the service tells apart: GET /health; a POST whose body is not JSON;
\* one whose Authorization header is wrong, or not ASCII (which
\* compare_digest refuses with a TypeError); one that fails the field
\* constraints of CollectiveServiceRequest; and one that is in order.
Inputs == {"health", "notJson", "badToken", "nonAscii", "badFields", "request"}

Places == {"new", "arrived", "checking", "waiting", "woken", "queued", "thread",
           "resume", "probeQueued", "probing", "done"}

\* A lawful or unlawful response; AgentManifestError or CollectiveRequestError;
\* OSError, RuntimeError or another ValueError; any other exception.
Endings == {"lawful", "unlawful", "rejected", "failed", "unexpected"}
Results == Endings \cup {"none"}

NoReply == 0
Statuses == {200, 401, 422, 500, 503}

Init ==
    /\ pc = [r \in Requests |-> "new"]
    /\ input = [r \in Requests |-> "request"]
    /\ locked = FALSE
    /\ waiters = <<>>
    /\ pool = <<>>
    /\ result = [r \in Requests |-> "none"]
    /\ reply = [r \in Requests |-> NoReply]

TypeOK ==
    /\ pc \in [Requests -> Places]
    /\ input \in [Requests -> Inputs]
    /\ locked \in BOOLEAN
    /\ waiters \in Seq(Requests)
    /\ pool \in Seq(Requests)
    /\ result \in [Requests -> Results]
    /\ reply \in [Requests -> Statuses \cup {NoReply}]

GoTo(r, place) == pc' = [pc EXCEPT ![r] = place]
Answer(r, status) == reply' = [reply EXCEPT ![r] = status] /\ GoTo(r, "done")

-----------------------------------------------------------------------------
(***************************************************************************)
(* The client                                                               *)
(***************************************************************************)

Arrive(r) ==
    /\ pc[r] = "new"
    /\ \E i \in Inputs : input' = [input EXCEPT ![r] = i]
    /\ GoTo(r, "arrived")
    /\ UNCHANGED <<locked, waiters, pool, result, reply>>

NextRequest(r) ==
    /\ pc[r] = "done"
    /\ GoTo(r, "new")
    /\ input' = [input EXCEPT ![r] = "request"]
    /\ result' = [result EXCEPT ![r] = "none"]
    /\ reply' = [reply EXCEPT ![r] = NoReply]
    /\ UNCHANGED <<locked, waiters, pool>>

-----------------------------------------------------------------------------
(***************************************************************************)
(* The executor                                                             *)
(***************************************************************************)

ThreadFree(busy) == busy < Workers

AtWork(r) == pc[r] \in {"thread", "probing"}

\* The number of threads that are executing a work item.
Busy == Cardinality({r \in Requests : AtWork(r)})

\* A free thread takes the oldest work item.
TakeWork(r) ==
    /\ pool # <<>>
    /\ r = Head(pool)
    /\ ThreadFree(Busy)
    /\ pool' = Tail(pool)
    /\ GoTo(r, IF pc[r] = "queued" THEN "thread" ELSE "probing")
    /\ UNCHANGED <<input, locked, waiters, result, reply>>

-----------------------------------------------------------------------------
(***************************************************************************)
(* The tasks of the event loop                                              *)
(***************************************************************************)

\* FastAPI parses the body before it resolves the dependencies of the route.
Route(r) ==
    /\ pc[r] = "arrived"
    /\ \/ /\ input[r] = "health"
          /\ pool' = Append(pool, r)
          /\ GoTo(r, "probeQueued")
          /\ UNCHANGED reply
       \/ /\ input[r] = "notJson"
          /\ Answer(r, 422)
          /\ UNCHANGED pool
       \/ /\ input[r] \notin {"health", "notJson"}
          /\ GoTo(r, "checking")
          /\ UNCHANGED <<pool, reply>>
    /\ UNCHANGED <<input, locked, waiters, result>>

RefusedStatus == [badToken |-> 401, nonAscii |-> 500, badFields |-> 422]

\* Fault: execute calls to_thread without the lock.
NoLock == TRUE

\* Fault: a flag in place of the lock, free whenever no task has it set.
FreeWhenUnlocked == ~locked

\* "async with" of an asyncio.Lock enters at once only if nobody is waiting either.
LockFree == ~locked /\ waiters = <<>>

\* require_service_token and the field constraints, then execute: the lock is
\* taken and the thread requested, or the task waits in the queue of the lock.
Endpoint(r) ==
    /\ pc[r] = "checking"
    /\ \/ /\ input[r] \in DOMAIN RefusedStatus
          /\ Answer(r, RefusedStatus[input[r]])
          /\ UNCHANGED <<locked, waiters, pool>>
       \/ /\ input[r] = "request"
          /\ LockFree
          /\ locked' = TRUE
          /\ pool' = Append(pool, r)
          /\ GoTo(r, "queued")
          /\ UNCHANGED <<waiters, reply>>
       \/ /\ input[r] = "request"
          /\ ~LockFree
          /\ waiters' = Append(waiters, r)
          /\ GoTo(r, "waiting")
          /\ UNCHANGED <<locked, pool, reply>>
    /\ UNCHANGED <<input, result>>

\* The task whose future release() set: it leaves the queue and takes the lock.
WokenTakesLock(r) ==
    /\ pc[r] = "woken"
    /\ waiters' = RemoveFirst(waiters, r)
    /\ locked' = TRUE
    /\ pool' = Append(pool, r)
    /\ GoTo(r, "queued")
    /\ UNCHANGED <<input, result, reply>>

\* run_collective_request returns or raises on its thread.
RunnerEnds(r) ==
    /\ pc[r] = "thread"
    /\ \E e \in Endings : result' = [result EXCEPT ![r] = e]
    /\ GoTo(r, "resume")
    /\ UNCHANGED <<input, locked, waiters, pool, reply>>

\* Fault: acquire() and release() in place of "async with": an exception leaves
\* the lock held.
HeldAfterError(r) == result[r] \notin {"lawful", "unlawful"}

\* The lock after "async with" has been left by r.
LockedAfter(r) == FALSE

\* release() sets the future of the first waiter.
Woken == IF waiters = <<>> THEN {} ELSE {Head(waiters)}

\* Fault: a failed execution is a bad gateway.
BadGateway(e) == IF e = "failed" THEN 502 ELSE 200

\* What collective() makes of it; FastAPI turns other exceptions into a 500.
StatusOf(e) ==
    [lawful |-> 200, unlawful |-> 200, rejected |-> 422, failed |-> 503, unexpected |-> 500][e]

\* The task resumes after to_thread: it leaves the lock and answers.
Resume(r) ==
    /\ pc[r] = "resume"
    /\ locked' = LockedAfter(r)
    /\ reply' = [reply EXCEPT ![r] = StatusOf(result[r])]
    /\ pc' = [q \in Requests |-> IF q = r THEN "done"
                                 ELSE IF q \in Woken THEN "woken" ELSE pc[q]]
    /\ UNCHANGED <<input, waiters, pool, result>>

\* run_diagnostics ends: health answers, or FastAPI does with a 500.
ProbeEnds(r) ==
    /\ pc[r] = "probing"
    /\ \E status \in {200, 500} : Answer(r, status)
    /\ UNCHANGED <<input, locked, waiters, pool, result>>

\* The steps of the loop and of the executor; the inference itself is apart.
TaskStep(r) ==
    \/ Route(r)
    \/ Endpoint(r)
    \/ WokenTakesLock(r)
    \/ TakeWork(r)
    \/ Resume(r)
    \/ ProbeEnds(r)

Next == \E r \in Requests : Arrive(r) \/ NextRequest(r) \/ TaskStep(r) \/ RunnerEnds(r)

Spec == Init /\ [][Next]_vars

\* The loop runs every ready task, the executor's threads take every item and
\* the diagnostics end.  An inference need not: nothing can cancel it.
Fairness == \A r \in Requests : WF_vars(TaskStep(r))

FairSpec == Spec /\ Fairness

-----------------------------------------------------------------------------
(***************************************************************************)
(* Properties                                                               *)
(***************************************************************************)

\* The tasks inside "async with self._inference_lock".
Holds(r) == pc[r] \in {"queued", "thread", "resume"}

\* The lock is held exactly while one task is inside its body, its queue holds
\* exactly the tasks that wait for it, once each, and a free lock with tasks in
\* its queue has woken the first of them: no wakeup is lost.
LockDiscipline ==
    /\ locked <=> \E r \in Requests : Holds(r)
    /\ \A r, s \in Requests : Holds(r) /\ Holds(s) => r = s
    /\ ToSet(waiters) = {r \in Requests : pc[r] \in {"waiting", "woken"}}
    /\ \A i, j \in DOMAIN waiters : waiters[i] = waiters[j] => i = j
    /\ \A r \in Requests : pc[r] = "woken" => ~locked /\ r = Head(waiters)
    /\ ~locked /\ waiters # <<>> => pc[Head(waiters)] = "woken"

\* Requests execute in the order in which they reached the lock: nobody gets it
\* past a request that was waiting for it already.
NoOvertaking ==
    [][\A r \in Requests : (~Holds(r) /\ Holds(r)' /\ waiters # <<>>) => r = Head(waiters)]_vars

\* /health answers although an inference may never end: a thread is left for it.
HealthDuringInference ==
    \A r \in Requests : pc[r] = "probeQueued" ~> pc[r] = "done"

\* If every inference ends, every request that waits for the lock is served.
NoStarvation ==
    (\A r \in Requests : pc[r] = "thread" ~> pc[r] = "resume")
        => (\A r \in Requests : pc[r] = "waiting" ~> pc[r] = "done")

\* How far SerializedInference sees a request of this service to be.
PhaseOf(r) ==
    IF pc[r] = "thread" THEN "inferring"
    ELSE IF pc[r] = "resume" THEN "inferred"
    ELSE IF pc[r] = "done" THEN "closed" ELSE "open"

Serialized == INSTANCE SerializedInference WITH phase <- [r \in Requests |-> PhaseOf(r)]

\* The service implements SerializedInference.
ImplementsSerialized == Serialized!Spec
=============================================================================
