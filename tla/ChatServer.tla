----------------------------- MODULE ChatServer ------------------------------
(***************************************************************************)
(* The Quest service (oims/server.py): a ThreadingHTTPServer whose handler  *)
(* threads share one BoundedSemaphore(1), taken without blocking around     *)
(* run_collective_request.  A request of Requests is one client; a handler  *)
(* thread serves it, and when the thread has ended the client may send the  *)
(* next one.  Clients go away whenever they like.                           *)
(***************************************************************************)
EXTENDS Naturals

CONSTANT Requests   \* the clients that talk to the server

VARIABLES
    pc,         \* pc[r]: where the handler thread of r is
    input,      \* input[r]: what r sent
    sent,       \* sent[r]: the body that r announced has arrived, unread
    connected,  \* connected[r]: r still listens for its answer
    slot,       \* the value of inference_lock
    result,     \* result[r]: how the inference for r ended
    reply       \* reply[r]: the status r was answered with

vars == <<pc, input, sent, connected, slot, result, reply>>

(***************************************************************************)
(* What a client can send, as far as the handlers tell it apart: a GET, a   *)
(* POST refused for its path, its Content-Length header or its length, or a *)
(* POST of a body that is a chat request, that json.loads or                *)
(* normalize_request refuses with a ValueError, or that makes them raise    *)
(* something else: JSON that is not an object is a TypeError, an infinite   *)
(* max_tokens an OverflowError.                                             *)
(***************************************************************************)
Inputs == {"get", "path", "header", "length", "chat", "invalid", "unexpected"}
Posted == {"chat", "invalid", "unexpected"}

Places == {"new", "handle", "read", "acquire", "run", "except", "finally",
           "respond", "done"}

Statuses == {200, 400, 404, 413, 429, 503}
Results == {"none", "lawful", "unlawful", "raised"}
NoReply == 0
Lost == 1           \* an answer was written to a client that had gone

Init ==
    /\ pc = [r \in Requests |-> "new"]
    /\ input = [r \in Requests |-> "chat"]
    /\ sent = [r \in Requests |-> FALSE]
    /\ connected = [r \in Requests |-> TRUE]
    /\ slot = 1
    /\ result = [r \in Requests |-> "none"]
    /\ reply = [r \in Requests |-> NoReply]

TypeOK ==
    /\ pc \in [Requests -> Places]
    /\ input \in [Requests -> Inputs]
    /\ sent \in [Requests -> BOOLEAN]
    /\ connected \in [Requests -> BOOLEAN]
    /\ slot \in {0, 1}
    /\ result \in [Requests -> Results]
    /\ reply \in [Requests -> Statuses \cup {NoReply, Lost}]

GoTo(r, place) == pc' = [pc EXCEPT ![r] = place]

\* _json: the answer reaches a client that is still there.
Json(r, status) ==
    reply' = [reply EXCEPT ![r] = IF connected[r] THEN status ELSE Lost]

-----------------------------------------------------------------------------
(***************************************************************************)
(* The client                                                               *)
(***************************************************************************)

\* The request line and the headers are there; the body may be long in coming.
Connect(r) ==
    /\ pc[r] = "new"
    /\ \E i \in Inputs : input' = [input EXCEPT ![r] = i]
    /\ GoTo(r, "handle")
    /\ UNCHANGED <<sent, connected, slot, result, reply>>

\* The body arrives.  Nothing makes a client send it.
SendBody(r) ==
    /\ pc[r] = "read"
    /\ connected[r] /\ ~sent[r]
    /\ sent' = [sent EXCEPT ![r] = TRUE]
    /\ UNCHANGED <<pc, input, connected, slot, result, reply>>

Disconnect(r) ==
    /\ pc[r] \notin {"new", "done"}
    /\ connected[r]
    /\ connected' = [connected EXCEPT ![r] = FALSE]
    /\ UNCHANGED <<pc, input, sent, slot, result, reply>>

\* The thread is gone; the client may come back with another request.
NextRequest(r) ==
    /\ pc[r] = "done"
    /\ pc' = [pc EXCEPT ![r] = "new"]
    /\ input' = [input EXCEPT ![r] = "chat"]
    /\ connected' = [connected EXCEPT ![r] = TRUE]
    /\ result' = [result EXCEPT ![r] = "none"]
    /\ reply' = [reply EXCEPT ![r] = NoReply]
    /\ UNCHANGED <<sent, slot>>

-----------------------------------------------------------------------------
(***************************************************************************)
(* The handler thread                                                       *)
(***************************************************************************)

EarlyStatus == [path |-> 404, header |-> 400, length |-> 413]

\* do_GET reports health or 404, or the inspection of the weights raises;
\* do_POST looks at the path and the length.
Handle(r) ==
    /\ pc[r] = "handle"
    /\ \/ /\ input[r] = "get"
          /\ (\E status \in {200, 404} : Json(r, status)) \/ UNCHANGED reply
          /\ GoTo(r, "done")
       \/ /\ input[r] \in DOMAIN EarlyStatus
          /\ Json(r, EarlyStatus[input[r]])
          /\ GoTo(r, "done")
       \/ /\ input[r] \in Posted
          /\ GoTo(r, "read")
          /\ UNCHANGED reply
    /\ UNCHANGED <<input, sent, connected, slot, result>>

\* What rfile.read and json.loads make of the body: that of a client that has
\* gone is cut off, or the read raises the loss of the connection.
Body(r) == IF connected[r] THEN {input[r]} ELSE {input[r], "invalid", "unexpected"}

\* rfile.read waits, without a time limit, for the whole body or the end of the
\* connection.  Of what json.loads and normalize_request raise only ValueErrors
\* are caught: any other exception ends the thread unanswered.
ReadBody(r) ==
    /\ pc[r] = "read"
    /\ sent[r] \/ ~connected[r]
    /\ sent' = [sent EXCEPT ![r] = FALSE]
    /\ \E body \in Body(r) :
          \/ /\ body = "chat"
             /\ GoTo(r, "acquire")
             /\ UNCHANGED reply
          \/ /\ body = "invalid"
             /\ Json(r, 400)
             /\ GoTo(r, "done")
          \/ /\ body = "unexpected"
             /\ GoTo(r, "done")
             /\ UNCHANGED reply
    /\ UNCHANGED <<input, connected, slot, result>>

\* Fault: the slot is taken without asking whether it is free.
TakenAnyway(r) == TRUE

\* The semaphore has a unit left.
SlotFree(r) == slot > 0

\* Fault: a thread that finds the slot taken tries again.
TriesAgain(r) ==
    /\ GoTo(r, "acquire")
    /\ UNCHANGED reply

Busy(r) ==
    /\ Json(r, 429)
    /\ GoTo(r, "done")

\* acquire(blocking=False) takes the slot, or the client is told to retry.
Acquire(r) ==
    /\ pc[r] = "acquire"
    /\ \/ /\ SlotFree(r)
          /\ slot' = slot - 1
          /\ GoTo(r, "run")
          /\ UNCHANGED reply
       \/ /\ ~SlotFree(r)
          /\ Busy(r)
          /\ UNCHANGED slot
    /\ UNCHANGED <<input, sent, connected, result>>

\* The runner returns a response with a lawful or an unlawful result (an
\* unavailable backend, a collapse), or raises.
RunnerEnds(r) ==
    /\ pc[r] = "run"
    /\ \E outcome \in {"lawful", "unlawful", "raised"} :
          /\ result' = [result EXCEPT ![r] = outcome]
          /\ GoTo(r, IF outcome = "raised" THEN "except" ELSE "finally")
    /\ UNCHANGED <<input, sent, connected, slot, reply>>

\* The except clause answers while the slot is still held; if the client has
\* gone the write raises, and the finally clause runs all the same.
AnswerError(r) ==
    /\ pc[r] = "except"
    /\ Json(r, 503)
    /\ GoTo(r, "finally")
    /\ UNCHANGED <<input, sent, connected, slot, result>>

\* Fault: the slot is given back on the success path only.
ReleasedOnSuccess(r) == IF result[r] = "raised" THEN slot ELSE slot + 1

\* inference_lock.release()
Released(r) == slot + 1

\* Fault: the except clause falls through to the answer of the success path.
AlwaysResponds(r) == "respond"

\* The return of the except clause takes effect after the finally clause.
AfterFinally(r) == IF result[r] = "raised" THEN "done" ELSE "respond"

Finally(r) ==
    /\ pc[r] = "finally"
    /\ slot' = Released(r)
    /\ GoTo(r, AfterFinally(r))
    /\ UNCHANGED <<input, sent, connected, result, reply>>

\* Fault: whatever the runner returned is a success.
AlwaysOK(r) == 200

ResultStatus(r) == IF result[r] = "lawful" THEN 200 ELSE 503

Respond(r) ==
    /\ pc[r] = "respond"
    /\ Json(r, ResultStatus(r))
    /\ GoTo(r, "done")
    /\ UNCHANGED <<input, sent, connected, slot, result>>

ThreadStep(r) ==
    \/ Handle(r)
    \/ ReadBody(r)
    \/ Acquire(r)
    \/ RunnerEnds(r)
    \/ AnswerError(r)
    \/ Finally(r)
    \/ Respond(r)

ClientStep(r) == Connect(r) \/ SendBody(r) \/ Disconnect(r) \/ NextRequest(r)

Next == \E r \in Requests : ClientStep(r) \/ ThreadStep(r)

Spec == Init /\ [][Next]_vars

\* A thread that can move is scheduled again and again.  Not assumed: that a
\* client sends the body it announced (ReadBody waits for it), that a runner
\* ends, and that a client takes the response of the runner from its socket
\* (Respond writes it).  The other answers are short and fit the send buffer.
Fairness ==
    \A r \in Requests :
        WF_vars(Handle(r) \/ ReadBody(r) \/ Acquire(r) \/ AnswerError(r) \/ Finally(r))

FairSpec == Spec /\ Fairness

-----------------------------------------------------------------------------
(***************************************************************************)
(* Properties                                                               *)
(***************************************************************************)

\* The threads between acquire and release.
Holds(r) == pc[r] \in {"run", "except", "finally"}

\* The semaphore counts the threads that hold it: at most one does, and the
\* slot is free exactly when none does, whatever exceptions and disconnections
\* happened before.  A leaked slot would answer 429 for ever.
SlotAccounting ==
    /\ slot = 1 <=> \A r \in Requests : ~Holds(r)
    /\ \A r, s \in Requests : Holds(r) /\ Holds(s) => r = s

\* A client that stayed is told what happened to its request: 200 exactly for a
\* lawful inference, 503 for any other, no inference behind 4xx, and no answer
\* at all only for a body that normalize_request did not expect.
AnswerTellsResult ==
    \A r \in Requests :
        (pc[r] = "done" /\ connected[r] /\ input[r] # "get") =>
            /\ reply[r] = 200 <=> result[r] = "lawful"
            /\ reply[r] = 503 <=> result[r] \in {"unlawful", "raised"}
            /\ reply[r] = NoReply <=> input[r] = "unexpected"

\* Every request gets at most one status line: once an answer has been written
\* it stays the answer until the client sends another request.
AnsweredOnce ==
    [][\A r \in Requests : reply[r] # NoReply /\ reply'[r] # reply[r] => pc[r] = "done"]_vars

\* Nobody is told the model is busy unless another request holds it then.
BusyOnlyBehindAnother ==
    [][\A r \in Requests : (reply[r] # 429 /\ reply'[r] = 429) =>
          \E s \in Requests \ {r} : Holds(s)]_vars

\* A thread waits for nobody but its own client and its own inference: if that
\* client sends its body and takes the response, and that inference ends, then
\* the thread ends, though other clients never send theirs and another
\* inference holds the model for ever.
ThreadsEnd ==
    \A r \in Requests :
        WF_vars(SendBody(r) \/ Respond(r)) /\ WF_vars(RunnerEnds(r)) =>
            (pc[r] = "handle" ~> pc[r] = "done")

\* The comment on do_POST's except clause: the HTTP trust boundary normalises
\* errors, so whoever posted and stayed has an answer when the thread has ended.
EveryClientAnswered ==
    \A r \in Requests :
        (pc[r] = "done" /\ connected[r] /\ input[r] # "get") => reply[r] # NoReply

\* How far SerializedInference sees a request of this server to be.
PhaseOf(r) ==
    IF pc[r] = "run" THEN "inferring"
    ELSE IF pc[r] \in {"except", "finally", "respond"} THEN "inferred"
    ELSE IF pc[r] = "done" THEN "closed" ELSE "open"

Serialized == INSTANCE SerializedInference WITH phase <- [r \in Requests |-> PhaseOf(r)]

\* The server implements SerializedInference.
ImplementsSerialized == Serialized!Spec
=============================================================================
