-------------------------- MODULE ChatServerProofs --------------------------
(***************************************************************************)
(* Theorems about ChatServer, for any set of clients.                       *)
(***************************************************************************)
EXTENDS ChatServer, TLAPS

(***************************************************************************)
(* TypeOK and SlotAccounting are inductive together: the semaphore stays in *)
(* {0, 1} because a thread that releases it is one of the threads it counts *)
(* and a thread takes it only when it counts none.                          *)
(***************************************************************************)
SlotInv == TypeOK /\ SlotAccounting

LEMMA SlotInit == Init => SlotInv
BY DEF Init, SlotInv, TypeOK, SlotAccounting, Holds, Places, Inputs, Results, NoReply

\* The steps that neither take nor release the slot, and end no inference.
LEMMA SlotQuietStep ==
    ASSUME SlotInv, NEW r \in Requests,
           ClientStep(r) \/ Handle(r) \/ ReadBody(r)
               \/ AnswerError(r) \/ Respond(r) \/ RunnerEnds(r)
    PROVE  SlotInv'
<1> USE DEF SlotInv, TypeOK, SlotAccounting, Holds, Places, Inputs, Results, Statuses,
            NoReply, Lost, GoTo, Json
<1>1. CASE Connect(r)      BY <1>1 DEF Connect
<1>11. CASE SendBody(r)    BY <1>11 DEF SendBody
<1>2. CASE Disconnect(r)   BY <1>2 DEF Disconnect
<1>3. CASE NextRequest(r)  BY <1>3 DEF NextRequest
<1>4. CASE Handle(r)       BY <1>4 DEF Handle, EarlyStatus, Posted
<1>5. CASE ReadBody(r)     BY <1>5 DEF ReadBody, Body
<1>6. CASE AnswerError(r)  BY <1>6 DEF AnswerError
<1>7. CASE Respond(r)      BY <1>7 DEF Respond, ResultStatus
<1>8. CASE RunnerEnds(r)   BY <1>8 DEF RunnerEnds
<1> QED BY <1>1, <1>2, <1>3, <1>4, <1>5, <1>6, <1>7, <1>8, <1>11 DEF ClientStep

LEMMA SlotAcquire ==
    ASSUME SlotInv, NEW r \in Requests, Acquire(r)
    PROVE  SlotInv'
BY DEF SlotInv, TypeOK, SlotAccounting, Holds, Places, Statuses, NoReply, Lost, GoTo, Json,
       Acquire, SlotFree, Busy

LEMMA SlotFinally ==
    ASSUME SlotInv, NEW r \in Requests, Finally(r)
    PROVE  SlotInv'
<1>1. slot = 0
  BY DEF SlotInv, TypeOK, SlotAccounting, Holds, Finally
<1>2. \A s \in Requests : s # r => ~Holds(s)
  BY DEF SlotInv, SlotAccounting, Holds, Finally
<1> QED
  BY <1>1, <1>2 DEF SlotInv, TypeOK, SlotAccounting, Holds, Places, GoTo, Finally, Released,
                    AfterFinally

LEMMA SlotStep == SlotInv /\ [Next]_vars => SlotInv'
<1> SUFFICES ASSUME SlotInv, [Next]_vars PROVE SlotInv'
  OBVIOUS
<1>1. CASE UNCHANGED vars
  BY <1>1 DEF vars, SlotInv, TypeOK, SlotAccounting, Holds
<1>2. CASE Next
  BY <1>2, SlotQuietStep, SlotAcquire, SlotFinally DEF Next, ThreadStep
<1> QED BY <1>1, <1>2

\* The semaphore counts the threads that hold it, at most one, whatever
\* exceptions and disconnections there were (server.py, lines 111 to 127).
THEOREM SlotSafety == Spec => [](TypeOK /\ SlotAccounting)
<1>1. SlotInv => TypeOK /\ SlotAccounting
  BY DEF SlotInv
<1> QED BY <1>1, SlotInit, SlotStep, PTL DEF Spec

-----------------------------------------------------------------------------
(***************************************************************************)
(* AnswerTellsResult speaks of threads that have ended.  Strengthened to    *)
(* every place a thread can be at, it says what is already decided there.   *)
(***************************************************************************)
Decided(r) ==
    /\ pc[r] \in {"new", "handle", "read", "acquire", "run"} => result[r] = "none"
    /\ pc[r] = "except" => result[r] = "raised"
    /\ pc[r] = "finally" => result[r] # "none"
    /\ pc[r] = "respond" => result[r] \in {"lawful", "unlawful"}

Unanswered(r) ==
    /\ pc[r] \notin {"finally", "done"} => reply[r] = NoReply
    /\ pc[r] = "finally" /\ result[r] # "raised" => reply[r] = NoReply
    /\ pc[r] = "finally" /\ result[r] = "raised" /\ connected[r] => reply[r] = 503

Admitted(r) ==
    /\ pc[r] = "read" => input[r] \in Posted
    /\ pc[r] \in {"acquire", "run", "except", "finally", "respond"} => input[r] = "chat"

Told(r) ==
    (pc[r] = "done" /\ connected[r] /\ input[r] # "get") =>
        /\ reply[r] = 200 <=> result[r] = "lawful"
        /\ reply[r] = 503 <=> result[r] \in {"unlawful", "raised"}
        /\ reply[r] = NoReply <=> input[r] = "unexpected"

AnswerInv ==
    /\ TypeOK
    /\ \A r \in Requests : Decided(r) /\ Unanswered(r) /\ Admitted(r) /\ Told(r)

LEMMA AnswerInit == Init => AnswerInv
BY SlotInit DEF Init, SlotInv, AnswerInv, Decided, Unanswered, Admitted, Told

\* A step of one thread leaves what the invariant says of the others alone.
LEMMA AnswerOthers ==
    ASSUME TypeOK, NEW r \in Requests, NEW s \in Requests, s # r,
           ClientStep(r) \/ ThreadStep(r),
           Decided(s) /\ Unanswered(s) /\ Admitted(s) /\ Told(s)
    PROVE  (Decided(s) /\ Unanswered(s) /\ Admitted(s) /\ Told(s))'
<1>1. /\ pc'[s] = pc[s] /\ input'[s] = input[s] /\ connected'[s] = connected[s]
      /\ result'[s] = result[s] /\ reply'[s] = reply[s]
  BY DEF TypeOK, ClientStep, Connect, SendBody, Disconnect, NextRequest, ThreadStep,
         Handle, ReadBody, Acquire,
         RunnerEnds, AnswerError, Finally, Respond, Busy, GoTo, Json
<1> QED BY <1>1 DEF Decided, Unanswered, Admitted, Told

LEMMA AnswerOwn ==
    ASSUME TypeOK, NEW r \in Requests,
           ClientStep(r) \/ ThreadStep(r),
           Decided(r) /\ Unanswered(r) /\ Admitted(r) /\ Told(r)
    PROVE  (Decided(r) /\ Unanswered(r) /\ Admitted(r) /\ Told(r))'
<1> USE DEF TypeOK, Decided, Unanswered, Admitted, Told, GoTo, Json, NoReply, Lost, Inputs,
            Results
<1>1. CASE Connect(r)      BY <1>1 DEF Connect
<1>11. CASE SendBody(r)    BY <1>11 DEF SendBody
<1>2. CASE Disconnect(r)   BY <1>2 DEF Disconnect
<1>3. CASE NextRequest(r)  BY <1>3 DEF NextRequest
<1>4. CASE Handle(r)       BY <1>4 DEF Handle, EarlyStatus, Posted
<1>5. CASE ReadBody(r)     BY <1>5 DEF ReadBody, Body, Posted
<1>6. CASE Acquire(r)      BY <1>6 DEF Acquire, SlotFree, Busy
<1>7. CASE RunnerEnds(r)   BY <1>7 DEF RunnerEnds
<1>8. CASE AnswerError(r)  BY <1>8 DEF AnswerError
<1>9. CASE Finally(r)      BY <1>9 DEF Finally, AfterFinally
<1>10. CASE Respond(r)     BY <1>10 DEF Respond, ResultStatus
<1> QED
  BY <1>1, <1>2, <1>3, <1>4, <1>5, <1>6, <1>7, <1>8, <1>9, <1>10, <1>11
  DEF ThreadStep, ClientStep

LEMMA AnswerStep == AnswerInv /\ TypeOK' /\ [Next]_vars => AnswerInv'
<1> SUFFICES ASSUME AnswerInv, TypeOK', [Next]_vars PROVE AnswerInv'
  OBVIOUS
<1>1. CASE UNCHANGED vars
  BY <1>1 DEF vars, AnswerInv, Decided, Unanswered, Admitted, Told
<1>2. CASE Next
  <2>1. PICK r \in Requests : ClientStep(r) \/ ThreadStep(r)
    BY <1>2 DEF Next
  <2>2. ASSUME NEW s \in Requests
        PROVE  (Decided(s) /\ Unanswered(s) /\ Admitted(s) /\ Told(s))'
    BY <2>1, AnswerOthers, AnswerOwn DEF AnswerInv
  <2> QED BY <2>2 DEF AnswerInv
<1> QED BY <1>1, <1>2

\* A client that stayed is told what happened to its request (server.py, lines
\* 89 to 133).
THEOREM AnswerSafety == Spec => []AnswerTellsResult
<1>1. AnswerInv => AnswerTellsResult
  BY DEF AnswerInv, AnswerTellsResult, Told
<1> QED BY <1>1, SlotSafety, AnswerInit, AnswerStep, PTL DEF Spec

\* A request gets one status line: the except clause answers and then nothing
\* else does (server.py, lines 120 to 133).
THEOREM AnsweredOnceSafety == Spec => AnsweredOnce
<1>1. AnswerInv /\ [Next]_vars
        => [\A r \in Requests : reply[r] # NoReply /\ reply'[r] # reply[r] => pc[r] = "done"]_vars
  <2> SUFFICES ASSUME AnswerInv, Next, NEW r \in Requests,
                      reply[r] # NoReply, reply'[r] # reply[r]
               PROVE  pc[r] = "done"
    OBVIOUS
  <2>1. PICK s \in Requests : ClientStep(s) \/ ThreadStep(s)
    BY DEF Next
  <2>2. s = r
    BY <2>1 DEF AnswerInv, TypeOK, ClientStep, Connect, SendBody, Disconnect,
                NextRequest, ThreadStep, Handle,
                ReadBody, Acquire, RunnerEnds, AnswerError, Finally, Respond, Busy, Json
  <2>3. pc[r] \in {"finally", "done"}
    BY DEF AnswerInv, Unanswered
  <2>4. pc[r] # "finally"
    BY <2>1, <2>2 DEF ClientStep, Connect, SendBody, Disconnect, NextRequest, ThreadStep,
                      Handle, ReadBody,
                      Acquire, RunnerEnds, AnswerError, Finally, Respond
  <2> QED BY <2>3, <2>4
<1> QED BY <1>1, SlotSafety, AnswerInit, AnswerStep, PTL DEF Spec, AnsweredOnce

\* 429 is never an answer to a request while nobody else holds the model
\* (server.py, lines 111 to 117).
THEOREM BusySafety == Spec => BusyOnlyBehindAnother
<1>1. SlotInv /\ [Next]_vars
        => [\A r \in Requests : (reply[r] # 429 /\ reply'[r] = 429) =>
               \E s \in Requests \ {r} : Holds(s)]_vars
  <2> SUFFICES ASSUME SlotInv, Next, NEW r \in Requests, reply[r] # 429, reply'[r] = 429
               PROVE  \E s \in Requests \ {r} : Holds(s)
    OBVIOUS
  <2>1. Acquire(r) /\ Busy(r)
    BY DEF Next, SlotInv, TypeOK, ClientStep, Connect, SendBody, Disconnect, NextRequest,
           ThreadStep, Handle,
           ReadBody, Acquire, RunnerEnds, AnswerError, Finally, Respond, ResultStatus,
           EarlyStatus, Busy, Json, NoReply, Lost, GoTo
  <2>2. slot # 1 /\ ~Holds(r)
    BY <2>1 DEF Acquire, SlotFree, Busy, GoTo, Holds, SlotInv, TypeOK
  <2> QED BY <2>2 DEF SlotInv, SlotAccounting
<1> QED BY <1>1, SlotInit, SlotStep, PTL DEF Spec, BusyOnlyBehindAnother

-----------------------------------------------------------------------------
(***************************************************************************)
(* The refinement of SerializedInference: a runner begins only when         *)
(* SlotAccounting says that no thread is between acquire and release.       *)
(***************************************************************************)

PhaseMap == [r \in Requests |-> PhaseOf(r)]

LEMMA RefinesInit == Init => Serialized!Init
BY DEF Init, Serialized!Init, PhaseOf

LEMMA PhaseUnchanged ==
    ASSUME NEW r \in Requests, PhaseOf(r)' = PhaseOf(r),
           \A s \in Requests \ {r} : pc'[s] = pc[s]
    PROVE  PhaseMap' = PhaseMap
BY DEF PhaseMap, PhaseOf

LEMMA PhaseMoves ==
    ASSUME NEW r \in Requests, NEW to, PhaseOf(r)' = to,
           \A s \in Requests \ {r} : pc'[s] = pc[s]
    PROVE  PhaseMap' = [PhaseMap EXCEPT ![r] = to]
BY DEF PhaseMap, PhaseOf

LEMMA OthersStay ==
    ASSUME TypeOK, NEW r \in Requests,
           ClientStep(r) \/ ThreadStep(r)
    PROVE  \A s \in Requests \ {r} : pc'[s] = pc[s]
BY DEF TypeOK, ClientStep, Connect, SendBody, Disconnect, NextRequest, ThreadStep,
       Handle, ReadBody, Acquire,
       RunnerEnds, AnswerError, Finally, Respond, Busy, GoTo

LEMMA RefinesStep == SlotInv /\ [Next]_vars => [Serialized!Next]_PhaseMap
<1> SUFFICES ASSUME SlotInv, [Next]_vars PROVE Serialized!Next \/ PhaseMap' = PhaseMap
  OBVIOUS
<1>1. CASE UNCHANGED vars
  BY <1>1 DEF vars, PhaseMap, PhaseOf
<1>2. CASE Next
  <2>1. PICK r \in Requests : ClientStep(r) \/ ThreadStep(r)
    BY <1>2 DEF Next
  <2>2. \A s \in Requests \ {r} : pc'[s] = pc[s]
    BY <2>1, OthersStay DEF SlotInv
  <2> USE DEF SlotInv, TypeOK, GoTo, PhaseOf
  <2>3. CASE Connect(r)
    BY <2>2, <2>3, PhaseUnchanged DEF Connect
  <2>11. CASE SendBody(r)
    BY <2>2, <2>11, PhaseUnchanged DEF SendBody
  <2>4. CASE Disconnect(r)
    BY <2>2, <2>4, PhaseUnchanged DEF Disconnect
  <2>5. CASE NextRequest(r)
    <3>1. PhaseOf(r) = "closed" /\ PhaseOf(r)' = "open"
      BY <2>5 DEF NextRequest
    <3> QED BY <3>1, <2>2, PhaseMoves
            DEF Serialized!Next, Serialized!Reopen, Serialized!Moves, PhaseMap
  <2>6. CASE Handle(r) \/ ReadBody(r)
    <3>1. PhaseOf(r) = "open" /\ PhaseOf(r)' \in {"open", "closed"}
      BY <2>6 DEF Handle, ReadBody
    <3> QED BY <3>1, <2>2, PhaseMoves, PhaseUnchanged
            DEF Serialized!Next, Serialized!Close, Serialized!Moves, PhaseMap
  <2>7. CASE Acquire(r)
    <3>1. PhaseOf(r) = "open"
      BY <2>7 DEF Acquire
    <3>2. CASE SlotFree(r)
      <4>1. PhaseOf(r)' = "inferring"
        BY <2>7, <3>2 DEF Acquire
      <4>2. \A s \in Requests : PhaseOf(s) # "inferring"
        BY <3>2 DEF SlotFree, SlotAccounting, Holds
      <4> QED BY <3>1, <4>1, <4>2, <2>2, PhaseMoves
              DEF Serialized!Next, Serialized!Begin, Serialized!Moves, PhaseMap
    <3>3. CASE ~SlotFree(r)
      <4>1. PhaseOf(r)' = "closed"
        BY <2>7, <3>3 DEF Acquire, Busy
      <4> QED BY <3>1, <4>1, <2>2, PhaseMoves
              DEF Serialized!Next, Serialized!Close, Serialized!Moves, PhaseMap
    <3> QED BY <3>2, <3>3
  <2>8. CASE RunnerEnds(r)
    <3>1. PhaseOf(r) = "inferring" /\ PhaseOf(r)' = "inferred"
      BY <2>8 DEF RunnerEnds
    <3> QED BY <3>1, <2>2, PhaseMoves
            DEF Serialized!Next, Serialized!Finish, Serialized!Moves, PhaseMap
  <2>9. CASE AnswerError(r)
    BY <2>2, <2>9, PhaseUnchanged DEF AnswerError
  <2>10. CASE Finally(r) \/ Respond(r)
    <3>1. PhaseOf(r) = "inferred" /\ PhaseOf(r)' \in {"inferred", "closed"}
      BY <2>10 DEF Finally, AfterFinally, Respond
    <3> QED BY <3>1, <2>2, PhaseMoves, PhaseUnchanged
            DEF Serialized!Next, Serialized!Close, Serialized!Moves, PhaseMap
  <2> QED
    BY <2>1, <2>3, <2>4, <2>5, <2>6, <2>7, <2>8, <2>9, <2>10, <2>11
    DEF ThreadStep, ClientStep
<1> QED BY <1>1, <1>2

\* The server serializes inference (COLLECTIVE_QUEST_API.md, line 13).
THEOREM SerializesInference == Spec => ImplementsSerialized
<1> QED
  BY SlotInit, SlotStep, RefinesInit, RefinesStep, PTL
  DEF Spec, ImplementsSerialized, Serialized!Spec, PhaseMap
=============================================================================
