----------------------- MODULE CollectiveServiceProofs -----------------------
(***************************************************************************)
(* Theorems about CollectiveService, for any number of clients and of       *)
(* threads.  The queue of the lock and that of the executor are sequences   *)
(* of requests that list nobody twice; what they hold is who waits.         *)
(***************************************************************************)
EXTENDS CollectiveService, TLAPS

-----------------------------------------------------------------------------
(***************************************************************************)
(* Queues: sequences that list nobody twice.                                *)
(***************************************************************************)
Distinct(seq) == \A i, j \in DOMAIN seq : seq[i] = seq[j] => i = j

LEMMA JoinsQueue ==
    ASSUME NEW S, NEW seq \in Seq(S), NEW e \in S
    PROVE  /\ Append(seq, e) \in Seq(S)
           /\ ToSet(Append(seq, e)) = ToSet(seq) \cup {e}
           /\ Distinct(seq) /\ e \notin ToSet(seq) => Distinct(Append(seq, e))
           /\ Append(seq, e) # <<>>
           /\ Head(Append(seq, e)) = IF seq = <<>> THEN e ELSE Head(seq)
<1> DEFINE longer == Append(seq, e)
<1>1. /\ longer \in Seq(S) /\ DOMAIN longer = 1 .. Len(seq) + 1 /\ DOMAIN seq = 1 .. Len(seq)
      /\ \A i \in 1 .. Len(seq) : longer[i] = seq[i]
      /\ longer[Len(seq) + 1] = e /\ Len(seq) \in Nat /\ Len(longer) = Len(seq) + 1
  OBVIOUS
<1> HIDE DEF longer
<1>2. ToSet(longer) = ToSet(seq) \cup {e}
  BY <1>1 DEF ToSet
<1>3. ASSUME Distinct(seq), e \notin ToSet(seq) PROVE Distinct(longer)
  BY <1>1, <1>3 DEF Distinct, ToSet
<1>4. longer # <<>>
  BY <1>1
<1>5. Head(longer) = IF seq = <<>> THEN e ELSE Head(seq)
  <2>1. seq = <<>> <=> Len(seq) = 0
    OBVIOUS
  <2>2. Head(longer) = longer[1] /\ (seq # <<>> => Head(seq) = seq[1])
    BY <1>1, <1>4
  <2> QED BY <1>1, <2>1, <2>2
<1> QED BY <1>1, <1>2, <1>3, <1>4, <1>5 DEF longer

LEMMA HeadLeaves ==
    ASSUME NEW S, NEW seq \in Seq(S), seq # <<>>, Distinct(seq)
    PROVE  /\ Head(seq) \in ToSet(seq) /\ Head(seq) \in S
           /\ Tail(seq) \in Seq(S)
           /\ ToSet(Tail(seq)) = ToSet(seq) \ {Head(seq)}
           /\ Distinct(Tail(seq))
<1> DEFINE rest == Tail(seq)
<1>1. /\ rest \in Seq(S) /\ DOMAIN rest = 1 .. Len(seq) - 1 /\ DOMAIN seq = 1 .. Len(seq)
      /\ \A i \in 1 .. Len(seq) - 1 : rest[i] = seq[i + 1]
      /\ Len(seq) \in Nat \ {0} /\ Head(seq) = seq[1]
  OBVIOUS
<1> HIDE DEF rest
<1>2. Head(seq) \in ToSet(seq)
  BY <1>1 DEF ToSet
<1>3. ToSet(rest) = ToSet(seq) \ {Head(seq)}
  <2>1. ASSUME NEW x \in ToSet(rest) PROVE x \in ToSet(seq) \ {Head(seq)}
    <3>1. PICK i \in 1 .. Len(seq) - 1 : x = seq[i + 1]
      BY <1>1 DEF ToSet
    <3>2. i + 1 \in DOMAIN seq /\ 1 \in DOMAIN seq /\ i + 1 # 1
      BY <1>1
    <3> QED BY <1>1, <3>1, <3>2 DEF ToSet, Distinct
  <2>2. ASSUME NEW x \in ToSet(seq) \ {Head(seq)} PROVE x \in ToSet(rest)
    <3>1. PICK j \in DOMAIN seq : x = seq[j]
      BY DEF ToSet
    <3>2. j # 1
      BY <1>1, <3>1
    <3>3. j - 1 \in 1 .. Len(seq) - 1 /\ (j - 1) + 1 = j
      BY <1>1, <3>2
    <3>4. x = rest[j - 1] /\ j - 1 \in DOMAIN rest
      BY <1>1, <3>1, <3>3
    <3> QED BY <3>4 DEF ToSet
  <2> QED BY <2>1, <2>2
<1>4. Distinct(rest)
  <2> SUFFICES ASSUME NEW i \in DOMAIN rest, NEW j \in DOMAIN rest, rest[i] = rest[j]
               PROVE  i = j
    BY DEF Distinct
  <2>1. seq[i + 1] = seq[j + 1] /\ i + 1 \in DOMAIN seq /\ j + 1 \in DOMAIN seq
    BY <1>1
  <2>2. i + 1 = j + 1
    BY <2>1 DEF Distinct
  <2> QED BY <1>1, <2>2
<1> QED BY <1>1, <1>2, <1>3, <1>4 DEF rest

(***************************************************************************)
(* Taking the first of a queue out of it leaves the rest.                   *)
(***************************************************************************)
LEMMA HeadRemoved ==
    ASSUME NEW S, NEW seq \in Seq(S), seq # <<>>
    PROVE  RemoveFirst(seq, Head(seq)) = Tail(seq)
<1> DEFINE e == Head(seq)
           I == {i \in 1 .. Len(seq) : seq[i] = e}
<1>1. 1 \in I /\ I \subseteq Nat /\ \A i \in I : 1 <= i
  OBVIOUS
<1>2. Min(I) = 1
  <2> HIDE DEF I
  <2>1. \E x \in I : \A y \in I : x <= y
    BY <1>1
  <2> DEFINE least == Min(I)
  <2>2. least \in I /\ \A y \in I : least <= y
    BY <2>1 DEF Min
  <2> HIDE DEF least
  <2>3. least = 1
    BY <1>1, <2>2
  <2> QED BY <2>3 DEF least
<1>3. SelectInSeq(seq, LAMBDA v : v = e) = 1
  BY <1>1, <1>2 DEF SelectInSeq
<1>4. RemoveFirst(seq, e) = RemoveAt(seq, 1)
  BY <1>1, <1>3 DEF RemoveFirst
<1>5. RemoveAt(seq, 1) = Tail(seq)
  <2>1. SubSeq(seq, 1, 0) = <<>> /\ SubSeq(seq, 2, Len(seq)) = Tail(seq)
    OBVIOUS
  <2>2. <<>> \o Tail(seq) = Tail(seq)
    OBVIOUS
  <2> QED BY <2>1, <2>2 DEF RemoveAt
<1> QED BY <1>4, <1>5

-----------------------------------------------------------------------------
(***************************************************************************)
(* The inductive invariant: the discipline of the lock, and that of the     *)
(* executor, whose queue holds exactly the tasks that asked for a thread,   *)
(* once each.                                                               *)
(***************************************************************************)
PoolInv ==
    /\ ToSet(pool) = {r \in Requests : pc[r] \in {"queued", "probeQueued"}}
    /\ Distinct(pool)

ResultInv == \A r \in Requests : pc[r] = "resume" => result[r] \in Endings

Inv == TypeOK /\ LockDiscipline /\ PoolInv /\ ResultInv

LEMMA InvInit == Init => Inv
<1> SUFFICES ASSUME Init PROVE Inv
  OBVIOUS
<1>1. TypeOK
  <2>1. <<>> \in Seq(Requests)
    OBVIOUS
  <2> QED BY <2>1 DEF Init, TypeOK, Places, Inputs, Results, NoReply
<1>2. ToSet(<<>>) = {} /\ Distinct(<<>>)
  BY DEF ToSet, Distinct
<1>3. LockDiscipline /\ PoolInv /\ ResultInv
  BY <1>2 DEF Init, LockDiscipline, PoolInv, Holds, ResultInv
<1> QED BY <1>1, <1>3 DEF Inv

(***************************************************************************)
(* A task that neither uses the lock nor the executor moves.                *)
(***************************************************************************)
Apart == Places \ {"waiting", "woken", "queued", "thread", "resume", "probeQueued"}

LEMMA ApartStep ==
    ASSUME Inv, NEW r \in Requests, NEW to \in Apart, pc[r] \in Apart, GoTo(r, to),
           UNCHANGED <<locked, waiters, pool>>
    PROVE  LockDiscipline' /\ PoolInv'
<1>1. \A s \in Requests : pc'[s] = IF s = r THEN to ELSE pc[s]
  BY DEF Inv, TypeOK, GoTo
<1>2. \A s \in Requests : Holds(s)' <=> Holds(s)
  BY <1>1 DEF Apart, Holds
<1>3. \A s \in Requests : /\ pc'[s] = "waiting" <=> pc[s] = "waiting"
                          /\ pc'[s] = "woken" <=> pc[s] = "woken"
                          /\ pc'[s] = "queued" <=> pc[s] = "queued"
                          /\ pc'[s] = "probeQueued" <=> pc[s] = "probeQueued"
  BY <1>1 DEF Apart
<1>4. PoolInv'
  BY <1>3 DEF Inv, PoolInv
<1>5. LockDiscipline'
  <2>1. {s \in Requests : pc'[s] \in {"waiting", "woken"}}
          = {s \in Requests : pc[s] \in {"waiting", "woken"}}
    BY <1>3
  <2>2. ~locked' /\ waiters' # <<>> => pc'[Head(waiters')] = "woken"
    <3>1. waiters # <<>> => Head(waiters) \in Requests
      BY DEF Inv, TypeOK
    <3> QED BY <1>3, <3>1 DEF Inv, LockDiscipline
  <2> QED BY <1>2, <1>3, <2>1, <2>2 DEF Inv, LockDiscipline
<1> QED BY <1>4, <1>5

LEMMA ArriveStep == ASSUME Inv, NEW r \in Requests, Arrive(r) \/ NextRequest(r) PROVE Inv'
<1>1. TypeOK'
  BY DEF Inv, TypeOK, Arrive, NextRequest, GoTo, Places, Inputs, Results, NoReply
<1>2. LockDiscipline' /\ PoolInv'
  <2>1. CASE Arrive(r)
    BY <2>1, ApartStep DEF Arrive, Apart, Places
  <2>2. CASE NextRequest(r)
    BY <2>2, ApartStep DEF NextRequest, Apart, Places
  <2> QED BY <2>1, <2>2
<1>3. ResultInv'
  BY DEF Inv, ResultInv, TypeOK, Arrive, NextRequest, GoTo
<1> QED BY <1>1, <1>2, <1>3 DEF Inv

LEMMA AnsweredStep ==
    ASSUME Inv, NEW r \in Requests, pc[r] \in Apart, NEW status \in Statuses, Answer(r, status),
           UNCHANGED <<input, locked, waiters, pool, result>>
    PROVE  Inv'
<1>1. TypeOK'
  BY DEF Inv, TypeOK, Answer, GoTo, Places
<1>2. LockDiscipline' /\ PoolInv'
  BY ApartStep DEF Answer, Apart, Places
<1>3. ResultInv'
  BY DEF Inv, ResultInv, TypeOK, Answer, GoTo
<1> QED BY <1>1, <1>2, <1>3 DEF Inv

LEMMA RouteStep == ASSUME Inv, NEW r \in Requests, Route(r) PROVE Inv'
<1>1. CASE input[r] = "health"
  <2>1. /\ pc[r] = "arrived" /\ pool' = Append(pool, r) /\ pc' = [pc EXCEPT ![r] = "probeQueued"]
        /\ UNCHANGED <<input, locked, waiters, result, reply>>
    BY <1>1 DEF Route, GoTo
  <2>2. r \notin ToSet(pool)
    BY <2>1 DEF Inv, PoolInv
  <2>3. /\ pool' \in Seq(Requests) /\ ToSet(pool') = ToSet(pool) \cup {r} /\ Distinct(pool')
    BY <2>1, <2>2, JoinsQueue DEF Inv, TypeOK, PoolInv
  <2>4. \A s \in Requests : pc'[s] = IF s = r THEN "probeQueued" ELSE pc[s]
    BY <2>1 DEF Inv, TypeOK
  <2>5. TypeOK'
    BY <2>1, <2>3 DEF Inv, TypeOK, Places
  <2>6. PoolInv'
    BY <2>1, <2>3, <2>4 DEF Inv, PoolInv
  <2>7. LockDiscipline'
    <3>1. waiters # <<>> => Head(waiters) \in Requests
      BY DEF Inv, TypeOK
    <3> QED BY <2>1, <2>4, <3>1 DEF Inv, LockDiscipline, Holds
  <2>8. ResultInv'
    BY <2>1, <2>4 DEF Inv, ResultInv
  <2> QED BY <2>5, <2>6, <2>7, <2>8 DEF Inv
<1>2. CASE input[r] = "notJson"
  <2>1. Answer(r, 422) /\ pc[r] \in Apart /\ UNCHANGED <<input, locked, waiters, pool, result>>
    BY <1>2 DEF Route, Apart, Places
  <2> QED BY <2>1, AnsweredStep DEF Statuses
<1>3. CASE input[r] \notin {"health", "notJson"}
  <2>1. GoTo(r, "checking") /\ pc[r] = "arrived"
        /\ UNCHANGED <<input, locked, waiters, pool, result, reply>>
    BY <1>3 DEF Route
  <2>2. TypeOK'
    BY <2>1 DEF Inv, TypeOK, GoTo, Places
  <2>3. LockDiscipline' /\ PoolInv'
    BY <2>1, ApartStep DEF Apart, Places
  <2>4. ResultInv'
    BY <2>1 DEF Inv, ResultInv, TypeOK, GoTo
  <2> QED BY <2>2, <2>3, <2>4 DEF Inv
<1> QED BY <1>1, <1>2, <1>3 DEF Route

(***************************************************************************)
(* A task takes the free lock and asks for a thread, when it reaches it or  *)
(* when it has been woken; the other waiters, if any, wait on.              *)
(***************************************************************************)
LEMMA TakesLock ==
    ASSUME Inv, NEW r \in Requests, ~locked, locked' = TRUE, pool' = Append(pool, r),
           GoTo(r, "queued"), UNCHANGED <<input, result, reply>>,
           pc[r] \notin {"queued", "probeQueued"},
           waiters' \in Seq(Requests), Distinct(waiters'),
           ToSet(waiters') = ToSet(waiters) \ {r},
           \A s \in Requests \ {r} : pc[s] # "woken"
    PROVE  Inv'
<1>1. r \notin ToSet(pool)
  BY DEF Inv, PoolInv
<1>2. /\ pool' \in Seq(Requests) /\ ToSet(pool') = ToSet(pool) \cup {r} /\ Distinct(pool')
  BY <1>1, JoinsQueue DEF Inv, TypeOK, PoolInv
<1>3. \A s \in Requests : pc'[s] = IF s = r THEN "queued" ELSE pc[s]
  BY DEF Inv, TypeOK, GoTo
<1>4. TypeOK'
  BY <1>2 DEF Inv, TypeOK, GoTo, Places
<1>5. PoolInv'
  BY <1>2, <1>3 DEF Inv, PoolInv
<1>6. LockDiscipline'
  <2>1. \A s \in Requests : Holds(s)' <=> s = r
    BY <1>3 DEF Inv, LockDiscipline, Holds
  <2>2. ToSet(waiters') = {s \in Requests : pc'[s] \in {"waiting", "woken"}}
    BY <1>3 DEF Inv, LockDiscipline
  <2>3. \A s \in Requests : pc'[s] # "woken"
    BY <1>3
  <2>4. \A i, j \in DOMAIN waiters' : waiters'[i] = waiters'[j] => i = j
    BY DEF Distinct
  <2> QED BY <2>1, <2>2, <2>3, <2>4 DEF LockDiscipline
<1>7. ResultInv'
  BY <1>3 DEF Inv, ResultInv
<1> QED BY <1>4, <1>5, <1>6, <1>7 DEF Inv

LEMMA EndpointStep == ASSUME Inv, NEW r \in Requests, Endpoint(r) PROVE Inv'
<1>1. CASE input[r] \in DOMAIN RefusedStatus
  <2>1. /\ Answer(r, RefusedStatus[input[r]]) /\ pc[r] \in Apart
        /\ UNCHANGED <<input, locked, waiters, pool, result>>
    BY <1>1 DEF Endpoint, Apart, Places, RefusedStatus
  <2>2. RefusedStatus[input[r]] \in Statuses
    BY <1>1 DEF RefusedStatus, Statuses
  <2> QED BY <2>1, <2>2, AnsweredStep
<1>2. CASE input[r] = "request" /\ LockFree
  <2>1. /\ pc[r] = "checking" /\ ~locked /\ waiters = <<>> /\ waiters' = waiters
        /\ locked' = TRUE /\ pool' = Append(pool, r) /\ GoTo(r, "queued")
        /\ UNCHANGED <<input, result, reply>>
    BY <1>2 DEF Endpoint, LockFree, RefusedStatus
  <2>2. ToSet(waiters) = {} /\ Distinct(waiters)
    BY <2>1 DEF ToSet, Distinct
  <2>3. \A s \in Requests : pc[s] # "woken"
    BY <2>2 DEF Inv, LockDiscipline
  <2>4. waiters' \in Seq(Requests)
    BY <2>1 DEF Inv, TypeOK
  <2> QED BY <2>1, <2>2, <2>3, <2>4, TakesLock
<1>3. CASE input[r] = "request" /\ ~LockFree
  <2>1. /\ pc[r] = "checking" /\ waiters' = Append(waiters, r) /\ pc' = [pc EXCEPT ![r] = "waiting"]
        /\ UNCHANGED <<input, locked, pool, result, reply>>
    BY <1>3 DEF Endpoint, RefusedStatus, GoTo
  <2>2. \A s \in Requests : pc'[s] = IF s = r THEN "waiting" ELSE pc[s]
    BY <2>1 DEF Inv, TypeOK
  <2>3. r \notin ToSet(waiters) /\ Distinct(waiters)
    BY <2>1 DEF Inv, LockDiscipline, Distinct
  <2>4. /\ waiters' \in Seq(Requests) /\ ToSet(waiters') = ToSet(waiters) \cup {r}
        /\ Distinct(waiters') /\ waiters' # <<>>
        /\ Head(waiters') = IF waiters = <<>> THEN r ELSE Head(waiters)
    BY <2>1, <2>3, JoinsQueue DEF Inv, TypeOK
  <2>5. TypeOK'
    BY <2>1, <2>4 DEF Inv, TypeOK, Places
  <2>6. PoolInv'
    BY <2>1, <2>2 DEF Inv, PoolInv
  <2>7. LockDiscipline'
    <3>1. \A s \in Requests : Holds(s)' <=> Holds(s)
      BY <2>1, <2>2 DEF Holds
    <3>2. ToSet(waiters') = {s \in Requests : pc'[s] \in {"waiting", "woken"}}
      BY <2>2, <2>4 DEF Inv, LockDiscipline
    <3>3. \A i, j \in DOMAIN waiters' : waiters'[i] = waiters'[j] => i = j
      BY <2>4 DEF Distinct
    <3>4. waiters = <<>> => locked /\ \A s \in Requests : pc[s] # "woken"
      <4>1. waiters = <<>> => ToSet(waiters) = {}
        BY DEF ToSet
      <4> QED BY <1>3, <4>1 DEF LockFree, Inv, LockDiscipline
    <3>5. waiters # <<>> => Head(waiters) \in Requests
      BY DEF Inv, TypeOK
    <3>6. \A s \in Requests : pc'[s] = "woken" => ~locked' /\ s = Head(waiters')
      BY <2>1, <2>2, <2>4, <3>4 DEF Inv, LockDiscipline
    <3>7. ~locked' => pc'[Head(waiters')] = "woken"
      BY <2>1, <2>2, <2>4, <3>4, <3>5 DEF Inv, LockDiscipline
    <3>8. /\ locked <=> \E s \in Requests : Holds(s)
          /\ \A s, q \in Requests : Holds(s) /\ Holds(q) => s = q
      BY DEF Inv, LockDiscipline
    <3> HIDE DEF Holds
    <3> QED BY <2>1, <3>1, <3>2, <3>3, <3>6, <3>7, <3>8 DEF LockDiscipline
  <2>8. ResultInv'
    BY <2>1, <2>2 DEF Inv, ResultInv
  <2> QED BY <2>5, <2>6, <2>7, <2>8 DEF Inv
<1> QED BY <1>1, <1>2, <1>3 DEF Endpoint

LEMMA WokenStep == ASSUME Inv, NEW r \in Requests, WokenTakesLock(r) PROVE Inv'
<1>1. pc[r] = "woken" /\ ~locked /\ r = Head(waiters) /\ r \in ToSet(waiters)
  BY DEF WokenTakesLock, Inv, LockDiscipline
<1>2. waiters # <<>> /\ Distinct(waiters) /\ waiters \in Seq(Requests)
  BY <1>1 DEF ToSet, Inv, LockDiscipline, Distinct, TypeOK
<1>3. waiters' = Tail(waiters)
  BY <1>1, <1>2, HeadRemoved DEF WokenTakesLock
<1>4. waiters' \in Seq(Requests) /\ Distinct(waiters') /\ ToSet(waiters') = ToSet(waiters) \ {r}
  BY <1>1, <1>2, <1>3, HeadLeaves
<1>5. \A s \in Requests \ {r} : pc[s] # "woken"
  BY <1>1 DEF Inv, LockDiscipline
<1> QED BY <1>1, <1>4, <1>5, TakesLock DEF WokenTakesLock

LEMMA TakeWorkStep == ASSUME Inv, NEW r \in Requests, TakeWork(r) PROVE Inv'
<1> DEFINE to == IF pc[r] = "queued" THEN "thread" ELSE "probing"
<1>1. /\ pool # <<>> /\ r = Head(pool) /\ pool' = Tail(pool) /\ pc' = [pc EXCEPT ![r] = to]
      /\ UNCHANGED <<input, locked, waiters, result, reply>>
  BY DEF TakeWork, GoTo
<1>2. /\ r \in ToSet(pool) /\ pool' \in Seq(Requests) /\ ToSet(pool') = ToSet(pool) \ {r}
      /\ Distinct(pool')
  BY <1>1, HeadLeaves DEF Inv, TypeOK, PoolInv
<1>3. pc[r] \in {"queued", "probeQueued"}
  BY <1>2 DEF Inv, PoolInv
<1>4. \A s \in Requests : pc'[s] = IF s = r THEN to ELSE pc[s]
  BY <1>1 DEF Inv, TypeOK
<1>5. TypeOK'
  BY <1>1, <1>2 DEF Inv, TypeOK, Places
<1>6. PoolInv'
  BY <1>2, <1>4 DEF Inv, PoolInv
<1>7. LockDiscipline'
  <2>1. \A s \in Requests : Holds(s)' <=> Holds(s)
    BY <1>3, <1>4 DEF Holds
  <2>2. waiters # <<>> => Head(waiters) \in Requests
    BY DEF Inv, TypeOK
  <2>3. \A s \in Requests : /\ pc'[s] = "waiting" <=> pc[s] = "waiting"
                            /\ pc'[s] = "woken" <=> pc[s] = "woken"
    BY <1>3, <1>4
  <2> QED BY <1>1, <2>1, <2>2, <2>3 DEF Inv, LockDiscipline
<1>8. ResultInv'
  BY <1>1, <1>4 DEF Inv, ResultInv
<1> QED BY <1>5, <1>6, <1>7, <1>8 DEF Inv

LEMMA RunnerStep == ASSUME Inv, NEW r \in Requests, RunnerEnds(r) PROVE Inv'
<1>1. /\ pc[r] = "thread" /\ pc' = [pc EXCEPT ![r] = "resume"]
      /\ UNCHANGED <<input, locked, waiters, pool, reply>>
  BY DEF RunnerEnds, GoTo
<1>2. PICK e \in Endings : result' = [result EXCEPT ![r] = e]
  BY DEF RunnerEnds
<1>3. \A s \in Requests : pc'[s] = IF s = r THEN "resume" ELSE pc[s]
  BY <1>1 DEF Inv, TypeOK
<1>4. TypeOK'
  BY <1>1, <1>2 DEF Inv, TypeOK, Places, Results
<1>5. PoolInv'
  BY <1>1, <1>3 DEF Inv, PoolInv
<1>6. LockDiscipline'
  <2>1. \A s \in Requests : Holds(s)' <=> Holds(s)
    BY <1>1, <1>3 DEF Holds
  <2>2. waiters # <<>> => Head(waiters) \in Requests
    BY DEF Inv, TypeOK
  <2>3. \A s \in Requests : /\ pc'[s] = "waiting" <=> pc[s] = "waiting"
                            /\ pc'[s] = "woken" <=> pc[s] = "woken"
    BY <1>1, <1>3
  <2> QED BY <1>1, <2>1, <2>2, <2>3 DEF Inv, LockDiscipline
<1>7. ResultInv'
  BY <1>2, <1>3 DEF Inv, ResultInv, TypeOK
<1> QED BY <1>4, <1>5, <1>6, <1>7 DEF Inv

LEMMA WokenWaits ==
    ASSUME Inv, NEW r \in Requests, Resume(r), NEW s \in Woken
    PROVE  s \in Requests /\ pc[s] = "waiting"
<1>1. \A q \in Requests : pc[q] # "woken"
  BY DEF Resume, Inv, LockDiscipline, Holds
<1>2. s = Head(waiters) /\ waiters # <<>>
  BY DEF Woken
<1>3. s \in ToSet(waiters)
  BY <1>2, HeadLeaves DEF Inv, TypeOK, LockDiscipline, Distinct
<1> QED BY <1>1, <1>3 DEF Inv, LockDiscipline

LEMMA ResumeStep == ASSUME Inv, NEW r \in Requests, Resume(r) PROVE Inv'
<1>1. /\ pc[r] = "resume" /\ locked' = FALSE /\ reply' = [reply EXCEPT ![r] = StatusOf(result[r])]
      /\ pc' = [q \in Requests |-> IF q = r THEN "done" ELSE IF q \in Woken THEN "woken" ELSE pc[q]]
      /\ UNCHANGED <<input, waiters, pool, result>>
  BY DEF Resume, LockedAfter
<1>2. locked /\ \A s \in Requests : (Holds(s) <=> s = r) /\ pc[s] # "woken"
  BY <1>1 DEF Inv, LockDiscipline, Holds
<1>3. \A s \in Woken : s \in Requests /\ pc[s] = "waiting"
  BY WokenWaits
<1>4. \A s \in Requests : pc'[s] = IF s = r THEN "done" ELSE IF s \in Woken THEN "woken" ELSE pc[s]
  BY <1>1
<1>5. TypeOK'
  <2>1. StatusOf(result[r]) \in Statuses
    BY <1>1 DEF Inv, ResultInv, StatusOf, Endings, Statuses
  <2>2. pc' \in [Requests -> Places]
    BY <1>1 DEF Inv, TypeOK, Places
  <2> QED BY <1>1, <2>1, <2>2 DEF Inv, TypeOK
<1>6. PoolInv'
  BY <1>1, <1>3, <1>4 DEF Inv, PoolInv
<1>7. ResultInv'
  BY <1>1, <1>4 DEF Inv, ResultInv
<1>8. LockDiscipline'
  <2>1. \A s \in Requests : ~Holds(s)'
    BY <1>2, <1>4 DEF Holds
  <2>2. {s \in Requests : pc'[s] \in {"waiting", "woken"}}
          = {s \in Requests : pc[s] \in {"waiting", "woken"}}
    BY <1>1, <1>3, <1>4
  <2>3. \A s \in Requests : pc'[s] = "woken" <=> s \in Woken
    BY <1>1, <1>2, <1>3, <1>4
  <2>4. /\ \A s \in Requests : pc'[s] = "woken" => s = Head(waiters)
        /\ waiters # <<>> => pc'[Head(waiters)] = "woken"
    BY <1>3, <2>3 DEF Woken
  <2> QED BY <1>1, <2>1, <2>2, <2>4 DEF Inv, LockDiscipline
<1> QED BY <1>5, <1>6, <1>7, <1>8 DEF Inv

LEMMA ProbeStep == ASSUME Inv, NEW r \in Requests, ProbeEnds(r) PROVE Inv'
<1>1. PICK status \in {200, 500} : Answer(r, status)
  BY DEF ProbeEnds
<1> QED BY <1>1, AnsweredStep DEF ProbeEnds, Statuses, Apart, Places

LEMMA InvStep == Inv /\ [Next]_vars => Inv'
<1> SUFFICES ASSUME Inv, [Next]_vars PROVE Inv'
  OBVIOUS
<1>1. CASE UNCHANGED vars
  BY <1>1 DEF vars, Inv, TypeOK, LockDiscipline, Holds, PoolInv, ResultInv
<1>2. CASE Next
  <2>1. PICK r \in Requests : Arrive(r) \/ NextRequest(r) \/ TaskStep(r) \/ RunnerEnds(r)
    BY <1>2 DEF Next
  <2> QED BY <2>1, ArriveStep, RouteStep, EndpointStep, WokenStep, TakeWorkStep, RunnerStep,
             ResumeStep, ProbeStep DEF TaskStep
<1> QED BY <1>1, <1>2

-----------------------------------------------------------------------------
\* The variables keep their types; in particular every answer is one of the
\* statuses the routes name (service.py, lines 93 to 140).
THEOREM ServiceTypes == Spec => []TypeOK
<1>1. Inv => TypeOK
  BY DEF Inv
<1> QED BY <1>1, InvInit, InvStep, PTL DEF Spec

\* The lock serializes the executions, loses no wakeup and keeps its queue exact
\* (service.py, lines 53 to 65).
THEOREM LockSafety == Spec => []LockDiscipline
<1>1. Inv => LockDiscipline
  BY DEF Inv
<1> QED BY <1>1, InvInit, InvStep, PTL DEF Spec

\* Requests execute in the order in which they reached the lock (service.py,
\* line 57): nobody overtakes a request that is waiting.
THEOREM FirstComeFirstServed == Spec => NoOvertaking
<1>1. Inv /\ [Next]_vars
        => [\A r \in Requests :
               (~Holds(r) /\ Holds(r)' /\ waiters # <<>>) => r = Head(waiters)]_vars
  <2> SUFFICES ASSUME Inv, Next, NEW r \in Requests, ~Holds(r), Holds(r)', waiters # <<>>
               PROVE  r = Head(waiters)
    OBVIOUS
  <2>1. PICK s \in Requests : Arrive(s) \/ NextRequest(s) \/ TaskStep(s) \/ RunnerEnds(s)
    BY DEF Next
  <2> USE DEF Inv, TypeOK, GoTo, Holds
  <2>2. CASE Arrive(s) \/ NextRequest(s) \/ RunnerEnds(s) \/ ProbeEnds(s) \/ Route(s)
    BY <2>2 DEF Arrive, NextRequest, RunnerEnds, ProbeEnds, Route, Answer
  <2>3. CASE Endpoint(s)
    BY <2>3 DEF Endpoint, LockFree, Answer
  <2>4. CASE WokenTakesLock(s)
    BY <2>4 DEF WokenTakesLock, LockDiscipline
  <2>5. CASE TakeWork(s)
    <3>1. pc[s] \in {"queued", "probeQueued"}
      BY <2>5, HeadLeaves DEF TakeWork, PoolInv
    <3> QED BY <2>5, <3>1 DEF TakeWork
  <2>6. CASE Resume(s)
    BY <2>6 DEF Resume
  <2> QED BY <2>1, <2>2, <2>3, <2>4, <2>5, <2>6 DEF TaskStep
<1> QED BY <1>1, InvInit, InvStep, PTL DEF Spec, NoOvertaking

-----------------------------------------------------------------------------
(***************************************************************************)
(* The refinement of SerializedInference: a thread takes an inference only  *)
(* while LockDiscipline says that no other request is inside the lock.      *)
(***************************************************************************)
PhaseMap == [r \in Requests |-> PhaseOf(r)]

LEMMA RefinesInit == Init => Serialized!Init
BY DEF Init, Serialized!Init, PhaseOf

LEMMA PhaseUnchanged ==
    ASSUME \A s \in Requests : PhaseOf(s)' = PhaseOf(s)
    PROVE  PhaseMap' = PhaseMap
BY DEF PhaseMap

LEMMA PhaseMoves ==
    ASSUME NEW r \in Requests, NEW to, PhaseOf(r)' = to,
           \A s \in Requests \ {r} : PhaseOf(s)' = PhaseOf(s)
    PROVE  PhaseMap' = [PhaseMap EXCEPT ![r] = to]
BY DEF PhaseMap

LEMMA RefinesStep == Inv /\ [Next]_vars => [Serialized!Next]_PhaseMap
<1> SUFFICES ASSUME Inv, [Next]_vars PROVE Serialized!Next \/ PhaseMap' = PhaseMap
  OBVIOUS
<1>1. CASE UNCHANGED vars
  BY <1>1 DEF vars, PhaseMap, PhaseOf
<1>2. CASE Next
  <2>1. PICK r \in Requests : Arrive(r) \/ NextRequest(r) \/ TaskStep(r) \/ RunnerEnds(r)
    BY <1>2 DEF Next
  <2>2. ASSUME NEW to, pc' = [pc EXCEPT ![r] = to]
        PROVE  \A s \in Requests : pc'[s] = IF s = r THEN to ELSE pc[s]
    BY <2>2 DEF Inv, TypeOK
  <2>3. ASSUME NEW to, PhaseOf(r)' = to, \A s \in Requests \ {r} : PhaseOf(s)' = PhaseOf(s),
               \/ /\ PhaseOf(r) = "open" /\ to = "inferring"
                  /\ \A s \in Requests : PhaseOf(s) # "inferring"
               \/ PhaseOf(r) = "inferring" /\ to = "inferred"
               \/ PhaseOf(r) \in {"open", "inferred"} /\ to = "closed"
               \/ PhaseOf(r) = "closed" /\ to = "open"
        PROVE  Serialized!Next
    <3>1. PhaseMap' = [PhaseMap EXCEPT ![r] = to]
      BY <2>3, PhaseMoves
    <3>2. \A s \in Requests : PhaseMap[s] = PhaseOf(s)
      BY DEF PhaseMap
    <3> HIDE DEF PhaseOf
    <3> QED BY <2>3, <3>1, <3>2 DEF Serialized!Next, Serialized!Begin, Serialized!Finish,
               Serialized!Close, Serialized!Reopen, Serialized!Moves, PhaseMap
  <2>4. ASSUME NEW status, Answer(r, status), PhaseOf(r) = "open" PROVE Serialized!Next
    <3>1. /\ PhaseOf(r)' = "closed"
          /\ \A s \in Requests \ {r} : PhaseOf(s)' = PhaseOf(s)
      BY <2>2, <2>4 DEF Answer, GoTo, PhaseOf
    <3> QED BY <2>3, <2>4, <3>1
  <2>5. ASSUME NEW to, pc' = [pc EXCEPT ![r] = to], PhaseOf(r) = "open",
               to \notin {"thread", "resume", "done"}
        PROVE  PhaseMap' = PhaseMap
    BY <2>2, <2>5, PhaseUnchanged DEF PhaseOf
  <2>6. CASE Arrive(r)
    BY <2>5, <2>6 DEF Arrive, GoTo, PhaseOf
  <2>7. CASE NextRequest(r)
    <3>1. PhaseOf(r) = "closed" /\ PhaseOf(r)' = "open"
          /\ \A s \in Requests \ {r} : PhaseOf(s)' = PhaseOf(s)
      BY <2>2, <2>7 DEF NextRequest, GoTo, PhaseOf
    <3> QED BY <2>3, <3>1
  <2>8. CASE Route(r)
    <3>1. PhaseOf(r) = "open"
      BY <2>8 DEF Route, PhaseOf
    <3> QED BY <2>4, <2>5, <2>8, <3>1 DEF Route, GoTo
  <2>9. CASE Endpoint(r)
    <3>1. PhaseOf(r) = "open"
      BY <2>9 DEF Endpoint, PhaseOf
    <3> QED BY <2>4, <2>5, <2>9, <3>1 DEF Endpoint, GoTo
  <2>10. CASE WokenTakesLock(r)
    <3>1. PhaseOf(r) = "open"
      BY <2>10 DEF WokenTakesLock, PhaseOf
    <3> QED BY <2>5, <2>10, <3>1 DEF WokenTakesLock, GoTo
  <2>11. CASE TakeWork(r)
    <3>1. pc[r] \in {"queued", "probeQueued"}
      BY <2>11, HeadLeaves DEF TakeWork, Inv, TypeOK, PoolInv
    <3>2. CASE pc[r] = "queued"
      <4>1. pc' = [pc EXCEPT ![r] = "thread"]
        BY <2>11, <3>2 DEF TakeWork, GoTo
      <4>2. /\ PhaseOf(r) = "open" /\ PhaseOf(r)' = "inferring"
            /\ \A s \in Requests \ {r} : PhaseOf(s)' = PhaseOf(s)
        BY <2>2, <3>2, <4>1 DEF PhaseOf
      <4>3. \A s \in Requests : PhaseOf(s) # "inferring"
        BY <3>2 DEF Inv, LockDiscipline, Holds, PhaseOf
      <4> QED BY <2>3, <4>2, <4>3
    <3>3. CASE pc[r] = "probeQueued"
      BY <2>5, <2>11, <3>3 DEF TakeWork, GoTo, PhaseOf
    <3> QED BY <3>1, <3>2, <3>3
  <2>12. CASE RunnerEnds(r)
    <3>1. PhaseOf(r) = "inferring" /\ PhaseOf(r)' = "inferred"
          /\ \A s \in Requests \ {r} : PhaseOf(s)' = PhaseOf(s)
      BY <2>2, <2>12 DEF RunnerEnds, GoTo, PhaseOf
    <3> QED BY <2>3, <3>1
  <2>13. CASE Resume(r)
    <3>1. \A s \in Woken : pc[s] = "waiting"
      BY <2>13, WokenWaits
    <3>2. PhaseOf(r) = "inferred" /\ PhaseOf(r)' = "closed"
          /\ \A s \in Requests \ {r} : PhaseOf(s)' = PhaseOf(s)
      BY <2>13, <3>1 DEF Resume, PhaseOf
    <3> QED BY <2>3, <3>2
  <2>14. CASE ProbeEnds(r)
    <3>1. PhaseOf(r) = "open"
      BY <2>14 DEF ProbeEnds, PhaseOf
    <3> QED BY <2>4, <2>14, <3>1 DEF ProbeEnds
  <2> QED BY <2>1, <2>6, <2>7, <2>8, <2>9, <2>10, <2>11, <2>12, <2>13, <2>14 DEF TaskStep
<1> QED BY <1>1, <1>2

\* The service serializes inference as the chat server does, and answers nobody
\* whose inference is still going on (service.py, lines 55 to 65).
THEOREM QueueSerializesInference == Spec => ImplementsSerialized
<1> QED
  BY InvInit, InvStep, RefinesInit, RefinesStep, PTL
  DEF Spec, ImplementsSerialized, Serialized!Spec, PhaseMap
=============================================================================
