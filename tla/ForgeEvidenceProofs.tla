------------------------ MODULE ForgeEvidenceProofs ------------------------
(***************************************************************************)
(* For every plan, source and limit: the metering of the evidence of a      *)
(* simulated run settles, what verify_forge_run accepts is what simulating  *)
(* its plan writes, and what was published it accepts.                      *)
(*                                                                         *)
(* The parts: the metering; the shapes of the files, which every change of  *)
(* a directory keeps; what an empty list of errors says of a directory; and *)
(* that every list is empty on settled evidence.                            *)
(***************************************************************************)
EXTENDS ForgeEvidence, ForgeLemmas

(***************************************************************************)
(* The lengths the loop goes through when everything but the digits of the  *)
(* count takes k bytes, and where the loop is.                              *)
(***************************************************************************)
Again(k, n) == k + Digits(n)
Base(p) == FixedBytes(p) + p.receiptBytes

Metered(k, n, r) ==
    \/ r = 0 /\ n = 0
    \/ r = 1 /\ n = Again(k, 0)
    \/ r = 2 /\ n = Again(k, Again(k, 0))
    \/ r = 3 /\ n = Again(k, Again(k, Again(k, 0)))

RoundsInv == refusal # "unsettled" /\ rounds \in 0 .. 3
LengthsInv ==
    phase = "metering" => plan \in SimulationPlans /\ Metered(Base(plan), claimed, rounds)
MeterInv == RoundsInv /\ LengthsInv

LEMMA DigitsType == ASSUME NEW n \in Nat PROVE Digits(n) \in 1 .. 10
BY SMT DEF Digits

(***************************************************************************)
(* A count that grows by less than ten gets one digit more at most, and     *)
(* does not get another when it grows by one again.                         *)
(***************************************************************************)
LEMMA DigitsGrow ==
    ASSUME NEW n \in Nat, NEW m \in n .. n + 9
    PROVE  Digits(m) = Digits(n) \/ Digits(m) = Digits(n) + 1
BY SMTT(60) DEF Digits

LEMMA DigitsStay ==
    ASSUME NEW n \in Nat, NEW m \in n .. n + 9, Digits(m) = Digits(n) + 1
    PROVE  Digits(m + 1) = Digits(m)
BY SMT DEF Digits

(***************************************************************************)
(* The fourth length is the third.                                          *)
(***************************************************************************)
LEMMA Settles ==
    ASSUME NEW k \in Nat
    PROVE  LET third == Again(k, Again(k, Again(k, 0))) IN Again(k, third) = third
<1> DEFINE a == k + 1
           b == k + Digits(a)
           c == k + Digits(b)
<1>1. Again(k, 0) = a
  BY SMT DEF Again, Digits
<1>2. a \in Nat /\ b \in a .. a + 9 /\ b \in Nat
  BY DigitsType
<1>3. c \in Nat /\ c \in {b, b + 1}
  BY <1>2, DigitsGrow, DigitsType
<1>4. Digits(c) = Digits(b)
  <2>1. CASE Digits(b) = Digits(a)
    BY <2>1
  <2>2. CASE Digits(b) = Digits(a) + 1
    <3>1. c = b + 1
      BY <1>2, <2>2, DigitsType
    <3> QED BY <1>2, <2>2, <3>1, DigitsStay
  <2> QED BY <1>2, <2>1, <2>2, DigitsGrow
<1> QED BY <1>1, <1>4 DEF Again

LEMMA BaseRange ==
    ASSUME NEW p \in SimulationPlans
    PROVE  FixedBytes(p) \in Nat /\ p.receiptBytes \in Nat
<1>1. p \in Plans
  BY DEF SimulationPlans
<1> QED BY <1>1, EvidenceAssumption

LEMMA ActualAgain ==
    ASSUME NEW p \in SimulationPlans, NEW n \in Nat
    PROVE  Actual(p, n) = Again(Base(p), n)
BY BaseRange, DigitsType DEF Actual, ReceiptBytes, Base, Again

-----------------------------------------------------------------------------
LEMMA MeterInit == Init => MeterInv
<1> SUFFICES ASSUME Init PROVE MeterInv
  OBVIOUS
<1>1. RoundsInv
  BY DEF Init, RoundsInv
<1>2. LengthsInv
  BY DEF Init, LengthsInv
<1> QED BY <1>1, <1>2 DEF MeterInv

LEMMA MeterAgainStep ==
    ASSUME MeterInv, MeterAgain
    PROVE  rounds' \in 1 .. 3 /\ Metered(Base(plan), claimed', rounds')
<1> DEFINE k == Base(plan)
<1>1. plan \in SimulationPlans /\ Metered(k, claimed, rounds)
  BY DEF MeterInv, LengthsInv, MeterAgain
<1>2. k \in Nat
  BY <1>1, BaseRange DEF Base
<1>3. claimed \in Nat
  BY <1>1, <1>2, DigitsType DEF Metered, Again
<1>4. claimed' = Again(k, claimed) /\ Again(k, claimed) # claimed
  BY <1>1, <1>3, ActualAgain DEF MeterAgain
<1>5. rounds' = rounds + 1
  BY DEF MeterAgain
<1>6. rounds # 3
  BY <1>1, <1>2, <1>4, Settles DEF Metered
<1> QED BY <1>1, <1>4, <1>5, <1>6 DEF Metered

LEMMA MeterStep == MeterInv /\ [Next]_vars => MeterInv'
<1> SUFFICES ASSUME MeterInv, [Next]_vars PROVE MeterInv'
  OBVIOUS
<1> USE DEF MeterInv, RoundsInv
<1>1. ASSUME NEW p \in Plans, NEW sandboxed \in BOOLEAN, Simulate(p, sandboxed)
      PROVE  MeterInv'
  <2>1. plan' = p /\ claimed' = 0 /\ rounds' = 0 /\ refusal' # "unsettled"
    BY <1>1 DEF Simulate, Refuse
  <2>2. phase' = "metering" => p \in SimulationPlans
    BY <1>1 DEF Simulate, Refuse, Simulatable
  <2>3. LengthsInv'
    BY <2>1, <2>2 DEF LengthsInv, Metered
  <2> QED BY <2>1, <2>3
<1>2. CASE MeterAgain
  <2>1. rounds' \in 1 .. 3 /\ Metered(Base(plan), claimed', rounds')
    BY <1>2, MeterAgainStep
  <2>2. phase' = phase /\ refusal' = refusal /\ plan' = plan
    BY <1>2, <2>1 DEF MeterAgain, MeterRounds
  <2>3. LengthsInv'
    BY <2>1, <2>2 DEF LengthsInv
  <2> QED BY <2>1, <2>2, <2>3
<1>3. CASE Publish
  <2>1. phase' # "metering" /\ rounds' = rounds /\ refusal' \in {refusal, "output"}
    BY <1>3 DEF Publish, Refuse
  <2> QED BY <2>1 DEF LengthsInv
<1>4. CASE Rebuild
  BY <1>4 DEF Rebuild, LengthsInv
<1>5. CASE Environment
  <2>1. phase = "published" /\ UNCHANGED <<phase, plan, claimed, rounds, refusal>>
    BY <1>5 DEF Environment, Damage, MixUp, ReplacePlan, Rename, EditCheckpoint, EditReceipt,
                Reseal, PutFile, PutCheckpoint, DropCheckpoints, Edit, Rewrite
  <2> QED BY <2>1 DEF LengthsInv
<1>6. CASE UNCHANGED vars
  BY <1>6 DEF vars, LengthsInv
<1> QED BY <1>1, <1>2, <1>3, <1>4, <1>5, <1>6 DEF Next

(***************************************************************************)
(* The metering loop of simulate_forge_run (model_forge.py, lines 1375 to   *)
(* 1435) settles before its eight rounds are over, for every plan: the      *)
(* length is that of the receipt that names it after three corrections at   *)
(* most.                                                                    *)
(***************************************************************************)
THEOREM MeteringSettles == Spec => []MeteringConverges
<1>1. RoundsInv => MeteringConverges
  BY DEF RoundsInv, MeteringConverges
<1> QED BY <1>1, MeterInit, MeterStep, PTL DEF Spec, MeterInv

(***************************************************************************)
(* The variables keep their types; the length a receipt claims is a number. *)
(***************************************************************************)
THEOREM EvidenceTypes == Spec => []TypeOK
<1>1. Init => TypeOK
  BY EvidenceAssumption DEF Init, TypeOK, NoPlan, MeterRounds
<1>2. MeterInv /\ TypeOK /\ [Next]_vars => TypeOK'
  <2> SUFFICES ASSUME MeterInv, TypeOK, [Next]_vars PROVE TypeOK'
    OBVIOUS
  <2>1. ASSUME NEW p \in Plans, NEW sandboxed \in BOOLEAN, Simulate(p, sandboxed)
        PROVE  TypeOK'
    BY <2>1 DEF Simulate, Refuse, TypeOK, MeterRounds
  <2>2. CASE MeterAgain
    <3>1. plan \in SimulationPlans /\ claimed \in Nat
      BY <2>2 DEF MeterInv, LengthsInv, MeterAgain, TypeOK
    <3>2. claimed' \in Nat
      BY <2>2, <3>1, ActualAgain, BaseRange, DigitsType DEF MeterAgain, Again, Base
    <3>3. rounds' \in 0 .. MeterRounds
      BY <2>2, MeterAgainStep DEF MeterRounds
    <3> QED BY <2>2, <3>2, <3>3 DEF MeterAgain, Refuse, TypeOK
  <2>3. CASE Publish
    BY <2>3 DEF Publish, Refuse, TypeOK
  <2>4. CASE Rebuild
    BY <2>4 DEF Rebuild, TypeOK
  <2>5. CASE Environment
    <3>1. UNCHANGED <<phase, plan, source, claimed, rounds, refusal, published>>
      BY <2>5 DEF Environment, Damage, MixUp, ReplacePlan, Rename, EditCheckpoint, EditReceipt,
                  Reseal, PutFile, PutCheckpoint, DropCheckpoints, Edit, Rewrite
    <3>2. \/ edits' = edits
          \/ edits < MaxEdits /\ edits' = edits + 1
      BY <2>5 DEF Environment, Damage, MixUp, ReplacePlan, Rename, EditCheckpoint, EditReceipt,
                  Reseal, PutFile, PutCheckpoint, DropCheckpoints, Edit
    <3> QED BY <3>1, <3>2, EvidenceAssumption DEF TypeOK
  <2>6. CASE UNCHANGED vars
    BY <2>6 DEF vars, TypeOK
  <2> QED BY <2>1, <2>2, <2>3, <2>4, <2>5, <2>6 DEF Next
<1> QED BY <1>1, <1>2, MeterInit, MeterStep, PTL DEF Spec

-----------------------------------------------------------------------------
(***************************************************************************)
(* The shape of a run directory: which fields a file, a checkpoint, a       *)
(* candidate and a receipt have. The verifier reads fields of whatever      *)
(* parses, so this is what every change of a directory has to keep.         *)
(***************************************************************************)
IsFile(f) ==
    /\ f = [kind |-> f.kind, json |-> f.json, value |-> f.value, bytes |-> f.bytes]
    /\ f.json \in BOOLEAN

IsCheckpoint(c) ==
    c = [step |-> c.step, previous |-> c.previous, plan |-> c.plan, loss |-> c.loss,
         spelled |-> c.spelled, hash |-> c.hash]

IsCandidate(c) ==
    /\ c = [plan |-> c.plan, head |-> c.head, boundary |-> c.boundary, hash |-> c.hash]
    /\ c.boundary \in BOOLEAN

ReceiptFields ==
    {"strict", "sealed", "plan", "facts", "source", "signals", "telemetry", "count", "head",
     "candidate", "output"}

IsReceipt(r) ==
    /\ r = [f \in ReceiptFields |-> r[f]]
    /\ r.strict \in BOOLEAN /\ r.sealed \in BOOLEAN

IsCheckpoints(c) ==
    /\ DOMAIN c \subseteq Names
    /\ \A n \in DOMAIN c : IsFile(c[n]) /\ (c[n].json => IsCheckpoint(c[n].value))

IsDirectory(d) ==
    /\ d = [receipt |-> d.receipt, plan |-> d.plan, telemetry |-> d.telemetry,
            candidate |-> d.candidate, checkpoints |-> d.checkpoints]
    /\ \A f \in Files : IsFile(d[f])
    /\ IsCheckpoints(d.checkpoints)
    /\ d.receipt.json => IsReceipt(d.receipt.value)
    /\ d.candidate.json => IsCandidate(d.candidate.value)

LEMMA FileIsFile == ASSUME NEW v, NEW b PROVE IsFile(File(v, b)) /\ IsFile(Missing)
BY DEF IsFile, File, Missing

LEMMA DamagedIsFile ==
    ASSUME NEW f, IsFile(f), NEW g \in Damaged(f) \cup {Reformatted(f)}
    PROVE  IsFile(g) /\ (g.json => f.json /\ g.value = f.value)
BY DEF IsFile, Damaged, Reformatted

LEMMA NewCheckpointShape ==
    ASSUME NEW p, NEW i, NEW h PROVE IsCheckpoint(NewCheckpoint(p, i, h))
BY DEF IsCheckpoint, NewCheckpoint, Hashed

LEMMA HashedShape ==
    ASSUME NEW c, IsCheckpoint(c), NEW h, NEW l
    PROVE  /\ IsCheckpoint(Hashed(c))
           /\ IsCheckpoint([c EXCEPT !.previous = h])
           /\ IsCheckpoint([c EXCEPT !.loss = l])
           /\ IsCheckpoint([c EXCEPT !.spelled = "bool"])
BY DEF IsCheckpoint, Hashed

LEMMA NewCandidateShape ==
    ASSUME NEW p, NEW h PROVE IsCandidate(NewCandidate(p, h))
<1> DEFINE c == [plan |-> p.id, head |-> h, boundary |-> TRUE, hash |-> None]
           x == CandidateBody(c)
<1>1. NewCandidate(p, h) = [c EXCEPT !.hash = x]
  BY DEF NewCandidate
<1> HIDE DEF x
<1>2. ASSUME NEW a, NEW b, NEW t \in BOOLEAN, NEW n
      PROVE  IsCandidate([[plan |-> a, head |-> b, boundary |-> t, hash |-> n] EXCEPT !.hash = x])
  BY DEF IsCandidate
<1>3. IsCandidate([c EXCEPT !.hash = x])
  BY <1>2, Zenon
<1> QED BY <1>1, <1>3

LEMMA NewReceiptShape ==
    ASSUME NEW p, NEW s, NEW n PROVE IsReceipt(NewReceipt(p, s, n))
<1>1. ASSUME NEW t \in BOOLEAN, NEW a, NEW b, NEW c, NEW d, NEW e, NEW f, NEW g, NEW h
      PROVE  IsReceipt([strict |-> t, sealed |-> t, plan |-> a, facts |-> a, source |-> b,
                        signals |-> c, telemetry |-> d, count |-> e, head |-> f,
                        candidate |-> g, output |-> h])
  BY DEF IsReceipt, ReceiptFields
<1> QED BY <1>1, Zenon DEF NewReceipt

LEMMA ValidSteps ==
    ASSUME NEW p, Simulatable(p)
    PROVE  /\ p \in Plans
           /\ Len(p.sim.losses) \in 1 .. MaxSteps
           /\ p.sim.steps = Len(p.sim.losses)
           /\ p.budget["output"] \in Nat /\ p.budget["output"] <= MaxOutput
<1>1. p \in Plans /\ ValidPlan(p) /\ p.mode = "simulate"
  BY DEF Simulatable, SimulationPlans
<1>2. SimulationErrors(p) = {} /\ ResourceErrors(p) = {}
  BY <1>1 DEF ValidPlan, PlanErrors
<1>3. Len(p.sim.losses) \in 1 .. MaxSteps /\ p.sim.steps = Len(p.sim.losses)
  <2> DEFINE s == p.sim
             steps == Len(s.losses)
             f == [losses |-> /\ steps \in 1 .. MaxSteps
                              /\ s.steps = steps
                              /\ \A i \in 1 .. steps - 1 : s.losses[i] >= s.losses[i + 1],
                   clock |-> s.clock,
                   positive |-> \A b \in Budgets : IsPositive(s.perStep[b]),
                   maxSteps |-> s.steps <= p.maxSteps,
                   ceilings |-> \A c \in Ceilings :
                                   IsPositive(s.peak[c]) /\ s.peak[c] <= p.ceiling[c],
                   budgets |-> \A b \in Budgets : s.steps * s.perStep[b] <= p.budget[b],
                   interval |-> p.interval = 1,
                   retained |-> p.retain >= s.steps]
  <2>1. p.sim # NoSimulation /\ Failed(f) = {}
    BY <1>1, <1>2 DEF SimulationErrors
  <2>2. "losses" \in DOMAIN f
    BY Zenon
  <2> HIDE DEF f
  <2>3. f["losses"]
    BY <2>1, <2>2, NoneFailed
  <2> QED BY <2>3 DEF f
<1>4. p.budget["output"] \in Nat /\ p.budget["output"] <= MaxOutput
  <2> DEFINE f == [positive |-> PositiveCeilings(p),
                   budgets |-> PositiveBudgets(p),
                   steps |-> IsPositive(p.maxSteps) /\ p.maxSteps <= MaxSteps,
                   output |-> p.budget["output"] <= MaxOutput,
                   domains |-> TwoDomains(p),
                   hostFits |-> p.ceiling["host"] <= Capacity(p, "host-ram"),
                   deviceFits |-> p.ceiling["device"] <= Capacity(p, "gpu-vram"),
                   temperature |-> p.ceiling["temperature"] <= MaxTemperature]
  <2>1. Failed(f) = {}
    BY <1>2 DEF ResourceErrors
  <2>2. "budgets" \in DOMAIN f /\ "output" \in DOMAIN f
    BY Zenon
  <2> HIDE DEF f
  <2>3. f["budgets"] /\ f["output"]
    BY <2>1, <2>2, NoneFailed
  <2> QED BY <2>3 DEF f, PositiveBudgets, Budgets, IsPositive
<1> QED BY <1>1, <1>3, <1>4

LEMMA EvidenceShape ==
    ASSUME NEW p, Simulatable(p), NEW s, NEW n
    PROVE  IsDirectory(Evidence(p, s, n))
<1> DEFINE e == Evidence(p, s, n)
           r == NewReceipt(p, s, n)
           steps == 1 .. Len(p.sim.losses)
<1>1. /\ e.receipt = File(r, ReceiptBytes(p, n)) /\ e.plan = File(p, p.bytes)
      /\ e.telemetry = File(p.id, Len(p.sim.losses) * EventBytes)
      /\ e.candidate = File(NewCandidate(p, r.head), CandidateBytes)
      /\ e.checkpoints = [i \in steps |-> File(CheckpointChain(p)[i], CheckpointBytes)]
      /\ e = [receipt |-> e.receipt, plan |-> e.plan, telemetry |-> e.telemetry,
              candidate |-> e.candidate, checkpoints |-> e.checkpoints]
  BY DEF Evidence
<1> HIDE DEF e
<1>2. \A f \in Files : IsFile(e[f])
  BY <1>1, FileIsFile DEF Files
<1>3. /\ e.receipt.json => IsReceipt(e.receipt.value)
      /\ e.candidate.json => IsCandidate(e.candidate.value)
  BY <1>1, NewReceiptShape, NewCandidateShape DEF File
<1>4. IsCheckpoints(e.checkpoints)
  <2>1. DOMAIN e.checkpoints = steps /\ steps \subseteq Names
    BY <1>1, ValidSteps, PlanAssumption DEF Names
  <2>2. ASSUME NEW i \in steps
        PROVE  IsFile(e.checkpoints[i]) /\ IsCheckpoint(e.checkpoints[i].value)
    <3>1. IsCheckpoint(CheckpointChain(p)[i])
      BY NewCheckpointShape DEF CheckpointChain
    <3> QED BY <1>1, <3>1, FileIsFile DEF File
  <2> QED BY <2>1, <2>2 DEF IsCheckpoints
<1> QED BY <1>1, <1>2, <1>3, <1>4 DEF IsDirectory, e

LEMMA PutFileShape ==
    ASSUME IsDirectory(dir), NEW f \in Files, NEW g, PutFile(f, g), IsFile(g),
           f = "receipt" /\ g.json => IsReceipt(g.value),
           f = "candidate" /\ g.json => IsCandidate(g.value)
    PROVE  IsDirectory(dir')
<1>1. dir' = [dir EXCEPT ![f] = g]
  BY DEF PutFile, Edit, Rewrite
<1>2. CASE f = "receipt"
  BY <1>1, <1>2 DEF IsDirectory, Files
<1>3. CASE f = "candidate"
  BY <1>1, <1>3 DEF IsDirectory, Files
<1>4. CASE f = "plan"
  BY <1>1, <1>4 DEF IsDirectory, Files
<1>5. CASE f = "telemetry"
  BY <1>1, <1>5 DEF IsDirectory, Files
<1> QED BY <1>2, <1>3, <1>4, <1>5 DEF Files

(* What a directory is does not change when only its checkpoints do. *)
LEMMA NewCheckpointsShape ==
    ASSUME IsDirectory(dir), NEW c, IsCheckpoints(c), dir' = [dir EXCEPT !.checkpoints = c]
    PROVE  IsDirectory(dir')
BY DEF IsDirectory, Files

LEMMA PutCheckpointShape ==
    ASSUME IsDirectory(dir), NEW n \in Names, NEW g, PutCheckpoint(n, g), IsFile(g),
           g.json => IsCheckpoint(g.value)
    PROVE  IsDirectory(dir')
<1> DEFINE c == dir.checkpoints
           new == [m \in DOMAIN c \cup {n} |-> IF m = n THEN g ELSE c[m]]
<1>1. dir' = [dir EXCEPT !.checkpoints = new]
  BY DEF PutCheckpoint, Edit, Rewrite
<1>2. IsCheckpoints(c)
  BY DEF IsDirectory
<1>3. IsCheckpoints(new)
  BY <1>2 DEF IsCheckpoints
<1> QED BY <1>1, <1>3, NewCheckpointsShape

LEMMA DropShape ==
    ASSUME IsDirectory(dir), NEW names, DropCheckpoints(names)
    PROVE  IsDirectory(dir')
<1> DEFINE c == dir.checkpoints
           new == Restrict(c, DOMAIN c \ names)
<1>1. dir' = [dir EXCEPT !.checkpoints = new]
  BY DEF DropCheckpoints, Edit, Rewrite
<1>2. IsCheckpoints(c)
  BY DEF IsDirectory
<1>3. IsCheckpoints(new)
  BY <1>2 DEF IsCheckpoints, Restrict
<1> QED BY <1>1, <1>3, NewCheckpointsShape

LEMMA DamageShape == ASSUME IsDirectory(dir), Damage PROVE IsDirectory(dir')
<1>1. ASSUME NEW f \in Files, PutFile(f, Missing) PROVE IsDirectory(dir')
  BY <1>1, PutFileShape, FileIsFile DEF Missing
<1>2. ASSUME NEW f \in Files, NEW g \in Damaged(dir[f]) \cup {Reformatted(dir[f])}, PutFile(f, g)
      PROVE  IsDirectory(dir')
  <2>1. IsFile(g) /\ (g.json => dir[f].json /\ g.value = dir[f].value)
    BY DamagedIsFile DEF IsDirectory
  <2> QED BY <1>2, <2>1, PutFileShape DEF IsDirectory
<1>3. ASSUME NEW n \in DOMAIN dir.checkpoints, DropCheckpoints({n}) PROVE IsDirectory(dir')
  BY <1>3, DropShape
<1>4. ASSUME NEW n \in DOMAIN dir.checkpoints,
             NEW g \in Damaged(dir.checkpoints[n]) \cup {Reformatted(dir.checkpoints[n])},
             PutCheckpoint(n, g)
      PROVE  IsDirectory(dir')
  <2>1. /\ n \in Names /\ IsFile(dir.checkpoints[n])
        /\ dir.checkpoints[n].json => IsCheckpoint(dir.checkpoints[n].value)
    BY DEF IsDirectory, IsCheckpoints
  <2>2. IsFile(g) /\ (g.json => IsCheckpoint(g.value))
    BY <2>1, DamagedIsFile
  <2> QED BY <1>4, <2>1, <2>2, PutCheckpointShape
<1> QED BY <1>1, <1>2, <1>3, <1>4 DEF Damage

LEMMA MixUpShape == ASSUME IsDirectory(dir), MixUp PROVE IsDirectory(dir')
<1> PICK p \in SimulationPlans :
        LET e(s) == Evidence(p, s, Settled(FixedBytes(p) + p.receiptBytes))
            any == e(CHOOSE s \in Sources : TRUE)
        IN  \/ \E s \in Sources : Edit(e(s)) \/ PutFile("receipt", e(s).receipt)
            \/ \E f \in {"telemetry", "candidate"} : PutFile(f, any[f])
            \/ \E i \in DOMAIN any.checkpoints, n \in Names : PutCheckpoint(n, any.checkpoints[i])
  BY DEF MixUp
<1> DEFINE e(s) == Evidence(p, s, Settled(FixedBytes(p) + p.receiptBytes))
           any == e(CHOOSE s \in Sources : TRUE)
<1>1. ASSUME NEW s PROVE IsDirectory(e(s))
  BY EvidenceShape DEF Simulatable
<1>2. IsDirectory(any)
  BY <1>1
<1>3. \/ \E s \in Sources : Edit(e(s))
      \/ \E s \in Sources : PutFile("receipt", e(s).receipt)
      \/ \E f \in {"telemetry", "candidate"} : PutFile(f, any[f])
      \/ \E i \in DOMAIN any.checkpoints, n \in Names : PutCheckpoint(n, any.checkpoints[i])
  OBVIOUS
<1>4. ASSUME NEW s \in Sources, Edit(e(s)) PROVE IsDirectory(dir')
  BY <1>1, <1>4 DEF Edit, Rewrite
<1> HIDE DEF any, e
<1>5. ASSUME NEW s \in Sources, PutFile("receipt", e(s).receipt) PROVE IsDirectory(dir')
  <2>1. "receipt" \in Files
    BY DEF Files
  <2>2. IsFile(e(s).receipt) /\ (e(s).receipt.json => IsReceipt(e(s).receipt.value))
    BY <1>1, <2>1 DEF IsDirectory
  <2> QED BY <1>5, <2>1, <2>2, PutFileShape
<1>6. ASSUME NEW f \in {"telemetry", "candidate"}, PutFile(f, any[f]) PROVE IsDirectory(dir')
  <2>1. f \in Files
    BY DEF Files
  <2>2. IsFile(any[f]) /\ (any.candidate.json => IsCandidate(any.candidate.value))
    BY <1>2, <2>1 DEF IsDirectory
  <2> QED BY <1>6, <2>1, <2>2, PutFileShape
<1>7. ASSUME NEW i \in DOMAIN any.checkpoints, NEW n \in Names,
             PutCheckpoint(n, any.checkpoints[i])
      PROVE  IsDirectory(dir')
  <2>1. /\ IsFile(any.checkpoints[i])
        /\ any.checkpoints[i].json => IsCheckpoint(any.checkpoints[i].value)
    BY <1>2 DEF IsDirectory, IsCheckpoints
  <2> QED BY <1>7, <2>1, PutCheckpointShape
<1> QED BY <1>3, <1>4, <1>5, <1>6, <1>7

LEMMA ReplacePlanShape == ASSUME IsDirectory(dir), ReplacePlan PROVE IsDirectory(dir')
BY PutFileShape, FileIsFile DEF ReplacePlan, Files

LEMMA RenameShape == ASSUME IsDirectory(dir), Rename PROVE IsDirectory(dir')
<1> DEFINE c == dir.checkpoints
<1> PICK n \in DOMAIN c, m \in Names :
        LET names == IF m \in DOMAIN c THEN DOMAIN c ELSE (DOMAIN c \ {n}) \cup {m}
        IN  Edit([dir EXCEPT !.checkpoints =
                     [k \in names |-> c[IF k = m THEN n ELSE IF k = n THEN m ELSE k]]])
  BY DEF Rename
<1> DEFINE names == IF m \in DOMAIN c THEN DOMAIN c ELSE (DOMAIN c \ {n}) \cup {m}
           new == [k \in names |-> c[IF k = m THEN n ELSE IF k = n THEN m ELSE k]]
<1>1. dir' = [dir EXCEPT !.checkpoints = new]
  BY DEF Edit, Rewrite
<1>2. IsCheckpoints(c)
  BY DEF IsDirectory
<1>3. names \subseteq Names
  BY <1>2 DEF IsCheckpoints
<1>4. ASSUME NEW k \in names PROVE \E j \in DOMAIN c : new[k] = c[j]
  OBVIOUS
<1>5. IsCheckpoints(new)
  BY <1>2, <1>3, <1>4 DEF IsCheckpoints
<1> QED BY <1>1, <1>5, NewCheckpointsShape

LEMMA EditCheckpointShape == ASSUME IsDirectory(dir), EditCheckpoint PROVE IsDirectory(dir')
<1> PICK n \in DOMAIN dir.checkpoints, rehash \in BOOLEAN :
        LET f == dir.checkpoints[n]
            c == f.value
        IN  /\ f.json
            /\ \E e \in {[c EXCEPT !.loss = @ + 1]}
                       \cup {[c EXCEPT !.spelled = "bool"] : x \in {c.loss} \cap {0, 1}} :
                  PutCheckpoint(n, [f EXCEPT !.value = IF rehash THEN Hashed(e) ELSE e])
  BY DEF EditCheckpoint
<1> DEFINE f == dir.checkpoints[n]
           c == f.value
<1>1. n \in Names /\ IsFile(f) /\ IsCheckpoint(c)
  BY DEF IsDirectory, IsCheckpoints
<1>2. PICK e \in {[c EXCEPT !.loss = c.loss + 1], [c EXCEPT !.spelled = "bool"]} :
         PutCheckpoint(n, [f EXCEPT !.value = IF rehash THEN Hashed(e) ELSE e])
  OBVIOUS
<1> HIDE DEF c
<1>3. IsCheckpoint(e) /\ IsCheckpoint(Hashed(e))
  <2>1. CASE e = [c EXCEPT !.loss = c.loss + 1]
    BY <1>1, <2>1, HashedShape
  <2>2. CASE e = [c EXCEPT !.spelled = "bool"]
    BY <1>1, <2>2, HashedShape
  <2> QED BY <1>2, <2>1, <2>2
<1> DEFINE v == IF rehash THEN Hashed(e) ELSE e
<1>4. IsCheckpoint(v)
  BY <1>3
<1> HIDE DEF v, f
<1>5. IsFile([f EXCEPT !.value = v]) /\ [f EXCEPT !.value = v].value = v
  BY <1>1 DEF IsFile
<1>6. PutCheckpoint(n, [f EXCEPT !.value = v])
  BY <1>2 DEF v, c, f
<1> QED BY <1>1, <1>4, <1>5, <1>6, PutCheckpointShape

LEMMA EditedReceipt ==
    ASSUME NEW r, IsReceipt(r), NEW x, NEW y, NEW b \in BOOLEAN
    PROVE  /\ IsReceipt([r EXCEPT !.source = x]) /\ IsReceipt([r EXCEPT !.signals = x])
           /\ IsReceipt([r EXCEPT !.count = x]) /\ IsReceipt([r EXCEPT !.output = x])
           /\ IsReceipt([r EXCEPT !.strict = FALSE]) /\ IsReceipt([r EXCEPT !.facts = x])
           /\ IsReceipt([r EXCEPT !.plan = x, !.facts = x, !.signals = y])
           /\ IsReceipt([r EXCEPT !.sealed = b])
<1>1. DOMAIN r = ReceiptFields
  BY DEF IsReceipt
<1>2. ASSUME NEW f, f # "strict", f # "sealed" PROVE IsReceipt([r EXCEPT ![f] = x])
  BY <1>1, <1>2 DEF IsReceipt
<1>3. IsReceipt([r EXCEPT !.strict = FALSE]) /\ IsReceipt([r EXCEPT !.sealed = b])
  BY <1>1 DEF IsReceipt, ReceiptFields
<1>4. IsReceipt([r EXCEPT !.plan = x, !.facts = x, !.signals = y])
  <2> DEFINE e == [r EXCEPT !.plan = x, !.facts = x, !.signals = y]
  <2>1. DOMAIN e = ReceiptFields /\ e = [f \in DOMAIN e |-> e[f]]
    BY <1>1
  <2>2. e.strict = r.strict /\ e.sealed = r.sealed
    BY <1>1 DEF ReceiptFields
  <2> HIDE DEF e
  <2>3. IsReceipt(e)
    BY <2>1, <2>2 DEF IsReceipt
  <2> QED BY <2>3 DEF e
<1> QED BY <1>2, <1>3, <1>4

LEMMA EditReceiptShape == ASSUME IsDirectory(dir), EditReceipt PROVE IsDirectory(dir')
<1> DEFINE r == dir.receipt.value
<1>1. IsFile(dir.receipt) /\ IsReceipt(r) /\ "receipt" \in Files
  BY DEF EditReceipt, IsDirectory, Files
<1>2. PICK s \in Sources, n \in 0 .. MaxSteps, p \in Plans :
         \E e \in {[r EXCEPT !.source = s], [r EXCEPT !.signals = <<r.signals[1], s>>],
                   [r EXCEPT !.count = n], [r EXCEPT !.output = r.output + 1],
                   [r EXCEPT !.strict = FALSE], [r EXCEPT !.facts = p.id],
                   [r EXCEPT !.plan = p.id, !.facts = p.id,
                             !.signals = <<p.id, r.signals[2]>>]} :
             PutFile("receipt", [dir.receipt EXCEPT !.value = [e EXCEPT !.sealed = e = r]])
  BY DEF EditReceipt
<1>3. PICK e : /\ IsReceipt(e)
               /\ PutFile("receipt", [dir.receipt EXCEPT !.value = [e EXCEPT !.sealed = e = r]])
  BY <1>1, <1>2, EditedReceipt
<1> DEFINE v == [e EXCEPT !.sealed = e = r]
<1>4. IsReceipt(v)
  <2>1. ASSUME NEW b \in BOOLEAN PROVE IsReceipt([e EXCEPT !.sealed = b])
    BY <1>3, EditedReceipt
  <2> QED BY <2>1, Zenon
<1> HIDE DEF v
<1>5. IsFile([dir.receipt EXCEPT !.value = v]) /\ [dir.receipt EXCEPT !.value = v].value = v
  BY <1>1 DEF IsFile
<1>6. PutFile("receipt", [dir.receipt EXCEPT !.value = v])
  BY <1>3 DEF v
<1> QED BY <1>1, <1>4, <1>5, <1>6, PutFileShape

LEMMA RelinkedShape ==
    ASSUME NEW c, IsCheckpoints(c), \A n \in DOMAIN c : c[n].json
    PROVE  IsCheckpoints(Relinked(c).chain)
<1> DEFINE order == Sorted(DOMAIN c)
           link(n, previous) == Hashed([c[n].value EXCEPT !.previous = previous])
           hash == CHOOSE hash :
               hash = [i \in 0 .. Len(order) |->
                          IF i = 0 THEN None ELSE link(order[i], hash[i - 1]).hash]
           chain == [n \in DOMAIN c |->
                       [c[n] EXCEPT !.value = link(n, hash[Rank(DOMAIN c, n) - 1])]]
<1>1. Relinked(c).chain = chain
  BY DEF Relinked
<1>2. ASSUME NEW n \in DOMAIN c, NEW h PROVE IsCheckpoint(link(n, h))
  <2>1. IsCheckpoint(c[n].value)
    BY DEF IsCheckpoints
  <2> QED BY <2>1, HashedShape
<1>3. ASSUME NEW n \in DOMAIN c PROVE IsFile(chain[n]) /\ IsCheckpoint(chain[n].value)
  <2> DEFINE v == link(n, hash[Rank(DOMAIN c, n) - 1])
  <2>1. IsCheckpoint(v)
    BY <1>2
  <2>2. chain[n] = [c[n] EXCEPT !.value = v]
    OBVIOUS
  <2> HIDE DEF v, chain
  <2>3. IsFile(c[n])
    BY DEF IsCheckpoints
  <2>4. IsFile(chain[n]) /\ chain[n].value = v
    BY <2>2, <2>3 DEF IsFile
  <2> QED BY <2>1, <2>4
<1>4. DOMAIN chain = DOMAIN c
  OBVIOUS
<1> HIDE DEF chain
<1> QED BY <1>1, <1>3, <1>4 DEF IsCheckpoints

LEMMA ResealShape == ASSUME IsDirectory(dir), Reseal PROVE IsDirectory(dir')
<1> DEFINE new == Relinked(dir.checkpoints)
           moved == [dir.candidate.value EXCEPT !.head = new.head]
           candidate == [moved EXCEPT !.hash = CandidateBody(moved)]
           r == dir.receipt.value
           base == dir.receipt.bytes - Digits(r.output)
           output == Settled(Total(dir) - dir.receipt.bytes + base)
           receipt == [r EXCEPT !.sealed = TRUE, !.head = new.head,
                                !.count = Cardinality(DOMAIN dir.checkpoints),
                                !.telemetry = dir.telemetry.value,
                                !.candidate = candidate.hash, !.output = output]
           file == File(receipt, base + Digits(output))
<1>1. dir' = [dir EXCEPT !.checkpoints = new.chain, !.candidate.value = candidate,
                         !.receipt = file]
  BY DEF Reseal, Rewrite
<1>2. IsCheckpoints(new.chain)
  BY RelinkedShape DEF Reseal, IsDirectory
<1>3. IsCandidate(candidate)
  <2>1. IsCandidate(dir.candidate.value)
    BY DEF Reseal, IsDirectory
  <2>2. ASSUME NEW c, IsCandidate(c), NEW x
        PROVE  IsCandidate([c EXCEPT !.head = x]) /\ IsCandidate([c EXCEPT !.hash = x])
    BY <2>2 DEF IsCandidate
  <2>3. IsCandidate(moved)
    BY <2>1, <2>2
  <2> QED BY <2>2, <2>3
<1>4. IsReceipt(receipt)
  <2>1. IsReceipt(r)
    BY DEF Reseal, IsDirectory
  <2>2. ASSUME NEW h, NEW n, NEW t, NEW c, NEW o, NEW b \in BOOLEAN
        PROVE  IsReceipt([r EXCEPT !.sealed = b, !.head = h, !.count = n, !.telemetry = t,
                                   !.candidate = c, !.output = o])
    <3> DEFINE e == [r EXCEPT !.sealed = b, !.head = h, !.count = n, !.telemetry = t,
                              !.candidate = c, !.output = o]
    <3>1. DOMAIN r = ReceiptFields
      BY <2>1 DEF IsReceipt
    <3>2. DOMAIN e = ReceiptFields /\ e = [f \in DOMAIN e |-> e[f]]
      BY <3>1
    <3>3. e.strict = r.strict /\ e.sealed = b
      BY <3>1 DEF ReceiptFields
    <3> HIDE DEF e
    <3>4. IsReceipt(e)
      BY <2>1, <3>2, <3>3 DEF IsReceipt
    <3> QED BY <3>4 DEF e
  <2> QED BY <2>2, Zenon
<1> HIDE DEF new, candidate, receipt
<1>5. IsFile(file) /\ file.value = receipt
  BY FileIsFile DEF File
<1> HIDE DEF file
<1> DEFINE g == [dir.candidate EXCEPT !.value = candidate]
<1>6. IsFile(g) /\ g.value = candidate
  BY DEF IsDirectory, IsFile, Files
<1>7. dir' = [receipt |-> file, plan |-> dir.plan, telemetry |-> dir.telemetry,
              candidate |-> g, checkpoints |-> new.chain]
  BY <1>1 DEF IsDirectory
<1> HIDE DEF g
<1> QED BY <1>2, <1>3, <1>4, <1>5, <1>6, <1>7 DEF IsDirectory, Files

LEMMA EmptyDirectory == Init => IsDirectory(dir)
<1> SUFFICES ASSUME Init PROVE IsDirectory(dir)
  OBVIOUS
<1>1. dir = [receipt |-> Missing, plan |-> Missing, telemetry |-> Missing,
             candidate |-> Missing, checkpoints |-> <<>>]
  BY DEF Init
<1>2. IsCheckpoints(<<>>)
  BY DEF IsCheckpoints
<1>3. IsFile(Missing) /\ ~Missing.json
  BY FileIsFile DEF Missing
<1> QED BY <1>1, <1>2, <1>3 DEF IsDirectory, Files

LEMMA DirectoryStep == IsDirectory(dir) /\ MeterInv /\ [Next]_vars => IsDirectory(dir)'
<1> SUFFICES ASSUME IsDirectory(dir), MeterInv, [Next]_vars PROVE IsDirectory(dir')
  OBVIOUS
<1>1. ASSUME NEW p \in Plans, NEW sandboxed \in BOOLEAN, Simulate(p, sandboxed)
      PROVE  IsDirectory(dir')
  BY <1>1 DEF Simulate
<1>2. CASE MeterAgain
  BY <1>2 DEF MeterAgain
<1>3. CASE Publish
  <2>1. plan \in SimulationPlans
    BY <1>3 DEF Publish, MeterInv, LengthsInv
  <2>2. dir' = dir \/ dir' = Evidence(plan, published, claimed)
    BY <1>3 DEF Publish
  <2> QED BY <2>1, <2>2, EvidenceShape DEF Simulatable
<1>4. CASE Rebuild
  BY <1>4 DEF Rebuild
<1>5. CASE Environment
  BY <1>5, DamageShape, MixUpShape, ReplacePlanShape, RenameShape, EditCheckpointShape,
     EditReceiptShape, ResealShape DEF Environment
<1>6. CASE UNCHANGED vars
  BY <1>6 DEF vars
<1> QED BY <1>1, <1>2, <1>3, <1>4, <1>5, <1>6 DEF Next

-----------------------------------------------------------------------------
(***************************************************************************)
(* Numbers in ascending order.                                              *)
(***************************************************************************)
LEMMA SortedInto ==
    ASSUME NEW S \in SUBSET Nat, IsFiniteSet(S), NEW i \in 1 .. Cardinality(S)
    PROVE  Sorted(S)[i] \in S /\ Rank(S, Sorted(S)[i]) = i
<1> DEFINE upTo(n) == {m \in S : m <= n}
           T == 1 .. Cardinality(S)
           rank == [n \in S |-> Rank(S, n)]
<1>1. Cardinality(S) \in Nat
  BY FS_CardinalityType
<1>2. ASSUME NEW n \in S
      PROVE  IsFiniteSet(upTo(n)) /\ Rank(S, n) = Cardinality(upTo(n)) /\ Rank(S, n) \in T
  <2>1. upTo(n) \in SUBSET S /\ n \in upTo(n)
    OBVIOUS
  <2>2. IsFiniteSet(upTo(n)) /\ Cardinality(upTo(n)) <= Cardinality(S)
    BY <2>1, FS_Subset
  <2>3. Cardinality(upTo(n)) \in Nat /\ Cardinality(upTo(n)) # 0
    BY <2>1, <2>2, FS_EmptySet, FS_CardinalityType
  <2> QED BY <1>1, <2>2, <2>3 DEF Rank
<1>3. ASSUME NEW m \in S, NEW n \in S, m < n PROVE Rank(S, m) # Rank(S, n)
  <2>1. n \in upTo(n) /\ n \notin upTo(m)
    BY <1>3
  <2>2. \A k \in upTo(m) : k \in upTo(n)
    BY <1>3
  <2> HIDE DEF upTo
  <2>3. upTo(m) \in SUBSET upTo(n) /\ upTo(m) # upTo(n)
    BY <2>1, <2>2
  <2>4. IsFiniteSet(upTo(n)) /\ Rank(S, m) = Cardinality(upTo(m))
        /\ Rank(S, n) = Cardinality(upTo(n))
    BY <1>2
  <2> QED BY <2>3, <2>4, FS_Subset
<1>4. ASSUME NEW m \in S, NEW n \in S, rank[m] = rank[n] PROVE m = n
  <2>1. ~(m < n) /\ ~(n < m)
    BY <1>3, <1>4
  <2> QED BY <2>1
<1>5. rank \in Injection(S, T)
  BY <1>2, <1>4 DEF Injection, IsInjective
<1>6. IsFiniteSet(T) /\ Cardinality(T) = Cardinality(S)
  BY <1>1, FS_Interval
<1>7. rank \in Surjection(S, T)
  BY <1>5, <1>6, FS_Injection
<1>8. \E n \in S : Rank(S, n) = i
  BY <1>7 DEF Surjection
<1> QED BY <1>8 DEF Sorted

LEMMA SortedIsOrder ==
    ASSUME NEW S \in SUBSET Nat, IsFiniteSet(S),
           \A i \in 1 .. Cardinality(S) : Sorted(S)[i] = i
    PROVE  S = 1 .. Cardinality(S)
<1>1. 1 .. Cardinality(S) \in SUBSET S
  BY SortedInto
<1>2. Cardinality(S) \in Nat
  BY FS_CardinalityType
<1>3. Cardinality(1 .. Cardinality(S)) = Cardinality(S)
  BY <1>2, FS_Interval
<1> QED BY <1>1, <1>3, FS_Subset

LEMMA SortedInterval ==
    ASSUME NEW n \in Nat
    PROVE  /\ Cardinality(1 .. n) = n
           /\ Sorted(1 .. n) = [i \in 1 .. n |-> i]
<1>1. IsFiniteSet(1 .. n) /\ Cardinality(1 .. n) = n
  BY FS_Interval
<1>2. ASSUME NEW i \in 1 .. n PROVE Rank(1 .. n, i) = i
  <2>1. {m \in 1 .. n : m <= i} = 1 .. i
    OBVIOUS
  <2>2. Cardinality(1 .. i) = i
    BY FS_Interval
  <2> QED BY <2>1, <2>2 DEF Rank
<1>3. ASSUME NEW i \in 1 .. n PROVE Sorted(1 .. n)[i] = i
  <2>1. Sorted(1 .. n)[i] \in 1 .. n /\ Rank(1 .. n, Sorted(1 .. n)[i]) = i
    BY <1>1, SortedInto
  <2> QED BY <1>2, <2>1
<1>4. Sorted(1 .. n) = [i \in 1 .. n |-> Sorted(1 .. n)[i]]
  BY <1>1 DEF Sorted
<1> QED BY <1>1, <1>3, <1>4

-----------------------------------------------------------------------------
(***************************************************************************)
(* What empty lists of errors say of a directory, one after the other as    *)
(* verify_forge_run builds them.                                            *)
(***************************************************************************)
LEMMA AcceptedPlan ==
    ASSUME NEW d, NEW src, Errors(d, src) = {}
    PROVE  LET p == d.plan.value
               r == d.receipt.value
           IN  /\ d.receipt.json /\ Simulatable(p) /\ ReplayPlan(d) = p /\ p # NoPlan
               /\ r.plan = p.id /\ r.facts = p.id /\ r.count = p.sim.steps
               /\ Readable(d.plan, RecordLimit) /\ Readable(d.receipt, RecordLimit)
<1> DEFINE p == d.plan.value
           r == d.receipt.value
           f == [valid |-> Simulatable(p),
                 link |-> r.plan = p.id,
                 replay |-> Simulatable(p) => r.facts = p.id /\ r.count = p.sim.steps]
<1>1. Readable(d.receipt, RecordLimit) /\ PlanLinkErrors(d) = {}
  BY DEF Errors
<1>2. Readable(d.plan, RecordLimit) /\ Failed(f) = {}
  BY <1>1 DEF PlanLinkErrors
<1>3. {"valid", "link", "replay"} \subseteq DOMAIN f
  BY Zenon
<1> HIDE DEF f
<1>4. f["valid"] /\ f["link"] /\ f["replay"]
  BY <1>2, <1>3, NoneFailed
<1>5. Simulatable(p) /\ r.plan = p.id /\ r.facts = p.id /\ r.count = p.sim.steps
  BY <1>4 DEF f
<1>6. p # NoPlan
  BY <1>5, EvidenceAssumption DEF NoPlan, Simulatable, SimulationPlans
<1>7. ReplayPlan(d) = p
  BY <1>2, <1>5 DEF ReplayPlan
<1> QED BY <1>1, <1>2, <1>5, <1>6, <1>7 DEF Readable

LEMMA AcceptedReceipt ==
    ASSUME NEW d, NEW src, Errors(d, src) = {}
    PROVE  LET p == d.plan.value
               r == d.receipt.value
           IN  /\ r.sealed /\ r.strict
               /\ r.source \in Sources /\ r.source = src /\ r.signals = <<p.id, r.source>>
               /\ r.telemetry = p.id /\ d.telemetry.value = p.id
<1> DEFINE p == d.plan.value
           r == d.receipt.value
<1> USE AcceptedPlan
<1>1. /\ ReceiptErrors(d) = {} /\ SourceErrors(d, src) = {} /\ TelemetryErrors(d) = {}
      /\ ReplayPlan(d) = p /\ p # NoPlan
  BY DEF Errors
<1>2. r.sealed /\ r.strict
  <2> DEFINE f == [seal |-> r.sealed, strict |-> r.strict]
  <2>1. Failed(f) = {} /\ {"seal", "strict"} \subseteq DOMAIN f
    BY <1>1, Zenon DEF ReceiptErrors
  <2> HIDE DEF f
  <2>2. f["seal"] /\ f["strict"]
    BY <2>1, NoneFailed
  <2> QED BY <2>2 DEF f
<1>3. r.source \in Sources /\ r.source = src /\ r.signals = <<p.id, r.source>>
  <2> DEFINE f == [revision |-> r.source \in Sources,
                   verified |-> r.source = src,
                   signals |-> p # NoPlan => r.signals = <<p.id, r.source>>]
  <2>1. Failed(f) = {}
    BY <1>1 DEF SourceErrors
  <2>2. {"revision", "verified", "signals"} \subseteq DOMAIN f
    BY Zenon
  <2> HIDE DEF f
  <2>3. f["revision"] /\ f["verified"] /\ f["signals"]
    BY <2>1, <2>2, NoneFailed
  <2> QED BY <1>1, <2>3 DEF f
<1>4. r.telemetry = p.id /\ d.telemetry.value = p.id
  <2> DEFINE f == [hash |-> r.telemetry = d.telemetry.value,
                   replay |-> p # NoPlan => d.telemetry.value = p.id]
  <2>1. Failed(f) = {}
    BY <1>1 DEF TelemetryErrors
  <2>2. {"hash", "replay"} \subseteq DOMAIN f
    BY Zenon
  <2> HIDE DEF f
  <2>3. f["hash"] /\ f["replay"]
    BY <2>1, <2>2, NoneFailed
  <2> QED BY <1>1, <2>3 DEF f
<1> QED BY <1>2, <1>3, <1>4

LEMMA NewCheckpointFields ==
    ASSUME NEW p, NEW i, NEW h
    PROVE  LET c == NewCheckpoint(p, i, h)
           IN  /\ c.step = i /\ c.previous = h /\ c.plan = p.id /\ c.loss = p.sim.losses[i]
               /\ c.spelled = "int" /\ c.hash = <<i, h, p.id, p.sim.losses[i], "int">>
               /\ c.hash = CheckpointBody(c)
BY DEF NewCheckpoint, Hashed, CheckpointBody

LEMMA AcceptedLengths ==
    ASSUME NEW d, NEW src, IsDirectory(d), Errors(d, src) = {}
    PROVE  LET steps == DOMAIN d.checkpoints
               p == d.plan.value
           IN  /\ steps \in SUBSET Nat /\ IsFiniteSet(steps)
               /\ Cardinality(steps) = Len(p.sim.losses)
               /\ ParseOrder(d) = Sorted(steps)
               /\ d.receipt.value.output = Total(d)
               /\ Total(d) <= p.budget["output"]
<1> DEFINE steps == DOMAIN d.checkpoints
           p == d.plan.value
           r == d.receipt.value
           count == Cardinality(steps)
<1>1. /\ EnumerationErrors(d) = {} /\ AdmissionErrors(d) = {} /\ MeteringErrors(d) = {}
      /\ ReplayPlan(d) = p /\ p # NoPlan /\ Simulatable(p)
  BY AcceptedPlan DEF Errors
<1>2. Complete(d) /\ Regular(d) /\ CountOK(d)
  <2> DEFINE f == [maximum |-> Complete(d), regular |-> Regular(d), count |-> CountOK(d)]
  <2>1. Failed(f) = {}
    BY <1>1 DEF EnumerationErrors
  <2>2. {"maximum", "regular", "count"} \subseteq DOMAIN f
    BY Zenon
  <2> HIDE DEF f
  <2>3. f["maximum"] /\ f["regular"] /\ f["count"]
    BY <2>1, <2>2, NoneFailed
  <2> QED BY <2>3 DEF f
<1>3. count = Len(p.sim.losses)
  BY <1>1, <1>2, ValidSteps DEF CountOK
<1>4. steps \in SUBSET Nat /\ IsFiniteSet(steps)
  <2>1. steps \in SUBSET (0 .. MaxSteps)
    BY DEF IsDirectory, IsCheckpoints, Names
  <2>2. IsFiniteSet(0 .. MaxSteps)
    BY PlanAssumption, FS_Interval
  <2>3. IsFiniteSet(steps)
    BY <2>1, <2>2, FS_Subset
  <2> QED BY <2>1, <2>3
<1>5. \A f \in Files : d[f].kind = "file"
  BY <1>1, <1>2 DEF MeteringErrors
<1>6. ParseOrder(d) = Sorted(steps)
  BY <1>1, <1>2, <1>5 DEF ParseOrder, MayParse
<1>7. r.output = Total(d) /\ Total(d) <= p.budget["output"]
  <2> DEFINE f == [output |-> r.output = Total(d),
                   budget |-> p # NoPlan => Total(d) <= p.budget["output"]]
  <2>1. Failed(f) = {}
    BY <1>1, <1>2, <1>5 DEF MeteringErrors
  <2>2. {"output", "budget"} \subseteq DOMAIN f
    BY Zenon
  <2> HIDE DEF f
  <2>3. f["output"] /\ f["budget"]
    BY <2>1, <2>2, NoneFailed
  <2> QED BY <1>1, <2>3 DEF f
<1> QED BY <1>3, <1>4, <1>6, <1>7

LEMMA AcceptedCheckpoint ==
    ASSUME NEW d, NEW src, IsDirectory(d), Errors(d, src) = {},
           NEW i \in 1 .. Len(d.plan.value.sim.losses)
    PROVE  LET f == d.checkpoints[i]
               c == f.value
               p == d.plan.value
           IN  /\ DOMAIN d.checkpoints = 1 .. Len(p.sim.losses)
               /\ f.json /\ c.hash = CheckpointBody(c)
               /\ c.step = i /\ c.previous = ChainOf(d)[i - 1]
               /\ c.plan = p.id /\ c.loss = p.sim.losses[i]
<1> DEFINE p == d.plan.value
           n == Len(p.sim.losses)
           steps == DOMAIN d.checkpoints
           order == ParseOrder(d)
           position(j, name) ==
               LET c == d.checkpoints[name].value
               IN  /\ d.checkpoints[name].json
                   /\ name = j /\ c.hash = CheckpointBody(c) /\ c.step = j
                   /\ c.previous = ChainOf(d)[j - 1]
                   /\ Meaning(c) = Meaning(NewCheckpoint(p, j, ChainOf(d)[j - 1]))
<1>1. /\ ChainErrors(d) = {} /\ ReplayPlan(d) = p /\ p # NoPlan /\ Simulatable(p)
      /\ order = Sorted(steps) /\ Cardinality(steps) = n
      /\ steps \in SUBSET Nat /\ IsFiniteSet(steps)
  BY AcceptedPlan, AcceptedLengths DEF Errors
<1>2. DOMAIN order = 1 .. n
  BY <1>1 DEF Sorted
<1>3. ASSUME NEW j \in 1 .. n PROVE position(j, order[j])
  <2> DEFINE name == order[j]
             previous == ChainOf(d)[j - 1]
             c == d.checkpoints[name].value
             f == [filename |-> name = j,
                   hash |-> c.hash = CheckpointBody(c),
                   step |-> c.step = j,
                   chain |-> c.previous = previous,
                   binding |-> c.plan = d.receipt.value.plan,
                   replay |-> p # NoPlan =>
                       Meaning(c) = Meaning(NewCheckpoint(p, j, previous))]
  <2>1. CheckpointErrors(d, j, name, previous) = {}
    BY <1>1, <1>2, <1>3 DEF ChainErrors
  <2>2. d.checkpoints[name].json /\ Failed(f) = {}
    BY <1>1, <2>1 DEF CheckpointErrors
  <2>3. {"filename", "hash", "step", "chain", "replay"} \subseteq DOMAIN f
    BY Zenon
  <2> HIDE DEF f
  <2>4. f["filename"] /\ f["hash"] /\ f["step"] /\ f["chain"] /\ f["replay"]
    BY <2>2, <2>3, NoneFailed
  <2> QED BY <1>1, <2>2, <2>4 DEF f
<1>4. steps = 1 .. n
  BY <1>1, <1>3, SortedIsOrder
<1>5. position(i, i)
  BY <1>3
<1>6. d.checkpoints[i].value.plan = p.id /\ d.checkpoints[i].value.loss = p.sim.losses[i]
  <2> DEFINE c == d.checkpoints[i].value
             x == NewCheckpoint(p, i, ChainOf(d)[i - 1])
  <2>1. Meaning(c) = Meaning(x)
    BY <1>5
  <2>2. x.plan = p.id /\ x.loss = p.sim.losses[i]
    BY NewCheckpointFields
  <2> HIDE DEF c, x
  <2>3. c.plan = x.plan /\ c.loss = x.loss
    BY <2>1 DEF Meaning
  <2> QED BY <2>2, <2>3 DEF c
<1> QED BY <1>4, <1>5, <1>6

(* When the paths are in their places and parse, the chain is the list of their hashes. *)
LEMMA ChainIs ==
    ASSUME NEW d, NEW n \in Nat, ParseOrder(d) = [i \in 1 .. n |-> i],
           \A i \in 1 .. n : d.checkpoints[i].json
    PROVE  /\ ChainOf(d)[0] = None
           /\ \A i \in 1 .. n : ChainOf(d)[i] = d.checkpoints[i].value.hash
           /\ ChainHead(d) = ChainOf(d)[n]
<1> DEFINE order == ParseOrder(d)
           chain == [i \in 0 .. n |-> IF i = 0 THEN None ELSE d.checkpoints[i].value.hash]
           next(g) == [i \in 0 .. Len(order) |->
                          IF i = 0 THEN None
                          ELSE LET f == d.checkpoints[order[i]]
                               IN  IF f.json THEN f.value.hash ELSE g[i - 1]]
<1>1. Len(order) = n
  OBVIOUS
<1>2. ASSUME NEW g PROVE next(g) = chain
  <2>1. ASSUME NEW i \in 0 .. n PROVE next(g)[i] = chain[i]
    <3>1. CASE i = 0
      BY <1>1, <3>1
    <3>2. CASE i # 0
      <4>1. i \in 1 .. n
        BY <3>2
      <4>2. order[i] = i /\ d.checkpoints[i].json
        BY <4>1
      <4> QED BY <1>1, <3>2, <4>2
    <3> QED BY <3>1, <3>2
  <2>2. DOMAIN next(g) = 0 .. n /\ next(g) = [i \in DOMAIN next(g) |-> next(g)[i]]
    BY <1>1
  <2> QED BY <2>1, <2>2
<1>3. ChainOf(d) = CHOOSE g : g = next(g)
  BY DEF ChainOf
<1> HIDE DEF next
<1>4. ChainOf(d) = chain
  BY <1>2, <1>3
<1> QED BY <1>1, <1>4 DEF ChainHead

LEMMA AcceptedChain ==
    ASSUME NEW d, NEW src, IsDirectory(d), Errors(d, src) = {}
    PROVE  LET n == Len(d.plan.value.sim.losses)
           IN  /\ n \in Nat \ {0}
               /\ ChainOf(d)[0] = None
               /\ \A i \in 1 .. n : ChainOf(d)[i] = d.checkpoints[i].value.hash
               /\ ChainHead(d) = d.checkpoints[n].value.hash
<1> DEFINE n == Len(d.plan.value.sim.losses)
<1>1. ParseOrder(d) = Sorted(DOMAIN d.checkpoints) /\ n \in Nat \ {0} /\ n \in 1 .. n
  BY AcceptedPlan, AcceptedLengths, ValidSteps
<1>2. \A i \in 1 .. n : DOMAIN d.checkpoints = 1 .. n /\ d.checkpoints[i].json
  BY AcceptedCheckpoint
<1> HIDE DEF n
<1>3. DOMAIN d.checkpoints = 1 .. n
  BY <1>1, <1>2
<1>4. ParseOrder(d) = [i \in 1 .. n |-> i]
  BY <1>1, <1>3, SortedInterval
<1>5. /\ ChainOf(d)[0] = None
      /\ \A i \in 1 .. n : ChainOf(d)[i] = d.checkpoints[i].value.hash
      /\ ChainHead(d) = ChainOf(d)[n]
  BY <1>1, <1>2, <1>4, ChainIs
<1> QED BY <1>1, <1>5 DEF n

LEMMA ChainFields ==
    ASSUME NEW p, NEW i \in 1 .. Len(p.sim.losses)
    PROVE  LET c == CheckpointChain(p)[i]
           IN  c.step = i /\ c.plan = p.id /\ c.loss = p.sim.losses[i]
BY NewCheckpointFields DEF CheckpointChain

(***************************************************************************)
(* hash links the first n checkpoints of a plan to one another; whatever    *)
(* does is the recursion of CheckpointChain.                                *)
(***************************************************************************)
Links(p, hash, n) ==
    hash[0] = None /\ \A i \in 1 .. n : hash[i] = NewCheckpoint(p, i, hash[i - 1]).hash

LEMMA SameLinks ==
    ASSUME NEW p, NEW n \in Nat, NEW f, NEW g, Links(p, f, n), Links(p, g, n)
    PROVE  \A i \in 0 .. n : f[i] = g[i]
<1> DEFINE S == {i \in 0 .. n : f[i] # g[i]}
<1> SUFFICES ASSUME S # {} PROVE FALSE
  OBVIOUS
<1>1. PICK i \in S : \A j \in S : i <= j
  <2>1. S \in SUBSET Nat
    OBVIOUS
  <2> QED BY <2>1, LeastElement
<1>2. i \in 1 .. n
  BY DEF Links
<1>3. i - 1 \in 0 .. n /\ f[i - 1] = g[i - 1]
  BY <1>1, <1>2
<1> QED BY <1>2, <1>3 DEF Links

LEMMA ChainFrom ==
    ASSUME NEW p, NEW g, Len(p.sim.losses) \in Nat, Links(p, g, Len(p.sim.losses))
    PROVE  \A i \in 1 .. Len(p.sim.losses) :
               CheckpointChain(p)[i] = NewCheckpoint(p, i, g[i - 1])
<1>1. PICK n \in Nat : n = Len(p.sim.losses) /\ Links(p, g, n)
  OBVIOUS
<1> DEFINE next(f) ==
               [i \in 0 .. n |-> IF i = 0 THEN None ELSE NewCheckpoint(p, i, f[i - 1]).hash]
           chosen == CHOOSE f : f = next(f)
           table == [i \in 0 .. n |-> g[i]]
<1>2. table = next(table)
  <2>1. ASSUME NEW i \in 0 .. n, i # 0 PROVE i \in 1 .. n /\ table[i - 1] = g[i - 1]
    BY <2>1
  <2> QED BY <1>1, <2>1 DEF Links
<1>3. CheckpointChain(p) = [i \in 1 .. n |-> NewCheckpoint(p, i, chosen[i - 1])]
  BY <1>1 DEF CheckpointChain
<1> HIDE DEF next
<1>4. chosen = next(chosen)
  BY <1>2
<1> HIDE DEF chosen
<1>5. Links(p, chosen, n)
  <2>1. chosen[0] = None
    BY <1>4 DEF next
  <2>2. ASSUME NEW i \in 1 .. n PROVE chosen[i] = NewCheckpoint(p, i, chosen[i - 1]).hash
    <3>1. i \in 0 .. n /\ i # 0
      OBVIOUS
    <3> QED BY <1>4, <3>1 DEF next
  <2> QED BY <2>1, <2>2 DEF Links
<1>6. \A i \in 0 .. n : chosen[i] = g[i]
  <2>1. Links(p, g, n)
    BY <1>1
  <2> QED BY <1>5, <2>1, SameLinks
<1>7. ASSUME NEW i \in 1 .. n PROVE chosen[i - 1] = g[i - 1]
  BY <1>6
<1> QED BY <1>1, <1>3, <1>7

LEMMA AcceptedReplay ==
    ASSUME NEW d, NEW src, IsDirectory(d), Errors(d, src) = {},
           \A i \in DOMAIN d.checkpoints : d.checkpoints[i].value.spelled = "int"
    PROVE  LET p == d.plan.value
               n == Len(p.sim.losses)
           IN  /\ \A i \in 1 .. n : d.checkpoints[i].value = CheckpointChain(p)[i]
               /\ ChainHead(d) = CheckpointChain(p)[n].hash
<1> DEFINE p == d.plan.value
           n == Len(p.sim.losses)
           c(i) == d.checkpoints[i].value
           g == [i \in 0 .. n |-> IF i = 0 THEN None ELSE c(i).hash]
<1>1. n \in Nat \ {0} /\ ChainHead(d) = c(n).hash
  BY AcceptedChain
<1>2. ASSUME NEW i \in 1 .. n PROVE g[i - 1] = ChainOf(d)[i - 1]
  BY <1>1, AcceptedChain
<1>3. ASSUME NEW i \in 1 .. n PROVE c(i) = NewCheckpoint(p, i, g[i - 1])
  <2> DEFINE x == NewCheckpoint(p, i, g[i - 1])
  <2>1. /\ c(i).step = i /\ c(i).previous = g[i - 1] /\ c(i).plan = p.id
        /\ c(i).loss = p.sim.losses[i] /\ c(i).spelled = "int"
        /\ c(i).hash = CheckpointBody(c(i)) /\ IsCheckpoint(c(i))
    <3>1. /\ DOMAIN d.checkpoints = 1 .. n /\ d.checkpoints[i].json
          /\ c(i).step = i /\ c(i).previous = ChainOf(d)[i - 1] /\ c(i).plan = p.id
          /\ c(i).loss = p.sim.losses[i] /\ c(i).hash = CheckpointBody(c(i))
      BY AcceptedCheckpoint
    <3>2. c(i).spelled = "int" /\ IsCheckpoint(c(i))
      BY <3>1 DEF IsDirectory, IsCheckpoints
    <3> QED BY <1>2, <3>1, <3>2
  <2>2. /\ x.step = i /\ x.previous = g[i - 1] /\ x.plan = p.id /\ x.loss = p.sim.losses[i]
        /\ x.spelled = "int" /\ x.hash = CheckpointBody(x) /\ IsCheckpoint(x)
    BY NewCheckpointFields, NewCheckpointShape
  <2> HIDE DEF x, c, g
  <2>3. CheckpointBody(c(i)) = CheckpointBody(x)
    BY <2>1, <2>2 DEF CheckpointBody
  <2>4. c(i) = x
    BY <2>1, <2>2, <2>3 DEF IsCheckpoint
  <2> QED BY <2>4 DEF x
<1>4. Links(p, g, n)
  <2>1. g[0] = None
    BY <1>1
  <2>2. ASSUME NEW i \in 1 .. n PROVE g[i] = NewCheckpoint(p, i, g[i - 1]).hash
    <3>1. i \in 0 .. n /\ i # 0
      BY <1>1
    <3>2. g[i] = c(i).hash
      BY <3>1
    <3> HIDE DEF c, g
    <3> QED BY <1>3, <3>2
  <2> HIDE DEF g
  <2> QED BY <2>1, <2>2 DEF Links
<1>5. \A i \in 1 .. n : CheckpointChain(p)[i] = NewCheckpoint(p, i, g[i - 1])
  <2> HIDE DEF g
  <2> QED BY <1>1, <1>4, ChainFrom
<1>6. \A i \in 1 .. n : c(i) = CheckpointChain(p)[i]
  BY <1>3, <1>5
<1>7. ChainHead(d) = CheckpointChain(p)[n].hash
  <2>1. n \in 1 .. n
    BY <1>1
  <2> QED BY <1>1, <1>6, <2>1
<1> QED BY <1>6, <1>7

LEMMA AcceptedCandidate ==
    ASSUME NEW d, NEW src, IsDirectory(d), Errors(d, src) = {}
    PROVE  /\ d.candidate.value = NewCandidate(d.plan.value, ChainHead(d))
           /\ d.receipt.value.candidate = d.candidate.value.hash
           /\ d.receipt.value.head = ChainHead(d)
<1> DEFINE p == d.plan.value
           r == d.receipt.value
           c == d.candidate.value
           x == NewCandidate(p, ChainHead(d))
<1>1. /\ ChainErrors(d) = {} /\ CandidateErrors(d) = {}
      /\ ReplayPlan(d) = p /\ p # NoPlan
  BY AcceptedPlan DEF Errors
<1>2. r.head = ChainHead(d)
  <2> DEFINE f == [head |-> r.head = ChainHead(d)]
  <2>1. Failed(f) = {}
    BY <1>1 DEF ChainErrors
  <2>2. "head" \in DOMAIN f
    BY Zenon
  <2> HIDE DEF f
  <2>3. f["head"]
    BY <2>1, <2>2, NoneFailed
  <2> QED BY <2>3 DEF f
<1>3. /\ d.candidate.json /\ c.hash = CandidateBody(c) /\ c.hash = r.candidate
      /\ CandidateBody(c) = CandidateBody(x)
  <2> DEFINE f == [hash |-> c.hash = CandidateBody(c) /\ c.hash = r.candidate,
                   boundary |-> c.boundary,
                   replay |-> p # NoPlan => CandidateBody(c) = CandidateBody(x)]
  <2>1. d.candidate.json /\ Failed(f) = {}
    BY <1>1 DEF CandidateErrors, Readable
  <2>2. "hash" \in DOMAIN f /\ "replay" \in DOMAIN f
    BY Zenon
  <2> HIDE DEF f
  <2>3. f["hash"] /\ f["replay"]
    BY <2>1, <2>2, NoneFailed
  <2> QED BY <1>1, <2>1, <2>3 DEF f
<1>4. IsCandidate(c)
  BY <1>3 DEF IsDirectory
<1>5. IsCandidate(x) /\ x.hash = CandidateBody(x)
  <2>1. x.hash = CandidateBody(x)
    BY DEF NewCandidate, CandidateBody
  <2> QED BY <2>1, NewCandidateShape
<1> HIDE DEF c, x
<1>6. c = x
  BY <1>3, <1>4, <1>5 DEF IsCandidate, CandidateBody
<1> QED BY <1>2, <1>3, <1>6 DEF c, x

LEMMA LinksExist ==
    ASSUME NEW p PROVE \A n \in Nat : \E g : Links(p, g, n)
<1> DEFINE S == {n \in Nat : ~ \E g : Links(p, g, n)}
<1> SUFFICES ASSUME S # {} PROVE FALSE
  OBVIOUS
<1>1. PICK n \in S : \A m \in S : n <= m
  <2>1. S \in SUBSET Nat
    OBVIOUS
  <2> QED BY <2>1, LeastElement
<1>2. n # 0
  <2>1. Links(p, [i \in {0} |-> None], 0)
    BY DEF Links
  <2> QED BY <2>1
<1>3. n - 1 \in Nat /\ n - 1 \notin S
  BY <1>1, <1>2
<1>4. PICK g : Links(p, g, n - 1)
  BY <1>3
<1> DEFINE h == [i \in 0 .. n |-> IF i = n THEN NewCheckpoint(p, n, g[n - 1]).hash ELSE g[i]]
<1>5. h[0] = None
  BY <1>2, <1>4 DEF Links
<1>6. ASSUME NEW i \in 1 .. n PROVE h[i] = NewCheckpoint(p, i, h[i - 1]).hash
  <2>1. i - 1 \in 0 .. n /\ i - 1 # n /\ h[i - 1] = g[i - 1]
    OBVIOUS
  <2>2. CASE i = n
    BY <2>1, <2>2
  <2>3. CASE i # n
    <3>1. i \in 1 .. n - 1
      BY <2>3
    <3>2. g[i] = NewCheckpoint(p, i, g[i - 1]).hash
      BY <1>4, <3>1 DEF Links
    <3> QED BY <2>1, <2>3, <3>2
  <2> QED BY <2>2, <2>3
<1>7. Links(p, h, n)
  BY <1>5, <1>6 DEF Links
<1> QED BY <1>7

(***************************************************************************)
(* The evidence a directory must hold, file by file.                        *)
(***************************************************************************)
LEMMA EvidenceFiles ==
    ASSUME NEW p, NEW s, NEW n
    PROVE  LET e == Evidence(p, s, n)
               r == NewReceipt(p, s, n)
           IN  /\ e.receipt.value = r /\ e.plan.value = p /\ e.telemetry.value = p.id
               /\ e.candidate.value = NewCandidate(p, r.head)
               /\ DOMAIN e.checkpoints = 1 .. Len(p.sim.losses)
               /\ \A i \in 1 .. Len(p.sim.losses) :
                      e.checkpoints[i].value = CheckpointChain(p)[i]
BY DEF Evidence, File

LEMMA ReceiptFieldsOf ==
    ASSUME NEW p, NEW s, NEW n
    PROVE  LET r == NewReceipt(p, s, n)
               head == CheckpointChain(p)[Len(p.sim.losses)].hash
           IN  /\ r.plan = p.id /\ r.facts = p.id
               /\ r.source = s /\ r.signals = <<p.id, s>> /\ r.telemetry = p.id
               /\ r.count = Len(p.sim.losses) /\ r.head = head
               /\ r.candidate = NewCandidate(p, head).hash /\ r.output = n
BY DEF NewReceipt

LEMMA ReceiptIsSealed ==
    ASSUME NEW p, NEW s, NEW n
    PROVE  NewReceipt(p, s, n).strict = TRUE /\ NewReceipt(p, s, n).sealed = TRUE
BY DEF NewReceipt

LEMMA AcceptedIsReplay == IsDirectory(dir) => AcceptsOnlyReplay
<1> SUFFICES ASSUME IsDirectory(dir), Accepted PROVE AcceptsOnlyReplay
  BY DEF AcceptsOnlyReplay
<1> DEFINE p == dir.plan.value
           r == dir.receipt.value
           n == Len(p.sim.losses)
           e == Evidence(p, source, r.output)
           steps == DOMAIN dir.checkpoints
           x == NewReceipt(p, source, r.output)
           Written(d) == [f \in Files |-> d[f].value]
<1>1. Errors(dir, source) = {}
  BY DEF Accepted
<1>2. /\ Simulatable(p) /\ dir.receipt.json
      /\ r.plan = p.id /\ r.facts = p.id /\ r.count = n
  BY <1>1, AcceptedPlan, ValidSteps
<1>3. /\ r.sealed /\ r.strict /\ r.source = source /\ r.signals = <<p.id, source>>
      /\ r.telemetry = p.id /\ dir.telemetry.value = p.id /\ source # NoSource
  BY <1>1, AcceptedReceipt, EvidenceAssumption
<1>4. n \in Nat \ {0} /\ r.output = Total(dir) /\ Total(dir) <= p.budget["output"]
  BY <1>1, AcceptedLengths, AcceptedChain
<1>5. steps = 1 .. n
  <2>1. 1 \in 1 .. n
    BY <1>4
  <2> QED BY <1>1, <2>1, AcceptedCheckpoint
<1>6. /\ e.receipt.value = x /\ e.plan.value = p /\ e.telemetry.value = p.id
      /\ e.candidate.value = NewCandidate(p, x.head)
      /\ DOMAIN e.checkpoints = 1 .. n
      /\ \A i \in 1 .. n : e.checkpoints[i].value = CheckpointChain(p)[i]
  BY EvidenceFiles
<1> HIDE DEF e, x
<1>7. ASSUME NEW i \in steps
      PROVE  LET c == dir.checkpoints[i].value
                 y == e.checkpoints[i].value
             IN  <<c.step, c.plan, c.loss>> = <<y.step, y.plan, y.loss>>
  <2>1. LET c == dir.checkpoints[i].value
        IN  c.step = i /\ c.plan = p.id /\ c.loss = p.sim.losses[i]
    <3>1. i \in 1 .. n
      BY <1>5
    <3> QED BY <1>1, <3>1, AcceptedCheckpoint
  <2>2. LET y == e.checkpoints[i].value
        IN  y.step = i /\ y.plan = p.id /\ y.loss = p.sim.losses[i]
    <3>1. i \in 1 .. n /\ e.checkpoints[i].value = CheckpointChain(p)[i]
      BY <1>5, <1>6
    <3> QED BY <3>1, ChainFields
  <2> QED BY <2>1, <2>2
<1>8. ASSUME \A i \in steps : dir.checkpoints[i].value.spelled = "int"
      PROVE  /\ Written(dir) = Written(e)
             /\ \A i \in steps : dir.checkpoints[i].value = e.checkpoints[i].value
  <2> DEFINE head == CheckpointChain(p)[n].hash
  <2>1. /\ \A i \in 1 .. n : dir.checkpoints[i].value = CheckpointChain(p)[i]
        /\ ChainHead(dir) = head
    BY <1>1, <1>8, AcceptedReplay
  <2>2. /\ dir.candidate.value = NewCandidate(p, head) /\ r.head = head
        /\ r.candidate = NewCandidate(p, head).hash
    BY <1>1, <2>1, AcceptedCandidate
  <2>3. /\ x.strict = TRUE /\ x.sealed = TRUE /\ x.plan = p.id /\ x.facts = p.id
        /\ x.source = source /\ x.signals = <<p.id, source>> /\ x.telemetry = p.id
        /\ x.count = n /\ x.head = head /\ x.candidate = NewCandidate(p, head).hash
        /\ x.output = r.output
    <3>1. x.strict = TRUE /\ x.sealed = TRUE
      BY ReceiptIsSealed, Zenon DEF x
    <3>2. /\ x.plan = p.id /\ x.facts = p.id
          /\ x.source = source /\ x.signals = <<p.id, source>> /\ x.telemetry = p.id
          /\ x.count = n /\ x.head = head /\ x.candidate = NewCandidate(p, head).hash
          /\ x.output = r.output
      BY ReceiptFieldsOf DEF x
    <3> QED BY <3>1, <3>2
  <2>4. IsReceipt(r) /\ IsReceipt(x)
    BY <1>2, NewReceiptShape DEF IsDirectory, x
  <2> HIDE DEF head, r
  <2>5. ASSUME NEW f \in ReceiptFields PROVE r[f] = x[f]
    <3>1. r.strict = TRUE /\ r.sealed = TRUE
      BY <1>3, <2>4 DEF IsReceipt
    <3> QED BY <1>2, <1>3, <2>2, <2>3, <3>1 DEF ReceiptFields
  <2>6. r = x
    BY <2>4, <2>5 DEF IsReceipt
  <2>7. ASSUME NEW f \in Files PROVE dir[f].value = e[f].value
    BY <1>3, <1>6, <2>2, <2>3, <2>6 DEF Files, r
  <2> QED BY <1>5, <1>6, <2>1, <2>7
<1> QED BY <1>2, <1>3, <1>4, <1>5, <1>6, <1>7, <1>8 DEF AcceptsOnlyReplay, e

(***************************************************************************)
(* Whatever was done to a published directory, in whatever order, a         *)
(* directory verify_forge_run (model_forge.py, lines 1552 to 1926) accepts  *)
(* is the replay of its plan.json under the source the verifier's own image *)
(* attests, up to the formatting of the JSON and to numbers spelled as      *)
(* truth values.                                                            *)
(***************************************************************************)
THEOREM VerifierReplays == Spec => []AcceptsOnlyReplay
<1>1. Init => IsDirectory(dir)
  BY EmptyDirectory
<1>2. IsDirectory(dir) /\ MeterInv /\ [Next]_vars => IsDirectory(dir)'
  BY DirectoryStep
<1>3. IsDirectory(dir) => AcceptsOnlyReplay
  BY AcceptedIsReplay
<1> QED BY <1>1, <1>2, <1>3, MeterInit, MeterStep, PTL DEF Spec

(* The four files that are not checkpoints. *)
LEMMA SumOfFiles ==
    ASSUME NEW f, \A x \in Files : f[x] \in Nat
    PROVE  SumFunctionOnSet(f, Files)
               = f["receipt"] + f["plan"] + f["telemetry"] + f["candidate"]
<1> DEFINE at(T, x) == IF x \in T THEN f[x] ELSE 0
           h == [T \in SUBSET Files |->
                    at(T, "receipt") + at(T, "plan") + at(T, "telemetry") + at(T, "candidate")]
<1>1. IsFiniteSet(Files)
  <2>1. Files = ((({} \cup {"receipt"}) \cup {"plan"}) \cup {"telemetry"}) \cup {"candidate"}
    BY DEF Files
  <2> QED BY <2>1, FS_EmptySet, FS_AddElement
<1>2. h[{}] = 0
  OBVIOUS
<1>3. ASSUME NEW T \in SUBSET Files, NEW x \in T PROVE h[T] = f[x] + h[T \ {x}]
  <2>1. T \ {x} \in SUBSET Files /\ x \in Files
    OBVIOUS
  <2>2. \A y \in Files : at(T, y) \in Nat /\ at(T \ {x}, y) = IF y = x THEN 0 ELSE at(T, y)
    OBVIOUS
  <2>3. at(T, x) = f[x]
    OBVIOUS
  <2>4. Files = {"receipt", "plan", "telemetry", "candidate"}
    BY DEF Files
  <2>5. h[T] = at(T, "receipt") + at(T, "plan") + at(T, "telemetry") + at(T, "candidate")
    OBVIOUS
  <2>6. h[T \ {x}] = at(T \ {x}, "receipt") + at(T \ {x}, "plan") + at(T \ {x}, "telemetry")
                       + at(T \ {x}, "candidate")
    BY <2>1
  <2> HIDE DEF at, h
  <2> QED BY <2>1, <2>2, <2>3, <2>4, <2>5, <2>6
<1>4. h[Files] = f["receipt"] + f["plan"] + f["telemetry"] + f["candidate"]
  BY DEF Files
<1> HIDE DEF h
<1>5. AddsUp(f, Files, h)
  BY <1>2, <1>3 DEF AddsUp
<1>6. SumFunctionOnSet(f, Files) = h[Files]
  BY <1>1, <1>5, SumIs
<1> QED BY <1>4, <1>6

-----------------------------------------------------------------------------
(***************************************************************************)
(* p is a plan that passed, and n the settled length of the evidence that   *)
(* simulating it under the source s writes.                                 *)
(***************************************************************************)
IsSettled(p, s, n) ==
    /\ Simulatable(p) /\ s \in Sources
    /\ n \in Nat /\ n = Actual(p, n) /\ n <= p.budget["output"]
    /\ Len(p.sim.losses) * EventBytes <= TelemetryLimit

LEMMA PlanLengths ==
    ASSUME NEW p, Simulatable(p)
    PROVE  /\ p.bytes \in Nat /\ p.receiptBytes \in Nat
           /\ FixedBytes(p) = p.bytes + Len(p.sim.losses) * CheckpointBytes
                              + Len(p.sim.losses) * EventBytes + CandidateBytes
<1> DEFINE l == Len(p.sim.losses)
           b == p.bytes
<1>1. b \in Nat /\ p.receiptBytes \in Nat
  BY ValidSteps, EvidenceAssumption
<1>2. l \in Nat
  BY ValidSteps
<1>3. FixedBytes(p) = b + l * (CheckpointBytes + EventBytes) + CandidateBytes
  BY DEF FixedBytes
<1> HIDE DEF l, b
<1>4. CheckpointBytes \in Nat /\ EventBytes \in Nat /\ CandidateBytes \in Nat
  BY EvidenceAssumption
<1>5. l * (CheckpointBytes + EventBytes) = l * CheckpointBytes + l * EventBytes
  BY <1>2, <1>4
<1>6. l * CheckpointBytes \in Nat /\ l * EventBytes \in Nat
  BY <1>2, <1>4
<1>7. FixedBytes(p) = b + l * CheckpointBytes + l * EventBytes + CandidateBytes
  BY <1>1, <1>3, <1>4, <1>5, <1>6
<1> QED BY <1>1, <1>7 DEF l, b

(* The lengths of the files add up to the length the receipt names. *)
LEMMA EvidenceLengths ==
    ASSUME NEW p, NEW s, NEW n, IsSettled(p, s, n)
    PROVE  LET d == Evidence(p, s, n)
           IN  /\ FixedLength(d) \in Nat /\ FixedLength(d) <= n
               /\ Total(d) = n
<1> DEFINE d == Evidence(p, s, n)
           l == Len(p.sim.losses)
           fixed == [f \in Files |-> d[f].bytes]
           each == [i \in DOMAIN d.checkpoints |-> d.checkpoints[i].bytes]
<1>1. /\ d.receipt.bytes = ReceiptBytes(p, n) /\ d.plan.bytes = p.bytes
      /\ d.telemetry.bytes = l * EventBytes /\ d.candidate.bytes = CandidateBytes
      /\ DOMAIN d.checkpoints = 1 .. l
      /\ \A i \in 1 .. l : d.checkpoints[i].bytes = CheckpointBytes
  BY DEF Evidence, File
<1>2. FixedLength(d) = SumFunctionOnSet(fixed, Files)
  BY DEF FixedLength, SumFunction
<1>3. Total(d) = FixedLength(d) + SumFunctionOnSet(each, 1 .. l)
  BY <1>1 DEF Total, SumFunction
<1>4. /\ l \in Nat /\ l * EventBytes \in Nat /\ l * CheckpointBytes \in Nat
      /\ CheckpointBytes \in Nat /\ CandidateBytes \in Nat /\ n \in Nat
      /\ n = FixedBytes(p) + ReceiptBytes(p, n)
  BY ValidSteps, EvidenceAssumption DEF IsSettled, Actual
<1>5. p.bytes \in Nat /\ ReceiptBytes(p, n) \in Nat
  <2>1. p.bytes \in Nat /\ p.receiptBytes \in Nat
    BY PlanLengths DEF IsSettled
  <2>2. Digits(n) \in Nat
    BY <1>4, DigitsType
  <2> QED BY <2>1, <2>2 DEF ReceiptBytes
<1>6. SumFunctionOnSet(each, 1 .. l) = l * CheckpointBytes
  <2>1. \A i \in 1 .. l : each[i] = CheckpointBytes
    BY <1>1
  <2>2. IsFiniteSet(1 .. l) /\ Cardinality(1 .. l) = l
    <3>1. l \in Nat
      BY <1>4
    <3> HIDE DEF l
    <3> QED BY <3>1, FS_Interval
  <2> HIDE DEF each
  <2> QED BY <1>4, <2>1, <2>2, SumOfEqual
<1>7. SumFunctionOnSet(fixed, Files)
          = ReceiptBytes(p, n) + p.bytes + l * EventBytes + CandidateBytes
  <2>1. /\ fixed["receipt"] = ReceiptBytes(p, n) /\ fixed["plan"] = p.bytes
        /\ fixed["telemetry"] = l * EventBytes /\ fixed["candidate"] = CandidateBytes
    BY <1>1 DEF Files
  <2> HIDE DEF fixed
  <2>2. \A x \in Files : fixed[x] \in Nat
    BY <1>4, <1>5, <2>1 DEF Files
  <2> QED BY <2>1, <2>2, SumOfFiles
<1>8. FixedBytes(p) = p.bytes + l * CheckpointBytes + l * EventBytes + CandidateBytes
  BY PlanLengths DEF IsSettled
<1> HIDE DEF d, l, fixed, each
<1>9. FixedLength(d) \in Nat /\ FixedLength(d) <= n /\ Total(d) = n
  BY <1>2, <1>3, <1>4, <1>5, <1>6, <1>7, <1>8
<1> QED BY <1>9 DEF d

(* The files of the evidence, each of the kind and length the verifier looks at. *)
LEMMA EvidenceKinds ==
    ASSUME NEW p, NEW s, NEW n
    PROVE  LET d == Evidence(p, s, n)
           IN  /\ \A f \in Files : d[f].kind = "file" /\ d[f].json
               /\ \A i \in DOMAIN d.checkpoints :
                      /\ d.checkpoints[i].kind = "file" /\ d.checkpoints[i].json
                      /\ d.checkpoints[i].bytes = CheckpointBytes
               /\ d.receipt.bytes = ReceiptBytes(p, n) /\ d.plan.bytes = p.bytes
               /\ d.telemetry.bytes = Len(p.sim.losses) * EventBytes
               /\ d.candidate.bytes = CandidateBytes
BY DEF Evidence, File, Files

(***************************************************************************)
(* The settled evidence of a run whose plan.json and receipt are no longer  *)
(* than a record: none of verify_forge_run's lists of errors is empty by    *)
(* accident of another.                                                     *)
(***************************************************************************)
Fits(p, s, n) ==
    IsSettled(p, s, n) /\ p.bytes <= RecordLimit /\ ReceiptBytes(p, n) <= RecordLimit

LEMMA FittingPlan ==
    ASSUME NEW p, NEW s, NEW n, Fits(p, s, n)
    PROVE  LET d == Evidence(p, s, n)
           IN  /\ Readable(d.receipt, RecordLimit) /\ Readable(d.plan, RecordLimit)
               /\ Readable(d.candidate, RecordLimit)
               /\ ReplayPlan(d) = p /\ d.plan.value = p
<1> DEFINE d == Evidence(p, s, n)
<1>1. /\ d.plan.value = p /\ Simulatable(p)
      /\ \A f \in {"receipt", "plan", "candidate"} : d[f].kind # "none" /\ d[f].json
      /\ d.receipt.bytes <= RecordLimit /\ d.plan.bytes <= RecordLimit
      /\ d.candidate.bytes <= RecordLimit
  BY EvidenceFiles, EvidenceKinds, EvidenceAssumption DEF Files, Fits, IsSettled
<1> HIDE DEF d
<1> QED BY <1>1 DEF Readable, ReplayPlan, d

LEMMA FittingReceipt ==
    ASSUME NEW p, NEW s, NEW n, Fits(p, s, n)
    PROVE  ReceiptErrors(Evidence(p, s, n)) = {} /\ PlanLinkErrors(Evidence(p, s, n)) = {}
<1> DEFINE d == Evidence(p, s, n)
           r == d.receipt.value
<1>1. r = NewReceipt(p, s, n) /\ d.plan.value = p /\ Readable(d.plan, RecordLimit)
  BY EvidenceFiles, FittingPlan
<1>2. r.sealed /\ r.strict
  BY <1>1, ReceiptIsSealed
<1>3. Simulatable(p) /\ r.plan = p.id /\ r.facts = p.id /\ r.count = p.sim.steps
  BY <1>1, ReceiptFieldsOf, ValidSteps DEF Fits, IsSettled
<1> HIDE DEF d, r
<1>4. ReceiptErrors(d) = {}
  <2> DEFINE f == [seal |-> r.sealed, strict |-> r.strict]
  <2>1. DOMAIN f = {"seal", "strict"}
    BY Zenon
  <2>2. f["seal"] /\ f["strict"]
    BY <1>2, Zenon
  <2>3. ReceiptErrors(d) = Failed(f)
    BY DEF ReceiptErrors, r
  <2> HIDE DEF f
  <2> QED BY <2>1, <2>2, <2>3, AllPassed
<1>5. PlanLinkErrors(d) = {}
  <2> DEFINE f == [valid |-> Simulatable(p),
                   link |-> r.plan = p.id,
                   replay |-> Simulatable(p) => r.facts = p.id /\ r.count = p.sim.steps]
  <2>1. DOMAIN f = {"valid", "link", "replay"}
    BY Zenon
  <2>2. f["valid"] /\ f["link"] /\ f["replay"]
    BY <1>3, Zenon
  <2>3. PlanLinkErrors(d) = Failed(f)
    BY <1>1 DEF PlanLinkErrors, r
  <2> HIDE DEF f
  <2> QED BY <2>1, <2>2, <2>3, AllPassed
<1> QED BY <1>4, <1>5 DEF d

LEMMA FittingSource ==
    ASSUME NEW p, NEW s, NEW n, Fits(p, s, n)
    PROVE  SourceErrors(Evidence(p, s, n), s) = {} /\ TelemetryErrors(Evidence(p, s, n)) = {}
<1> DEFINE d == Evidence(p, s, n)
           r == d.receipt.value
<1>1. /\ r = NewReceipt(p, s, n) /\ ReplayPlan(d) = p /\ d.telemetry.value = p.id
      /\ d.telemetry.kind = "file"
      /\ d.telemetry.bytes <= TelemetryLimit /\ d.telemetry.bytes \in Nat /\ TelemetryLimit \in Nat
  <2>1. r = NewReceipt(p, s, n) /\ ReplayPlan(d) = p /\ d.telemetry.value = p.id
    BY EvidenceFiles, FittingPlan
  <2>2. d.telemetry.kind = "file" /\ d.telemetry.bytes = Len(p.sim.losses) * EventBytes
    BY EvidenceKinds DEF Files
  <2>3. /\ Len(p.sim.losses) * EventBytes <= TelemetryLimit
        /\ Len(p.sim.losses) * EventBytes \in Nat /\ TelemetryLimit \in Nat
    <3> DEFINE l == Len(p.sim.losses)
    <3>1. l \in Nat /\ EventBytes \in Nat /\ TelemetryLimit \in Nat
      BY ValidSteps, EvidenceAssumption DEF Fits, IsSettled
    <3>2. l * EventBytes <= TelemetryLimit
      BY DEF Fits, IsSettled
    <3> HIDE DEF l
    <3>3. l * EventBytes \in Nat
      BY <3>1
    <3> QED BY <3>1, <3>2, <3>3 DEF l
  <2> HIDE DEF d
  <2> QED BY <2>1, <2>2, <2>3
<1>2. /\ r.source \in Sources /\ r.source = s /\ r.signals = <<p.id, r.source>>
      /\ r.telemetry = d.telemetry.value
  BY <1>1, ReceiptFieldsOf DEF Fits, IsSettled
<1> HIDE DEF d, r
<1>3. SourceErrors(d, s) = {}
  <2> DEFINE f == [revision |-> r.source \in Sources,
                   verified |-> r.source = s,
                   signals |-> p # NoPlan => r.signals = <<p.id, r.source>>]
  <2>1. DOMAIN f = {"revision", "verified", "signals"}
    BY Zenon
  <2>2. f["revision"] /\ f["verified"] /\ f["signals"]
    BY <1>2, Zenon
  <2>3. SourceErrors(d, s) = Failed(f)
    BY <1>1 DEF SourceErrors, r
  <2> HIDE DEF f
  <2> QED BY <2>1, <2>2, <2>3, AllPassed
<1>4. TelemetryErrors(d) = {}
  <2> DEFINE f == [hash |-> r.telemetry = d.telemetry.value,
                   replay |-> p # NoPlan => d.telemetry.value = p.id]
  <2>1. DOMAIN f = {"hash", "replay"}
    BY Zenon
  <2>2. f["hash"] /\ f["replay"]
    BY <1>1, <1>2, Zenon
  <2>3. ~(d.telemetry.kind # "file" \/ d.telemetry.bytes > TelemetryLimit)
    BY <1>1
  <2>4. TelemetryErrors(d) = Failed(f)
    BY <1>1, <2>3 DEF TelemetryErrors, r
  <2> HIDE DEF f
  <2> QED BY <2>1, <2>2, <2>4, AllPassed
<1> QED BY <1>3, <1>4 DEF d

LEMMA FittingEnumeration ==
    ASSUME NEW p, NEW s, NEW n, Fits(p, s, n)
    PROVE  LET d == Evidence(p, s, n)
           IN  /\ EnumerationErrors(d) = {} /\ Complete(d) /\ Regular(d) /\ MayParse(d)
               /\ DOMAIN d.checkpoints = 1 .. Len(p.sim.losses)
<1> DEFINE d == Evidence(p, s, n)
           r == d.receipt.value
<1>1. /\ r = NewReceipt(p, s, n) /\ ReplayPlan(d) = p
      /\ DOMAIN d.checkpoints = 1 .. Len(p.sim.losses)
  BY EvidenceFiles, FittingPlan
<1>2. Regular(d) /\ \A f \in Files : d[f].kind = "file"
  BY EvidenceKinds DEF Regular
<1>3. /\ Len(p.sim.losses) \in 1 .. MaxSteps /\ p.sim.steps = Len(p.sim.losses)
      /\ r.count = Len(p.sim.losses)
  BY <1>1, ValidSteps, ReceiptFieldsOf DEF Fits, IsSettled
<1> HIDE DEF d, r
<1>4. Cardinality(DOMAIN d.checkpoints) = Len(p.sim.losses)
  <2> DEFINE l == Len(p.sim.losses)
  <2>1. l \in Nat /\ DOMAIN d.checkpoints = 1 .. l
    BY <1>1, <1>3
  <2> HIDE DEF l
  <2> QED BY <2>1, SortedInterval DEF l
<1>5. Complete(d)
  BY <1>3, <1>4, PlanAssumption DEF Complete
<1>6. CountOK(d)
  BY <1>1, <1>3, <1>4, <1>5 DEF CountOK, r
<1>7. EnumerationErrors(d) = {}
  <2> DEFINE f == [maximum |-> Complete(d), regular |-> Regular(d), count |-> CountOK(d)]
  <2>1. DOMAIN f = {"maximum", "regular", "count"}
    BY Zenon
  <2>2. f["maximum"] /\ f["regular"] /\ f["count"]
    BY <1>2, <1>5, <1>6, Zenon
  <2>3. EnumerationErrors(d) = Failed(f)
    BY DEF EnumerationErrors
  <2> HIDE DEF f
  <2> QED BY <2>1, <2>2, <2>3, AllPassed
<1> QED BY <1>1, <1>2, <1>5, <1>6, <1>7 DEF MayParse, d

LEMMA FittingLengths ==
    ASSUME NEW p, NEW s, NEW n, Fits(p, s, n)
    PROVE  LET d == Evidence(p, s, n)
           IN  AdmissionErrors(d) = {} /\ MeteringErrors(d) = {}
<1> DEFINE d == Evidence(p, s, n)
           r == d.receipt.value
<1>1. /\ FixedLength(d) \in Nat /\ FixedLength(d) <= n /\ Total(d) = n
      /\ n \in Nat /\ n <= p.budget["output"] /\ p.budget["output"] \in Nat
      /\ p.budget["output"] <= MaxOutput
  BY EvidenceLengths, ValidSteps DEF Fits, IsSettled
<1>2. /\ ReplayPlan(d) = p /\ p # NoPlan /\ r.output = n
      /\ MayParse(d) /\ Complete(d) /\ Regular(d)
  <2>1. r = NewReceipt(p, s, n) /\ ReplayPlan(d) = p
    BY EvidenceFiles, FittingPlan
  <2>2. p # NoPlan
    BY EvidenceAssumption DEF Fits, IsSettled, NoPlan, Simulatable, SimulationPlans
  <2> QED BY <2>1, <2>2, ReceiptFieldsOf, FittingEnumeration
<1>3. \A i \in DOMAIN d.checkpoints : d.checkpoints[i].bytes <= RecordLimit
  BY EvidenceKinds, EvidenceAssumption
<1> HIDE DEF d, r
<1>4. OutputLimit(d) = p.budget["output"]
  <2> DEFINE b == p.budget["output"]
  <2>1. OutputLimit(d) = Min({MaxOutput, b})
    BY <1>2 DEF OutputLimit
  <2>2. b \in Nat /\ MaxOutput \in Nat /\ b <= MaxOutput
    BY <1>1, PlanAssumption
  <2> HIDE DEF b
  <2>3. Min({MaxOutput, b}) = b
    BY <2>2 DEF Min
  <2> QED BY <2>1, <2>3 DEF b
<1>5. AdmissionErrors(d) = {}
  <2> DEFINE each == \A i \in DOMAIN d.checkpoints : d.checkpoints[i].bytes <= RecordLimit
             f == [fixed |-> FixedLength(d) <= OutputLimit(d),
                   each |-> each,
                   total |-> Total(d) <= OutputLimit(d)]
  <2>1. DOMAIN f = {"fixed", "each", "total"}
    BY Zenon
  <2>2. FixedLength(d) <= OutputLimit(d) /\ Total(d) <= OutputLimit(d)
    BY <1>1, <1>4
  <2>3. AdmissionErrors(d) = Failed(f)
    BY <1>2, Zenon DEF AdmissionErrors
  <2>4. each
    BY <1>3
  <2> HIDE DEF each
  <2>5. f["fixed"] /\ f["each"] /\ f["total"]
    BY <2>2, <2>4, Zenon
  <2> HIDE DEF f
  <2> QED BY <2>1, <2>3, <2>5, AllPassed
<1>6. MeteringErrors(d) = {}
  <2> DEFINE f == [output |-> r.output = Total(d),
                   budget |-> p # NoPlan => Total(d) <= p.budget["output"]]
  <2>1. DOMAIN f = {"output", "budget"}
    BY Zenon
  <2>2. r.output = Total(d) /\ Total(d) <= p.budget["output"]
    BY <1>1, <1>2
  <2>3. f["output"] /\ f["budget"]
    BY <2>2, Zenon
  <2>4. ~(~Regular(d) \/ \E x \in Files : d[x].kind # "file")
    BY <1>2 DEF MayParse
  <2>5. MeteringErrors(d) = Failed(f)
    BY <1>2, <2>4, Zenon DEF MeteringErrors, r
  <2> HIDE DEF f
  <2> QED BY <2>1, <2>3, <2>5, AllPassed
<1> QED BY <1>5, <1>6 DEF d

(* The chain the verifier reads is the chain the simulation wrote. *)
LEMMA FittingChain ==
    ASSUME NEW p, NEW s, NEW n, Fits(p, s, n)
    PROVE  LET d == Evidence(p, s, n)
               l == Len(p.sim.losses)
           IN  /\ ParseOrder(d) = [i \in 1 .. l |-> i]
               /\ ChainHead(d) = CheckpointChain(p)[l].hash
               /\ \A i \in 1 .. l :
                      d.checkpoints[i].value = NewCheckpoint(p, i, ChainOf(d)[i - 1])
<1> DEFINE d == Evidence(p, s, n)
           l == Len(p.sim.losses)
<1>1. l \in Nat /\ l \in 1 .. l /\ DOMAIN d.checkpoints = 1 .. l
  BY ValidSteps, FittingEnumeration DEF Fits, IsSettled
<1>2. \A i \in 1 .. l : d.checkpoints[i].value = CheckpointChain(p)[i] /\ d.checkpoints[i].json
  BY <1>1, EvidenceFiles, EvidenceKinds
<1>3. ParseOrder(d) = Sorted(1 .. l)
  BY <1>1, FittingEnumeration, FittingLengths DEF ParseOrder
<1>4. PICK g : Links(p, g, l)
  BY <1>1, LinksExist
<1>5. \A i \in 1 .. l : CheckpointChain(p)[i] = NewCheckpoint(p, i, g[i - 1])
  BY <1>1, <1>4, ChainFrom
<1>6. g[0] = None /\ \A i \in 1 .. l : g[i] = NewCheckpoint(p, i, g[i - 1]).hash
  BY <1>4 DEF Links
<1> HIDE DEF d, l
<1>7. ParseOrder(d) = [i \in 1 .. l |-> i]
  BY <1>1, <1>3, SortedInterval
<1>8. /\ ChainOf(d)[0] = None
      /\ \A i \in 1 .. l : ChainOf(d)[i] = d.checkpoints[i].value.hash
      /\ ChainHead(d) = ChainOf(d)[l]
  BY <1>1, <1>2, <1>7, ChainIs
<1>9. ASSUME NEW i \in 1 .. l PROVE ChainOf(d)[i - 1] = g[i - 1]
  <2>1. CASE i - 1 = 0
    BY <1>6, <1>8, <2>1
  <2>2. CASE i - 1 # 0
    <3>1. i - 1 \in 1 .. l
      BY <1>1, <2>2
    <3> QED BY <1>2, <1>5, <1>6, <1>8, <3>1
  <2> QED BY <2>1, <2>2
<1>10. \A i \in 1 .. l : d.checkpoints[i].value = NewCheckpoint(p, i, ChainOf(d)[i - 1])
  BY <1>2, <1>5, <1>9
<1>11. ChainHead(d) = CheckpointChain(p)[l].hash
  BY <1>1, <1>2, <1>8
<1> QED BY <1>7, <1>10, <1>11 DEF d, l

LEMMA FittingCheckpoints ==
    ASSUME NEW p, NEW s, NEW n, Fits(p, s, n)
    PROVE  ChainErrors(Evidence(p, s, n)) = {}
<1> DEFINE d == Evidence(p, s, n)
           r == d.receipt.value
           l == Len(p.sim.losses)
<1>1. /\ r = NewReceipt(p, s, n) /\ ReplayPlan(d) = p /\ DOMAIN d.checkpoints = 1 .. l
  BY EvidenceFiles, FittingPlan
<1>2. /\ ParseOrder(d) = [i \in 1 .. l |-> i]
      /\ ChainHead(d) = CheckpointChain(p)[l].hash
      /\ \A i \in 1 .. l : d.checkpoints[i].value = NewCheckpoint(p, i, ChainOf(d)[i - 1])
  BY FittingChain
<1>3. r.head = ChainHead(d) /\ r.plan = p.id
  BY <1>1, <1>2, ReceiptFieldsOf
<1>4. \A i \in 1 .. l : d.checkpoints[i].json
  BY <1>1, EvidenceKinds
<1> HIDE DEF d, r, l
<1>5. Failed([head |-> r.head = ChainHead(d)]) = {}
  <2> DEFINE f == [head |-> r.head = ChainHead(d)]
  <2>1. DOMAIN f = {"head"} /\ f["head"]
    BY <1>3, Zenon
  <2> HIDE DEF f
  <2>2. Failed(f) = {}
    BY <2>1, AllPassed
  <2> QED BY <2>2 DEF f
<1>6. ASSUME NEW i \in 1 .. l
      PROVE  CheckpointErrors(d, i, ParseOrder(d)[i], ChainOf(d)[i - 1]) = {}
  <2> DEFINE h == ChainOf(d)[i - 1]
             c == d.checkpoints[i].value
             f == [filename |-> i = i,
                   hash |-> c.hash = CheckpointBody(c),
                   step |-> c.step = i,
                   chain |-> c.previous = h,
                   binding |-> c.plan = r.plan,
                   replay |-> p # NoPlan => Meaning(c) = Meaning(NewCheckpoint(p, i, h))]
  <2>1. ParseOrder(d)[i] = i /\ d.checkpoints[i].json
    BY <1>2, <1>4
  <2>2. c = NewCheckpoint(p, i, h)
    BY <1>2
  <2>3. c.hash = CheckpointBody(c) /\ c.step = i /\ c.previous = h /\ c.plan = p.id
    BY <2>2, NewCheckpointFields
  <2>4. CheckpointErrors(d, i, i, h) = Failed(f)
    BY <1>1, <2>1, Zenon DEF CheckpointErrors, r
  <2> HIDE DEF c, h
  <2>5. DOMAIN f = {"filename", "hash", "step", "chain", "binding", "replay"}
    BY Zenon
  <2>6. /\ f["filename"] /\ f["hash"] /\ f["step"] /\ f["chain"] /\ f["binding"]
        /\ f["replay"]
    BY <1>3, <2>2, <2>3, Zenon
  <2> HIDE DEF f
  <2>7. Failed(f) = {}
    BY <2>5, <2>6, AllPassed
  <2> QED BY <2>1, <2>4, <2>7 DEF h
<1>7. DOMAIN ParseOrder(d) = 1 .. l
  BY <1>2
<1>8. ChainErrors(d) = {}
  BY <1>5, <1>6, <1>7 DEF ChainErrors, r
<1> QED BY <1>8 DEF d

LEMMA FittingCandidate ==
    ASSUME NEW p, NEW s, NEW n, Fits(p, s, n)
    PROVE  CandidateErrors(Evidence(p, s, n)) = {}
<1> DEFINE d == Evidence(p, s, n)
           r == d.receipt.value
           head == CheckpointChain(p)[Len(p.sim.losses)].hash
           c == d.candidate.value
<1>1. /\ r = NewReceipt(p, s, n) /\ ReplayPlan(d) = p /\ c = NewCandidate(p, r.head)
      /\ Readable(d.candidate, RecordLimit)
  BY EvidenceFiles, FittingPlan
<1>2. r.head = head /\ r.candidate = NewCandidate(p, head).hash /\ ChainHead(d) = head
  BY <1>1, ReceiptFieldsOf, FittingChain
<1>3. d.candidate.kind = "file"
  BY EvidenceKinds DEF Files
<1> HIDE DEF d, r, head, c
<1>4. c = NewCandidate(p, head)
  BY <1>1, <1>2
<1>5. c.hash = CandidateBody(c) /\ c.boundary
  <2>1. c.hash = CandidateBody(c)
    BY <1>4 DEF NewCandidate, CandidateBody
  <2>2. c.boundary
    BY <1>4, Zenon DEF NewCandidate
  <2> QED BY <2>1, <2>2
<1> DEFINE f == [hash |-> c.hash = CandidateBody(c) /\ c.hash = r.candidate,
                 boundary |-> c.boundary,
                 replay |-> p # NoPlan =>
                     CandidateBody(c) = CandidateBody(NewCandidate(p, head))]
<1>6. DOMAIN f = {"hash", "boundary", "replay"}
  BY Zenon
<1>7. f["hash"] /\ f["boundary"] /\ f["replay"]
  BY <1>2, <1>4, <1>5, Zenon
<1>8. CandidateErrors(d) = Failed(f)
  BY <1>1, <1>2, <1>3, Zenon DEF CandidateErrors, r, c
<1> HIDE DEF f
<1>9. CandidateErrors(d) = {}
  BY <1>6, <1>7, <1>8, AllPassed
<1> QED BY <1>9 DEF d

LEMMA FittingIsAccepted ==
    ASSUME NEW p, NEW s, NEW n, Fits(p, s, n)
    PROVE  Errors(Evidence(p, s, n), s) = {}
BY FittingPlan, FittingReceipt, FittingSource, FittingEnumeration, FittingLengths,
   FittingCheckpoints, FittingCandidate DEF Errors

-----------------------------------------------------------------------------
(***************************************************************************)
(* What is metered can be written, and what was written and not changed     *)
(* since is the settled evidence of the plan.                               *)
(***************************************************************************)
MeteredInv ==
    phase = "metering" =>
        published \in Sources /\ Len(plan.sim.losses) * EventBytes <= TelemetryLimit
PublishedInv ==
    phase = "published" /\ edits = 0 =>
        IsSettled(plan, published, claimed) /\ dir = Evidence(plan, published, claimed)
PublishInv == MeteredInv /\ PublishedInv

LEMMA PublishInit == Init => PublishInv
BY DEF Init, PublishInv, MeteredInv, PublishedInv

LEMMA EnvironmentEdits ==
    ASSUME TypeOK, Environment
    PROVE  edits' \in Nat \ {0} /\ phase = "published" /\ phase' = phase
<1>1. edits \in Nat
  BY EvidenceAssumption DEF TypeOK
<1>2. ASSUME NEW d, Edit(d) PROVE edits' \in Nat \ {0} /\ phase = "published" /\ phase' = phase
  BY <1>1, <1>2 DEF Edit, Rewrite
<1>3. CASE Reseal
  BY <1>1, <1>3 DEF Reseal, Rewrite
<1>4. CASE Damage \/ MixUp \/ ReplacePlan \/ Rename \/ EditCheckpoint \/ EditReceipt
  <2>1. \E d : Edit(d)
    BY <1>4 DEF Damage, MixUp, ReplacePlan, Rename, EditCheckpoint, EditReceipt,
                PutFile, PutCheckpoint, DropCheckpoints
  <2> QED BY <1>2, <2>1
<1> QED BY <1>3, <1>4 DEF Environment

LEMMA PublishStep == TypeOK /\ MeterInv /\ PublishInv /\ [Next]_vars => PublishInv'
<1> SUFFICES ASSUME TypeOK, MeterInv, PublishInv, [Next]_vars PROVE PublishInv'
  OBVIOUS
<1> USE DEF PublishInv, MeteredInv, PublishedInv
<1>1. ASSUME NEW p \in Plans, NEW sandboxed \in BOOLEAN, Simulate(p, sandboxed)
      PROVE  PublishInv'
  <2>1. phase' # "published" /\ plan' = p /\ published' = source
    BY <1>1 DEF Simulate, Refuse
  <2>2. ASSUME phase' = "metering"
        PROVE  source # NoSource /\ ~(Len(p.sim.losses) * EventBytes > TelemetryLimit)
               /\ Simulatable(p)
    BY <1>1, <2>2 DEF Simulate, Refuse
  <2>3. ASSUME phase' = "metering"
        PROVE  source \in Sources /\ Len(p.sim.losses) * EventBytes <= TelemetryLimit
    <3> DEFINE l == Len(p.sim.losses)
    <3>1. l \in Nat /\ EventBytes \in Nat /\ TelemetryLimit \in Nat
      BY <2>2, <2>3, ValidSteps, EvidenceAssumption
    <3>2. ~(l * EventBytes > TelemetryLimit) /\ source \in Sources
      BY <2>2, <2>3 DEF TypeOK
    <3> HIDE DEF l
    <3>3. l * EventBytes \in Nat
      BY <3>1
    <3> QED BY <3>1, <3>2, <3>3 DEF l
  <2> QED BY <2>1, <2>3
<1>2. CASE MeterAgain
  <2>1. phase' \in {"metering", "refused"} /\ plan' = plan /\ published' = published
    BY <1>2 DEF MeterAgain, Refuse
  <2>2. phase = "metering"
    BY <1>2 DEF MeterAgain
  <2> QED BY <2>1, <2>2
<1>3. CASE Publish
  <2>1. CASE claimed > plan.budget["output"]
    BY <1>3, <2>1 DEF Publish, Refuse
  <2>2. CASE ~(claimed > plan.budget["output"])
    <3>1. /\ phase' = "published" /\ dir' = Evidence(plan, published, claimed)
          /\ plan' = plan /\ published' = published /\ claimed' = claimed
          /\ claimed = Actual(plan, claimed)
      BY <1>3, <2>2 DEF Publish
    <3>2. /\ Simulatable(plan) /\ published \in Sources
          /\ Len(plan.sim.losses) * EventBytes <= TelemetryLimit
      BY <1>3 DEF Publish, MeterInv, LengthsInv, Simulatable
    <3>3. claimed \in Nat /\ claimed <= plan.budget["output"]
      BY <2>2, <3>2, ValidSteps DEF TypeOK
    <3>4. IsSettled(plan, published, claimed)
      BY <3>1, <3>2, <3>3 DEF IsSettled
    <3> QED BY <3>1, <3>4
  <2> QED BY <2>1, <2>2
<1>4. CASE Rebuild
  BY <1>4 DEF Rebuild
<1>5. CASE Environment
  BY <1>5, EnvironmentEdits
<1>6. CASE UNCHANGED vars
  BY <1>6 DEF vars
<1> QED BY <1>1, <1>2, <1>3, <1>4, <1>5, <1>6 DEF Next

LEMMA PublishedIsAccepted == PublishInv => PublishedVerifies
<1> SUFFICES ASSUME PublishInv, phase = "published", edits = 0, source = published
             PROVE  Accepted <=> dir.plan.bytes <= RecordLimit /\ dir.receipt.bytes <= RecordLimit
  BY DEF PublishedVerifies
<1>1. IsSettled(plan, source, claimed) /\ dir = Evidence(plan, source, claimed)
  BY DEF PublishInv, PublishedInv
<1>2. dir.plan.bytes = plan.bytes /\ dir.receipt.bytes = ReceiptBytes(plan, claimed)
  BY <1>1, EvidenceKinds
<1>3. ASSUME Accepted PROVE dir.plan.bytes <= RecordLimit /\ dir.receipt.bytes <= RecordLimit
  BY <1>3, AcceptedPlan DEF Accepted, Readable
<1>4. ASSUME dir.plan.bytes <= RecordLimit /\ dir.receipt.bytes <= RecordLimit PROVE Accepted
  <2>1. Fits(plan, source, claimed)
    BY <1>1, <1>2, <1>4 DEF Fits
  <2> QED BY <1>1, <2>1, FittingIsAccepted DEF Accepted
<1> QED BY <1>3, <1>4

(***************************************************************************)
(* Whatever limits and lengths there are, verify_forge_run (model_forge.py, *)
(* lines 1552 to 1926) accepts what simulate_forge_run (1296 to 1482) has   *)
(* published, as long as nobody changed it and the source is the same,      *)
(* exactly when plan.json and the receipt are no longer than a record.      *)
(***************************************************************************)
THEOREM VerifierAcceptsPublished == Spec => []PublishedVerifies
BY PublishInit, PublishStep, PublishedIsAccepted, MeterInit, MeterStep, EvidenceTypes,
   PTL DEF Spec
=============================================================================
