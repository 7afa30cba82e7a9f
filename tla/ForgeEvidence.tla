--------------------------- MODULE ForgeEvidence ---------------------------
(***************************************************************************)
(* The evidence of a simulated Forge run: how simulate_forge_run builds and *)
(* meters it, and what verify_forge_run accepts (oims/model_forge.py).      *)
(*                                                                         *)
(* Files have contents and a length.  The environment changes a published   *)
(* directory in any of the ways a copy, a mix-up of runs, an editor or a    *)
(* well-meant repair of the hashes can, and Errors is what verify_forge_run *)
(* says of the result.  The verifier runs on a directory that does not      *)
(* change meanwhile; ForgePublish models the reading of one that does.      *)
(*                                                                         *)
(* A digest is the value it is taken of, so no two values share one.  A     *)
(* plan stands for its hash by its id: ids of different plans differ.       *)
(***************************************************************************)
EXTENDS ForgePlan, FiniteSetsExt, Functions

CONSTANTS
    Plans,              \* plans handed to simulate, or found in plan.json
    Sources,            \* commit and tree an image may attest
    NoSource,           \* _verified_execution_source() is None
    None,               \* null, what is not there, and what is not a digest
    RecordLimit,        \* MAX_RECORD_BYTES
    TelemetryLimit,     \* MAX_TELEMETRY_BYTES
    EventBytes,         \* length of one line of telemetry
    CheckpointBytes,    \* length of one checkpoint file
    CandidateBytes,     \* length of the candidate file
    MaxEdits            \* bound: changes made to a published directory

NoPlan == None

VARIABLES
    phase,      \* where simulate_forge_run is
    plan,       \* the plan it simulates
    source,     \* the source the image attests now
    claimed,    \* receipt["output_bytes"] while the evidence is metered
    rounds,     \* how often it was replaced
    refusal,    \* why the simulation was refused, or "none"
    dir,        \* the contents of the run directory
    published,  \* the source the simulation executes, or executed
    edits       \* changes made to it since

vars == <<phase, plan, source, claimed, rounds, refusal, dir, published, edits>>

Files == {"receipt", "plan", "telemetry", "candidate"}
\* Fault: the loop gives up before the digits have settled.
ThreeRounds == 3
MeterRounds == 8

(***************************************************************************)
(* Decimal digits of a byte count, for counts up to ten digits: no run that *)
(* gets as far as the metering is that long.                                *)
(***************************************************************************)
LongestRun == 1000000000
Digits(n) ==
    IF n < 10 THEN 1 ELSE IF n < 100 THEN 2 ELSE IF n < 1000 THEN 3
    ELSE IF n < 10000 THEN 4 ELSE IF n < 100000 THEN 5 ELSE IF n < 1000000 THEN 6
    ELSE IF n < 10000000 THEN 7 ELSE IF n < 100000000 THEN 8
    ELSE IF n < 1000000000 THEN 9 ELSE 10

(***************************************************************************)
(* Everything but the digits of output_bytes is fixed by the plan.  bytes   *)
(* is the length of the indented plan.json, receiptBytes that of the        *)
(* receipt without those digits.                                            *)
(***************************************************************************)
\* Fault: the candidate is not metered.
WithoutCandidate(p) == p.bytes + Len(p.sim.losses) * (CheckpointBytes + EventBytes)
FixedBytes(p) ==
    p.bytes + Len(p.sim.losses) * (CheckpointBytes + EventBytes) + CandidateBytes
ReceiptBytes(p, output) == p.receiptBytes + Digits(output)
Actual(p, output) == FixedBytes(p) + ReceiptBytes(p, output)

SimulationPlans == {p \in Plans : ValidPlan(p) /\ p.mode = "simulate"}
Simulatable(p) == p \in SimulationPlans

ASSUME EvidenceAssumption ==
    /\ NoSource \notin Sources /\ None \notin Plans
    /\ \A p, q \in SimulationPlans : p.id = q.id => p = q
    /\ EventBytes \in Nat /\ CheckpointBytes \in Nat /\ CandidateBytes \in Nat
    /\ CheckpointBytes <= RecordLimit /\ CandidateBytes <= RecordLimit
    /\ RecordLimit \in Nat /\ TelemetryLimit \in Nat /\ MaxEdits \in Nat
    /\ \A p \in Plans : p.bytes \in Nat /\ p.receiptBytes \in Nat
    /\ \A p \in SimulationPlans :
           FixedBytes(p) \in Nat /\ FixedBytes(p) + p.receiptBytes \in 1 .. LongestRun

-----------------------------------------------------------------------------
(***************************************************************************)
(* The evidence a simulation writes.                                        *)
(***************************************************************************)
\* json: the contents are the JSON object the reader expects
File(v, b) == [kind |-> "file", json |-> TRUE, value |-> v, bytes |-> b]
Missing == [kind |-> "none", json |-> FALSE, value |-> None, bytes |-> 0]

(* What qmf_digest is taken of: the checkpoint without its own hash. *)
CheckpointBody(c) == <<c.step, c.previous, c.plan, c.loss, c.spelled>>
CandidateBody(c) == <<c.plan, c.head, c.boundary>>

Hashed(c) == [c EXCEPT !.hash = CheckpointBody(c)]

(* One checkpoint of a plan, linked to its predecessor's hash. *)
NewCheckpoint(p, step, previous) ==
    Hashed([step |-> step, previous |-> previous, plan |-> p.id,
            loss |-> p.sim.losses[step], spelled |-> "int", hash |-> None])

(* The checkpoints in the order the loop of simulate_forge_run appends them. *)
CheckpointChain(p) ==
    LET hash[i \in 0 .. Len(p.sim.losses)] ==
            IF i = 0 THEN None ELSE NewCheckpoint(p, i, hash[i - 1]).hash
    IN  [i \in 1 .. Len(p.sim.losses) |-> NewCheckpoint(p, i, hash[i - 1])]

NewCandidate(p, head) ==
    LET c == [plan |-> p.id, head |-> head, boundary |-> TRUE, hash |-> None]
    IN  [c EXCEPT !.hash = CandidateBody(c)]

NewReceipt(p, src, output) ==
    LET head == CheckpointChain(p)[Len(p.sim.losses)].hash
    IN  [strict |-> TRUE, sealed |-> TRUE, plan |-> p.id, facts |-> p.id, source |-> src,
         signals |-> <<p.id, src>>, telemetry |-> p.id, count |-> Len(p.sim.losses),
         head |-> head, candidate |-> NewCandidate(p, head).hash, output |-> output]

Evidence(p, src, output) ==
    LET r == NewReceipt(p, src, output)
    IN  [receipt |-> File(r, ReceiptBytes(p, output)),
         plan |-> File(p, p.bytes),
         telemetry |-> File(p.id, Len(p.sim.losses) * EventBytes),
         candidate |-> File(NewCandidate(p, r.head), CandidateBytes),
         checkpoints |-> [i \in 1 .. Len(p.sim.losses) |->
                             File(CheckpointChain(p)[i], CheckpointBytes)]]

-----------------------------------------------------------------------------
(***************************************************************************)
(* verify_forge_run.  d is the run directory, src what the verifier's own   *)
(* image attests.                                                           *)
(***************************************************************************)
Readable(f, limit) == f.kind # "none" /\ f.bytes <= limit /\ f.json

(* The plan the rest is replayed against, if it is a valid simulation plan. *)
ReplayPlan(d) ==
    IF Readable(d.plan, RecordLimit) /\ Simulatable(d.plan.value) THEN d.plan.value ELSE NoPlan

ReceiptErrors(d) == Failed([seal |-> d.receipt.value.sealed, strict |-> d.receipt.value.strict])

PlanLinkErrors(d) ==
    IF ~Readable(d.plan, RecordLimit) THEN {"plan"}
    ELSE LET r == d.receipt.value
             p == d.plan.value
         IN  Failed([valid |-> Simulatable(p),
                     link |-> r.plan = p.id,
                     replay |-> Simulatable(p) => r.facts = p.id /\ r.count = p.sim.steps])

SourceErrors(d, src) ==
    LET r == d.receipt.value
        p == ReplayPlan(d)
    IN  Failed([revision |-> r.source \in Sources,
                verified |-> r.source = src,
                signals |-> p # NoPlan => r.signals = <<p.id, r.source>>])

TelemetryErrors(d) ==
    LET f == d.telemetry
        p == ReplayPlan(d)
    IN  IF f.kind # "file" \/ f.bytes > TelemetryLimit THEN {"telemetry"}
        ELSE Failed([hash |-> d.receipt.value.telemetry = f.value,
                     replay |-> p # NoPlan => f.value = p.id])

Complete(d) == Cardinality(DOMAIN d.checkpoints) <= MaxSteps

Regular(d) == \A n \in DOMAIN d.checkpoints : d.checkpoints[n].kind = "file"

CountOK(d) ==
    LET count == Cardinality(DOMAIN d.checkpoints)
        p == ReplayPlan(d)
    IN  /\ Complete(d)
        /\ d.receipt.value.count = count
        /\ p # NoPlan => count = p.sim.steps

EnumerationErrors(d) ==
    Failed([maximum |-> Complete(d), regular |-> Regular(d), count |-> CountOK(d)])

(***************************************************************************)
(* Checkpoints are parsed only when their number is right, everything is a  *)
(* regular file, and the lengths add up to no more than the budget.  That   *)
(* something is not a regular file is reported later, by the metering.      *)
(***************************************************************************)
FixedLength(d) == SumFunction([f \in Files |-> d[f].bytes])
Total(d) ==
    FixedLength(d) + SumFunction([n \in DOMAIN d.checkpoints |-> d.checkpoints[n].bytes])

OutputLimit(d) ==
    LET p == ReplayPlan(d)
    IN  IF p = NoPlan THEN MaxOutput ELSE Min({MaxOutput, p.budget["output"]})

MayParse(d) == CountOK(d) /\ Regular(d) /\ \A f \in Files : d[f].kind = "file"

AdmissionErrors(d) ==
    IF ~MayParse(d) THEN {}
    ELSE Failed([fixed |-> FixedLength(d) <= OutputLimit(d),
                 each |-> \A n \in DOMAIN d.checkpoints : d.checkpoints[n].bytes <= RecordLimit,
                 total |-> Total(d) <= OutputLimit(d)])

(* Numbers in ascending order, by how many of them are no greater. *)
Rank(S, n) == Cardinality({m \in S : m <= n})
Sorted(S) == [i \in 1 .. Cardinality(S) |-> CHOOSE n \in S : Rank(S, n) = i]

(* The paths of the checkpoints, sorted; none when nothing may be parsed. *)
ParseOrder(d) ==
    IF MayParse(d) /\ AdmissionErrors(d) = {} THEN Sorted(DOMAIN d.checkpoints) ELSE <<>>

(***************************************************************************)
(* Python compares 1 and True, or 1 and 1.0, as equal: how a number is      *)
(* spelled counts for its hash and not for the semantic replay.             *)
(***************************************************************************)
Meaning(c) == <<c.step, c.previous, c.plan, c.loss>>

\* Fault: the hash chain is followed, the simulation is not replayed.
HashesOnly(d, position, name, previous) ==
    LET c == d.checkpoints[name].value
    IN  IF ~d.checkpoints[name].json THEN {"checkpoint"}
        ELSE Failed([filename |-> name = position,
                     hash |-> c.hash = CheckpointBody(c),
                     step |-> c.step = position,
                     chain |-> c.previous = previous,
                     binding |-> c.plan = d.receipt.value.plan])
CheckpointErrors(d, position, name, previous) ==
    LET c == d.checkpoints[name].value
        p == ReplayPlan(d)
    IN  IF ~d.checkpoints[name].json THEN {"checkpoint"}
        ELSE Failed([filename |-> name = position,
                     hash |-> c.hash = CheckpointBody(c),
                     step |-> c.step = position,
                     chain |-> c.previous = previous,
                     binding |-> c.plan = d.receipt.value.plan,
                     replay |-> p # NoPlan =>
                         Meaning(c) = Meaning(NewCheckpoint(p, position, previous))])

(* previous[i] is the hash that checkpoint i + 1 has to name. *)
ChainOf(d) ==
    LET order == ParseOrder(d)
        previous[i \in 0 .. Len(order)] ==
            IF i = 0 THEN None
            ELSE LET f == d.checkpoints[order[i]]
                 IN  IF f.json THEN f.value.hash ELSE previous[i - 1]
    IN  previous

ChainHead(d) == ChainOf(d)[Len(ParseOrder(d))]

ChainErrors(d) ==
    Failed([head |-> d.receipt.value.head = ChainHead(d)])
    \cup UNION {CheckpointErrors(d, i, ParseOrder(d)[i], ChainOf(d)[i - 1]) :
                   i \in DOMAIN ParseOrder(d)}

CandidateErrors(d) ==
    LET f == d.candidate
        p == ReplayPlan(d)
    IN  IF f.kind # "file" \/ ~Readable(f, RecordLimit) THEN {"candidate"}
        ELSE Failed([hash |-> f.value.hash = CandidateBody(f.value)
                              /\ f.value.hash = d.receipt.value.candidate,
                     boundary |-> f.value.boundary,
                     replay |-> p # NoPlan =>
                         CandidateBody(f.value) = CandidateBody(NewCandidate(p, ChainHead(d)))])

MeteringErrors(d) ==
    LET p == ReplayPlan(d)
    IN  IF ~Complete(d) THEN {}
        ELSE IF ~Regular(d) \/ \E f \in Files : d[f].kind # "file" THEN {"irregular"}
        ELSE Failed([output |-> d.receipt.value.output = Total(d),
                     budget |-> p # NoPlan => Total(d) <= p.budget["output"]])

Errors(d, src) ==
    IF ~Readable(d.receipt, RecordLimit) THEN {"receipt"}
    ELSE UNION {ReceiptErrors(d), PlanLinkErrors(d), SourceErrors(d, src), TelemetryErrors(d),
                EnumerationErrors(d), AdmissionErrors(d), ChainErrors(d), CandidateErrors(d),
                MeteringErrors(d)}

Accepted == Errors(dir, source) = {}

-----------------------------------------------------------------------------
(***************************************************************************)
(* simulate_forge_run.  That the directory is staged, renamed into place    *)
(* and contended for is ForgePublish's subject.                             *)
(***************************************************************************)
Init ==
    /\ phase = "idle" /\ plan = NoPlan
    /\ source \in Sources \cup {NoSource}
    /\ claimed = 0 /\ rounds = 0 /\ refusal = "none"
    /\ dir = [receipt |-> Missing, plan |-> Missing, telemetry |-> Missing,
              candidate |-> Missing, checkpoints |-> <<>>]
    /\ published = NoSource /\ edits = 0

Refuse(why) == phase' = "refused" /\ refusal' = why

(***************************************************************************)
(* sandboxed is the outcome of _forge_runtime_sandbox_errors, the subject   *)
(* of ForgeSandbox.                                                         *)
(***************************************************************************)
Simulate(p, sandboxed) ==
    /\ phase \in {"idle", "refused"}
    /\ plan' = p /\ published' = source
    /\ claimed' = 0 /\ rounds' = 0
    /\ IF ~Simulatable(p) THEN Refuse("plan")
       ELSE IF source = NoSource THEN Refuse("source")
       ELSE IF ~sandboxed THEN Refuse("sandbox")
       ELSE IF Len(p.sim.losses) * EventBytes > TelemetryLimit THEN Refuse("telemetry")
       ELSE phase' = "metering" /\ refusal' = "none"
    /\ UNCHANGED <<source, dir, edits>>

(* A round finds that the receipt does not tell its own length yet. *)
MeterAgain ==
    /\ phase = "metering"
    /\ claimed # Actual(plan, claimed)
    /\ claimed' = Actual(plan, claimed)
    /\ rounds' = rounds + 1
    /\ IF rounds + 1 = MeterRounds
       THEN Refuse("unsettled")
       ELSE UNCHANGED <<phase, refusal>>
    /\ UNCHANGED <<plan, source, dir, published, edits>>

(* A round finds that it does. *)
Publish ==
    /\ phase = "metering"
    /\ claimed = Actual(plan, claimed)
    /\ IF claimed > plan.budget["output"]
       THEN Refuse("output") /\ UNCHANGED dir
       ELSE /\ phase' = "published" /\ UNCHANGED refusal
            /\ dir' = Evidence(plan, published, claimed)
    /\ UNCHANGED <<plan, source, claimed, rounds, published, edits>>

(* The image is built from another commit, or no longer attests one. *)
Rebuild ==
    /\ phase # "metering"
    /\ \E s \in Sources \cup {NoSource} : s # source /\ source' = s
    /\ UNCHANGED <<phase, plan, claimed, rounds, refusal, dir, published, edits>>

-----------------------------------------------------------------------------
(***************************************************************************)
(* What happens to a published directory.                                   *)
(***************************************************************************)
Names == 0 .. MaxSteps  \* step-000001.json, ...; 0 is a name sorted before them

Rewrite(d) ==
    /\ phase = "published"
    /\ d # dir /\ dir' = d
    /\ UNCHANGED <<phase, plan, source, claimed, rounds, refusal, published>>

Edit(d) ==
    /\ edits < MaxEdits /\ edits' = edits + 1
    /\ Rewrite(d)

PutFile(f, file) == Edit([dir EXCEPT ![f] = file])
PutCheckpoint(n, file) ==
    LET c == dir.checkpoints
    IN  Edit([dir EXCEPT !.checkpoints =
                 [m \in DOMAIN c \cup {n} |-> IF m = n THEN file ELSE c[m]]])
DropCheckpoints(names) ==
    Edit([dir EXCEPT !.checkpoints = Restrict(@, DOMAIN @ \ names)])

Damaged(file) == {[file EXCEPT !.value = None, !.json = FALSE], [file EXCEPT !.kind = "link"]}
Reformatted(file) == [file EXCEPT !.bytes = @ + 1]      \* the same JSON, formatted otherwise

Damage ==
    \/ \E f \in Files : dir[f].kind # "none" /\ PutFile(f, Missing)
    \/ \E f \in Files \ {"receipt"} : \E g \in Damaged(dir[f]) : PutFile(f, g)
    \/ \E f \in Files \ {"telemetry"} : PutFile(f, Reformatted(dir[f]))
    \/ \E n \in DOMAIN dir.checkpoints : DropCheckpoints({n})
    \/ \E n \in DOMAIN dir.checkpoints :
           \E g \in Damaged(dir.checkpoints[n]) \cup {Reformatted(dir.checkpoints[n])} :
              PutCheckpoint(n, g)

(* output_bytes of a receipt that tells its own length, all the rest being k bytes. *)
Settled(k) == LET again(n) == k + Digits(n) IN again(again(again(again(0))))

(* Files of the evidence of another plan, or of this one simulated anew. *)
MixUp ==
    \E p \in SimulationPlans :
        LET e(s) == Evidence(p, s, Settled(FixedBytes(p) + p.receiptBytes))
            any == e(CHOOSE s \in Sources : TRUE)    \* only the receipt names the source
        IN  \/ \E s \in Sources : Edit(e(s)) \/ PutFile("receipt", e(s).receipt)
            \/ \E f \in {"telemetry", "candidate"} : PutFile(f, any[f])
            \/ \E i \in DOMAIN any.checkpoints, n \in Names : PutCheckpoint(n, any.checkpoints[i])

ReplacePlan == \E p \in Plans : PutFile("plan", File(p, p.bytes))

(* A checkpoint gets another name, and gives its own to the one it replaces. *)
Rename ==
    \E n \in DOMAIN dir.checkpoints, m \in Names :
        LET c == dir.checkpoints
            names == IF m \in DOMAIN c THEN DOMAIN c ELSE (DOMAIN c \ {n}) \cup {m}
        IN  Edit([dir EXCEPT !.checkpoints =
                     [k \in names |-> c[IF k = m THEN n ELSE IF k = n THEN m ELSE k]]])

(* A loss is changed, or spelled as a truth value; the hash is updated or not. *)
EditCheckpoint ==
    \E n \in DOMAIN dir.checkpoints, rehash \in BOOLEAN :
        LET f == dir.checkpoints[n]
            c == f.value
        IN  /\ f.json
            /\ \E e \in {[c EXCEPT !.loss = @ + 1]}
                       \cup {[c EXCEPT !.spelled = "bool"] : x \in {c.loss} \cap {0, 1}} :
                  PutCheckpoint(n, [f EXCEPT !.value = IF rehash THEN Hashed(e) ELSE e])

EditReceipt ==
    /\ dir.receipt.json
    /\ \E s \in Sources, n \in 0 .. MaxSteps, p \in Plans :
          LET r == dir.receipt.value
          IN  \E e \in {[r EXCEPT !.source = s], [r EXCEPT !.signals = <<@[1], s>>],
                        [r EXCEPT !.count = n], [r EXCEPT !.output = @ + 1],
                        [r EXCEPT !.strict = FALSE], [r EXCEPT !.facts = p.id],
                        [r EXCEPT !.plan = p.id, !.facts = p.id, !.signals = <<p.id, @[2]>>]} :
                 PutFile("receipt", [dir.receipt EXCEPT !.value = [e EXCEPT !.sealed = e = r]])

(***************************************************************************)
(* Every hash and length is made to agree with the files as they are, from  *)
(* the first checkpoint to the seal.  Not counted as an edit: a directory   *)
(* on which it was done, or that nobody changed, is one it does not change. *)
(***************************************************************************)
Relinked(c) ==
    LET order == Sorted(DOMAIN c)
        link(n, previous) == Hashed([c[n].value EXCEPT !.previous = previous])
        hash[i \in 0 .. Len(order)] == IF i = 0 THEN None ELSE link(order[i], hash[i - 1]).hash
    IN  [chain |-> [n \in DOMAIN c |->
                       [c[n] EXCEPT !.value = link(n, hash[Rank(DOMAIN c, n) - 1])]],
         head |-> hash[Len(order)]]

Reseal ==
    /\ edits > 0
    /\ \A f \in {"receipt", "candidate"} : dir[f].json
    /\ \A n \in DOMAIN dir.checkpoints : dir.checkpoints[n].json
    /\ LET new == Relinked(dir.checkpoints)
           moved == [dir.candidate.value EXCEPT !.head = new.head]
           candidate == [moved EXCEPT !.hash = CandidateBody(moved)]
           r == dir.receipt.value
           base == dir.receipt.bytes - Digits(r.output)
           output == Settled(Total(dir) - dir.receipt.bytes + base)
       IN  Rewrite([dir EXCEPT
               !.checkpoints = new.chain,
               !.candidate.value = candidate,
               !.receipt = File([r EXCEPT !.sealed = TRUE, !.head = new.head,
                                          !.count = Cardinality(DOMAIN dir.checkpoints),
                                          !.telemetry = dir.telemetry.value,
                                          !.candidate = candidate.hash, !.output = output],
                                base + Digits(output))])
    /\ UNCHANGED edits

Environment ==
    \/ Damage \/ MixUp \/ ReplacePlan \/ Rename \/ EditCheckpoint \/ EditReceipt \/ Reseal

Next ==
    \/ \E p \in Plans, sandboxed \in BOOLEAN : Simulate(p, sandboxed)
    \/ MeterAgain
    \/ Publish
    \/ Rebuild
    \/ Environment

Spec == Init /\ [][Next]_vars

-----------------------------------------------------------------------------
TypeOK ==
    /\ phase \in {"idle", "metering", "published", "refused"}
    /\ plan \in Plans \cup {NoPlan}
    /\ source \in Sources \cup {NoSource} /\ published \in Sources \cup {NoSource}
    /\ claimed \in Nat /\ rounds \in 0 .. MeterRounds
    /\ refusal \in {"plan", "source", "sandbox", "telemetry", "unsettled", "output", "none"}
    /\ edits \in 0 .. MaxEdits

(***************************************************************************)
(* A directory is accepted only if it holds what simulating its plan.json   *)
(* under the verifier's own source would write: file by file the same,      *)
(* except for the formatting of the JSON, and for numbers spelled as truth  *)
(* values (with the hashes above them), which Python calls equal.  The      *)
(* checks of verify_forge_run are conditional on each other (checkpoints    *)
(* are parsed only when counts, kinds and lengths are right, replayed only  *)
(* when the plan is valid): no combination of damage, mix-ups and           *)
(* recomputed hashes may slip between them.                                 *)
(***************************************************************************)
AcceptsOnlyReplay ==
    Accepted =>
        LET p == dir.plan.value
            e == Evidence(p, source, dir.receipt.value.output)
            steps == DOMAIN dir.checkpoints
            Written(d) == [f \in Files |-> d[f].value]
        IN  /\ Simulatable(p) /\ source # NoSource
            /\ steps = DOMAIN e.checkpoints
            /\ \A i \in steps : LET c == dir.checkpoints[i].value
                                  x == e.checkpoints[i].value
                              IN  <<c.step, c.plan, c.loss>> = <<x.step, x.plan, x.loss>>
            /\ dir.telemetry.value = e.telemetry.value
            /\ (\A i \in steps : dir.checkpoints[i].value.spelled = "int") =>
                   /\ Written(dir) = Written(e)
                   /\ \A i \in steps : dir.checkpoints[i].value = e.checkpoints[i].value
            /\ dir.receipt.value.output = Total(dir)
            /\ Total(dir) <= p.budget["output"]

(***************************************************************************)
(* What simulate_forge_run publishes, verify_forge_run accepts under the    *)
(* same source, whatever limit each of them applies to whichever file; with *)
(* one exception: simulate writes plan.json and the receipt without the     *)
(* limit of a record, which verify reads them with.                         *)
(***************************************************************************)
PublishedVerifies ==
    phase = "published" /\ edits = 0 /\ source = published =>
        (Accepted <=> /\ dir.plan.bytes <= RecordLimit
                      /\ dir.receipt.bytes <= RecordLimit)

(***************************************************************************)
(* The loop that meters the evidence, whose receipt counts its own digits,  *)
(* always comes to rest: "did not converge" is never the answer, and the    *)
(* length is settled after at most three corrections.                       *)
(***************************************************************************)
MeteringConverges == refusal # "unsettled" /\ rounds <= 3
=============================================================================
