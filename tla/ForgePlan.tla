----------------------------- MODULE ForgePlan -----------------------------
(***************************************************************************)
(* What a Forge plan is and when validate_forge_plan (oims/model_forge.py)  *)
(* accepts it.  A plan is a record.  The fields that must have one exact    *)
(* value (schema version, QMF contract, target, sandbox, recipe) are one    *)
(* Boolean per section; the fields that are compared with one another are   *)
(* kept, because simulation, verification and preflight rely on what those  *)
(* comparisons promise.                                                     *)
(***************************************************************************)
EXTENDS Integers, Sequences

CONSTANTS
    MaxSteps,       \* MAX_SIMULATION_STEPS
    MaxOutput,      \* MAX_FORGE_OUTPUT_BYTES
    MaxTemperature, \* the Forge safety ceiling
    NoSimulation    \* the simulation section of a probe plan is null

ASSUME PlanAssumption == MaxSteps \in Nat /\ MaxOutput \in Nat /\ MaxTemperature \in Nat

Absent == -1        \* no integer could be read

IsPositive(n) == n \in Nat \ {0}

(***************************************************************************)
(* The names of the checks that failed: every list of errors in             *)
(* model_forge.py is one of these sets.                                     *)
(***************************************************************************)
Failed(checks) == {c \in DOMAIN checks : ~checks[c]}

EvidenceClass == [simulate |-> "SIMULATED", probe |-> "PHYSICAL_PREFLIGHT"]

Ceilings == {"host", "device", "temperature"}
Budgets == {"tokens", "energy", "duration", "output"}

(***************************************************************************)
(* The capacity the plan declares for a kind of memory: that of the first   *)
(* of its memory domains of this kind.                                      *)
(***************************************************************************)
Capacity(p, kind) ==
    LET of == {i \in DOMAIN p.domains : p.domains[i].kind = kind /\ IsPositive(p.domains[i].bytes)}
    IN  IF of = {} THEN Absent
        ELSE p.domains[CHOOSE i \in of : \A j \in of : i <= j].bytes

PolicyErrors(p) ==
    Failed([exact |-> p.exact,
            evidence |-> p.mode \in DOMAIN EvidenceClass /\ p.evidence = EvidenceClass[p.mode],
            rollback |-> p.rollback = p.base,
            hash |-> p.hashed])

PositiveCeilings(p) == \A c \in Ceilings : IsPositive(p.ceiling[c])
PositiveBudgets(p) == \A b \in Budgets : IsPositive(p.budget[b])

(* One memory domain of each kind, both with a capacity. *)
TwoDomains(p) ==
    /\ Len(p.domains) = 2
    /\ p.domains[1].id # p.domains[2].id
    /\ {p.domains[1].kind, p.domains[2].kind} = {"gpu-vram", "host-ram"}
    /\ \A i \in 1 .. 2 : IsPositive(p.domains[i].bytes)

ResourceErrors(p) ==
    Failed([positive |-> PositiveCeilings(p),
            budgets |-> PositiveBudgets(p),
            steps |-> IsPositive(p.maxSteps) /\ p.maxSteps <= MaxSteps,
            output |-> p.budget["output"] <= MaxOutput,
            domains |-> TwoDomains(p),
            hostFits |-> p.ceiling["host"] <= Capacity(p, "host-ram"),
            deviceFits |-> p.ceiling["device"] <= Capacity(p, "gpu-vram"),
            temperature |-> p.ceiling["temperature"] <= MaxTemperature])

(***************************************************************************)
(* A simulation announces one loss per step, never rising, and fits every   *)
(* ceiling and every budget; all its checkpoints are kept.                  *)
(***************************************************************************)
SimulationErrors(p) ==
    IF p.mode # "simulate"
    THEN Failed([null |-> p.sim = NoSimulation])
    ELSE IF p.sim = NoSimulation THEN {"missing"}
    ELSE LET s == p.sim
             steps == Len(s.losses)
         IN  Failed([losses |-> /\ steps \in 1 .. MaxSteps
                                /\ s.steps = steps
                                /\ \A i \in 1 .. steps - 1 : s.losses[i] >= s.losses[i + 1],
                     clock |-> s.clock,
                     positive |-> \A b \in Budgets : IsPositive(s.perStep[b]),
                     maxSteps |-> s.steps <= p.maxSteps,
                     ceilings |-> \A c \in Ceilings :
                                     IsPositive(s.peak[c]) /\ s.peak[c] <= p.ceiling[c],
                     budgets |-> \A b \in Budgets : s.steps * s.perStep[b] <= p.budget[b],
                     interval |-> p.interval = 1,
                     retained |-> p.retain >= s.steps])

PlanErrors(p) == PolicyErrors(p) \cup ResourceErrors(p) \cup SimulationErrors(p)
ValidPlan(p) == PlanErrors(p) = {}
=============================================================================
