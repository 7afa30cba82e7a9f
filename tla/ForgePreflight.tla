--------------------------- MODULE ForgePreflight ---------------------------
(***************************************************************************)
(* inspect_physical_preflight (oims/model_forge.py), behind "oims forge     *)
(* probe": it looks at the container and at the machine one observation     *)
(* after another, while they may change, and asks the device last, when     *)
(* nothing was found wrong before.  It then judges what it saw a second     *)
(* time, as constraint signals, and seals a receipt that is READY or        *)
(* REFUSED.  The file the receipt is put in is AtomicFiles' subject.        *)
(***************************************************************************)
EXTENDS ForgeSandbox

CONSTANTS
    Plans,              \* the plans the command may be given
    Sources,            \* commit and tree an image may attest
    NoSource,           \* no source is attested, or none verified
    Unacceptable,       \* a hash that is that of no plan
    Unseen,             \* what has not been looked at, or told nothing
    Hosts,              \* the containers, with the machine around them
    Paths,              \* the paths InputsUnwritable is about
    HostTolerance,      \* HOST_MEMORY_DOMAIN_TOLERANCE_BYTES
    DeviceTolerance,    \* the same for the memory of the device
    MaxChanges          \* bound: how often the host changes

VARIABLES
    phase,      \* what is looked at next
    plan,       \* the plan
    accepted,   \* --accept-plan-hash
    host,       \* the host as it is
    env,        \* the environment the process was started with
    seen,       \* what the inspection has observed
    errors,     \* what it has found wrong
    changes     \* how often the host changed

vars == <<phase, plan, accepted, host, env, seen, errors, changes>>

ASSUME PreflightAssumption ==
    /\ NoSource \notin Sources
    /\ ForgeUser # Root
    /\ Paths \subseteq Seq(STRING)
    /\ \A h \in Hosts : "base" \in DOMAIN h.env /\ h.mounts \in Seq(Mount)
    /\ Unacceptable \notin {p.id : p \in Plans}
    /\ MaxChanges \in Nat
    /\ \A p \in Plans, kind \in {"host-ram", "gpu-vram"} : Capacity(p, kind) \in Int

-----------------------------------------------------------------------------
(***************************************************************************)
(* What is observed.  env is the environment: one field per requirement,    *)
(* source the commit and tree it declares.  image is what the attestation   *)
(* in the image says, and whether the code that runs is what it says.       *)
(***************************************************************************)
SourceAttestationErrors(e, image) ==
    IF image.source = NoSource THEN {"attestation"}
    ELSE IF image.source # e.source THEN {"other source"}
    ELSE IF ~image.isolated THEN {"shadowed"}
    ELSE IF ~image.package THEN {"other package"}
    ELSE {}

EnvironmentErrors(e, image, probe) ==
    Failed([container |-> e.container, offline |-> e.offline, base |-> e.base,
            revision |-> e.source \in Sources])
    \cup (IF probe
          THEN Failed([unlock |-> e.unlock, runtime |-> e.runtime, descriptors |-> e.descriptors,
                       utility |-> e.utility /\ e.descriptors, libraries |-> e.libraries])
          ELSE {})
    \cup SourceAttestationErrors(e, image)

(* The attestation is read once more, without the requirements of a probe. *)
VerifiedSource(e, image) ==
    IF e.container /\ EnvironmentErrors(e, image, FALSE) = {} THEN e.source ELSE NoSource

AuthorizationErrors(p, hash) ==
    PlanErrors(p) \cup Failed([mode |-> p.mode = "probe", acknowledged |-> hash = p.id])

Process(c) ==
    [user |-> c.user # Root, empty |-> c.capabilities = {}, privileges |-> c.noNewPrivs,
     filter |-> SeccompFilter(c)]

Network(c) ==
    [root |-> RootIsReadOnly(c.mounts), offline |-> c.route = "none", loopback |-> OnlyLoopback(c)]

Mounts(c) == [table |-> c.mounts, policy |-> ForgeMountPolicy(c)]

(* What is free in the container, if that can be told. *)
Free(l) ==
    IF IsPositive(l.limit) /\ l.current \in 0 .. l.limit THEN l.limit - l.current ELSE Absent

Near(a, b, tolerance) == a - b \in -tolerance .. tolerance

\* Fault: what the container already uses is not subtracted from its limit.
GrossMemoryErrors(p, m, l) ==
    Failed([unused |-> SwapUnused(m),
            total |-> IsPositive(m.total) /\ m.total >= p.ceiling["host"],
            domain |-> Near(m.total, Capacity(p, "host-ram"), HostTolerance),
            available |-> m.available >= p.ceiling["host"],
            limit |-> IsPositive(l.limit) /\ l.limit >= p.ceiling["host"]])
    \cup LimitErrors(l)
HostMemoryErrors(p, m, l) ==
    LET ceiling == p.ceiling["host"]
        short(n) == IsPositive(ceiling) /\ n < ceiling
    IN  Failed([unused |-> SwapUnused(m),
                total |-> IsPositive(m.total) /\ ~short(m.total),
                domain |-> IsPositive(m.total) /\ IsPositive(Capacity(p, "host-ram")) =>
                              Near(m.total, Capacity(p, "host-ram"), HostTolerance),
                available |-> IsPositive(m.available) /\ ~short(m.available),
                limit |-> IsPositive(l.limit) /\ ~short(l.limit),
                free |-> Free(l) \in Nat /\ ~short(Free(l))])
        \cup LimitErrors(l)

(***************************************************************************)
(* The utility fails, or prints what is no evidence, or describes another   *)
(* device, or the reviewed one.  A reading without a positive power limit   *)
(* or memory counts as no evidence.                                         *)
(***************************************************************************)
Parsed(answer) ==
    IF answer.outcome = "reading" /\ IsPositive(answer.total) /\ IsPositive(answer.power)
    THEN answer
    ELSE Unseen

DeviceErrors(p, gpu) ==
    IF gpu = Unseen THEN {"device"}
    ELSE Failed([domain |-> Near(gpu.total, Capacity(p, "gpu-vram"), DeviceTolerance),
                 free |-> gpu.total - gpu.used >= p.ceiling["device"],
                 temperature |-> gpu.temperature <= p.ceiling["temperature"]])

-----------------------------------------------------------------------------
(***************************************************************************)
(* The second judgement: the constraint signals of the receipt.             *)
(***************************************************************************)
HostMemorySatisfied(p, m, l) ==
    LET ceiling == p.ceiling["host"]
    IN  /\ IsPositive(m.total) /\ IsPositive(m.available) /\ IsPositive(Capacity(p, "host-ram"))
        /\ Near(m.total, Capacity(p, "host-ram"), HostTolerance)
        /\ IsPositive(ceiling) /\ m.total >= ceiling /\ m.available >= ceiling
        /\ IsPositive(l.limit) /\ l.limit >= ceiling
        /\ Free(l) \in Nat /\ Free(l) >= ceiling

DeviceMemorySatisfied(p, gpu) ==
    /\ gpu # Unseen
    /\ IsPositive(Capacity(p, "gpu-vram")) /\ IsPositive(p.ceiling["device"])
    /\ Near(gpu.total, Capacity(p, "gpu-vram"), DeviceTolerance)
    /\ gpu.total - gpu.used >= p.ceiling["device"]

SandboxSatisfied(e, process, network, policy, l) ==
    /\ process.user /\ process.empty /\ process.privileges /\ process.filter
    /\ network.root
    /\ e.base
    /\ Failed(policy) = {}
    /\ LimitErrors(l) = {}

ConstraintSignals(p, hash, e, s) ==
    [authority |-> TRUE,
     energy |-> s.gpu # Unseen,
     attestation |-> s.source # NoSource /\ e.runtime,
     deviceMemory |-> DeviceMemorySatisfied(p, s.gpu),
     hostMemory |-> HostMemorySatisfied(p, s.memory, s.limits),
     network |-> s.network.offline /\ s.network.loopback,
     authorization |-> p.mode = "probe" /\ hash = p.id,
     validation |-> ValidPlan(p),
     rollback |-> p.rollback = p.base,
     sandbox |-> SandboxSatisfied(e, s.process, s.network, s.mounts.policy, s.limits),
     thermal |-> /\ s.gpu # Unseen
                 /\ IsPositive(p.ceiling["temperature"])
                 /\ s.gpu.temperature <= p.ceiling["temperature"]]

Unsatisfied == Failed(ConstraintSignals(plan, accepted, env, seen))

-----------------------------------------------------------------------------
(***************************************************************************)
(* The inspection, one observation at a time.                               *)
(***************************************************************************)
NothingSeen ==
    [source |-> NoSource, process |-> Unseen, network |-> Unseen, mounts |-> Unseen,
     limits |-> Unseen, memory |-> Unseen, gpu |-> Unseen]

Init ==
    /\ phase = "environment"
    /\ plan \in Plans
    /\ accepted \in {plan.id, Unacceptable}
    /\ host \in Hosts
    /\ env = host.env
    /\ seen = NothingSeen
    /\ errors = AuthorizationErrors(plan, accepted)
    /\ changes = 0

Observe(from, to, what, value, wrong) ==
    /\ phase = from /\ phase' = to
    /\ seen' = [seen EXCEPT ![what] = value]
    /\ errors' = errors \cup wrong
    /\ UNCHANGED <<plan, accepted, host, env, changes>>

ReadEnvironment ==
    /\ phase = "environment" /\ phase' = "source"
    /\ errors' = errors \cup EnvironmentErrors(env, host.image, TRUE)
    /\ UNCHANGED <<plan, accepted, host, env, seen, changes>>

ReadSource == Observe("source", "process", "source", VerifiedSource(env, host.image), {})

ReadProcess == Observe("process", "network", "process", Process(host), Failed(Process(host)))

ReadNetwork == Observe("network", "mounts", "network", Network(host), Failed(Network(host)))

ReadMounts ==
    Observe("mounts", "cgroup", "mounts", Mounts(host), Failed(ForgeMountPolicy(host)))

ReadCgroup == Observe("cgroup", "memory", "limits", CgroupLimits(host.cgroup), {})

ReadMemory ==
    Observe("memory", "device", "memory", host.memory,
            HostMemoryErrors(plan, host.memory, seen.limits))

QueryDevice ==
    /\ errors = {}
    /\ Observe("device", "receipt", "gpu", Parsed(host.device),
               DeviceErrors(plan, Parsed(host.device)))

SkipDevice ==
    /\ errors # {}
    /\ phase = "device" /\ phase' = "receipt"
    /\ UNCHANGED <<plan, accepted, host, env, seen, errors, changes>>

\* Fault: the verdict is sealed without a look at the signals.
Trusted == {}
Incomplete == IF errors = {} /\ Unsatisfied # {} THEN {"incomplete"} ELSE {}

Seal ==
    /\ phase = "receipt" /\ phase' = "sealed"
    /\ errors' = errors \cup Incomplete
    /\ UNCHANGED <<plan, accepted, host, env, seen, changes>>

(* Anything of the host changes; the process keeps its environment. *)
Change ==
    /\ phase # "sealed"
    /\ changes < MaxChanges /\ changes' = changes + 1
    /\ \E h \in Hosts : h # host /\ host' = h
    /\ UNCHANGED <<phase, plan, accepted, env, seen, errors>>

Inspect ==
    \/ ReadEnvironment \/ ReadSource \/ ReadProcess \/ ReadNetwork \/ ReadMounts
    \/ ReadCgroup \/ ReadMemory \/ QueryDevice \/ SkipDevice \/ Seal

Next == Inspect \/ Change
Spec == Init /\ [][Next]_vars

-----------------------------------------------------------------------------
Phases ==
    {"environment", "source", "process", "network", "mounts", "cgroup", "memory", "device",
     "receipt", "sealed"}

(* The values of the variables; seen.source is all that is published as it is. *)
TypeOK ==
    /\ phase \in Phases
    /\ plan \in Plans /\ accepted \in {p.id : p \in Plans} \cup {Unacceptable}
    /\ host \in Hosts
    /\ seen.source \in Sources \cup {NoSource}
    /\ changes \in 0 .. MaxChanges

(***************************************************************************)
(* The two judgements of the inspection never contradict each other in the  *)
(* receipt, whatever changed between the observations: it is READY exactly  *)
(* when all its constraint signals are satisfied.  Neither implies the      *)
(* other by itself: the list of errors knows of unused swap, which no       *)
(* signal tells, and the signals know of the second reading of the          *)
(* attestation.                                                             *)
(***************************************************************************)
VerdictMatchesSignals == phase = "sealed" => (errors = {} <=> Unsatisfied = {})

(***************************************************************************)
(* The list of errors overlooks nothing that the signals are about, except  *)
(* that the attestation of the image is no longer what it was when it was   *)
(* read first: only then is the provenance said to be incomplete.           *)
(***************************************************************************)
IncompleteOnlyByRace == "incomplete" \in errors => Unsatisfied = {"attestation"}

(***************************************************************************)
(* A READY container cannot have been writable, when its mounts were read,  *)
(* anywhere else than below its output and where the container runtime      *)
(* itself mounts: in particular neither in the plan nor in an input.  The   *)
(* policy looks at the mounts of a few paths; this is about the mount that  *)
(* any path is looked up in.                                                *)
(***************************************************************************)
Protected(path) ==
    /\ ~IsPrefix(OutputPath, path)
    /\ \A r \in RuntimeMounts : ~IsPrefix(r[1], path)

Mounted(mounts, path) == \E i \in DOMAIN mounts : IsPrefix(mounts[i].path, path)

InputsUnwritable ==
    phase = "sealed" /\ errors = {} =>
        LET mounts == seen.mounts.table
        IN  /\ ~Visible(mounts, OutputPath).ro
            /\ \A path \in Paths :
                   Protected(path) /\ Mounted(mounts, path) => Visible(mounts, path).ro

(***************************************************************************)
(* The two lanes judge the same container with code of their own: where     *)
(* simulate would emit evidence, nothing the preflight requires of the      *)
(* isolation of the container is missing.  (The other way round it does:    *)
(* any user but root, and any limit of memory, are good enough for the      *)
(* preflight.)                                                              *)
(***************************************************************************)
SimulationLaneIsStricter ==
    RuntimeSandboxErrors(plan, host, TRUE) = {} =>
        /\ SandboxSatisfied([env EXCEPT !.base = TRUE], Process(host), Network(host),
                            ForgeMountPolicy(host), CgroupLimits(host.cgroup))
        /\ Network(host).offline /\ Network(host).loopback
        /\ "limit" \notin HostMemoryErrors(plan, host.memory, CgroupLimits(host.cgroup))
=============================================================================
