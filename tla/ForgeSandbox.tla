---------------------------- MODULE ForgeSandbox ----------------------------
(***************************************************************************)
(* What Model Forge observes of the container it runs in, and which         *)
(* containers it simulates in (oims/model_forge.py).  A container c has     *)
(*                                                                         *)
(*   user, capabilities, noNewPrivs, seccomp, denials   of the process;     *)
(*   route, interfaces                                  of the network;     *)
(*   mounts       the mount table, oldest mount first, <<>> if unreadable;  *)
(*   permitted    the permissions of /forge/output let the process write;   *)
(*   memory       /proc/meminfo;                                            *)
(*   cgroup       the files of both cgroup hierarchies.                     *)
(*                                                                         *)
(* A path is the sequence of its names.                                     *)
(***************************************************************************)
EXTENDS ForgePlan, SequencesExt

CONSTANTS
    ForgeUser,      \* UID and GID 65532
    Root,           \* UID 0
    MaxPids         \* the most processes the sandbox may be allowed

Mount == [path : Seq(STRING), ro : BOOLEAN, fs : STRING]

Forge(names) == <<"forge">> \o names
PlanPath == Forge(<<"plan.json">>)
BasePath == Forge(<<"inputs", "base">>)
DatasetPath == Forge(<<"inputs", "dataset">>)
OutputPath == Forge(<<"output">>)
TmpPath == <<"tmp">>

(***************************************************************************)
(* The mounts a container runtime makes writable on its own account.        *)
(***************************************************************************)
RuntimeMounts ==
    ({<<"tmp">>, <<"dev">>, <<"dev", "shm">>} \X {"tmpfs"})
    \cup ({<<"proc", n>> : n \in {"acpi", "interrupts", "kcore", "keys", "latency_stats",
                                  "scsi", "timer_list"}} \X {"tmpfs"})
    \cup {<<<<"proc">>, "proc">>, <<<<"dev", "pts">>, "devpts">>, <<<<"dev", "mqueue">>, "mqueue">>}
    \cup ({<<"etc", n>> : n \in {"hostname", "hosts", "resolv.conf"}} \X {"ext4", "xfs"})

\* Fault: the path a runtime mount may have is not compared.
OfRuntimeType(m) == IsPrefix(OutputPath, m.path) \/ m.fs \in {r[2] : r \in RuntimeMounts}
AllowedWritableMount(m) == IsPrefix(OutputPath, m.path) \/ <<m.path, m.fs>> \in RuntimeMounts

(***************************************************************************)
(* The mount a path is looked up in: of those at or above it, the newest.   *)
(***************************************************************************)
Visible(mounts, path) ==
    mounts[SelectLastInSeq(mounts, LAMBDA m : IsPrefix(m.path, path))]

(* The newest mount at the path itself, if there is one. *)
NewestAt(mounts, path) ==
    LET i == SelectLastInSeq(mounts, LAMBDA m : m.path = path)
    IN  IF i = 0 THEN {} ELSE {mounts[i]}

ReadOnlyAt(mounts, path) == \E m \in NewestAt(mounts, path) : m.ro
WritableAt(mounts, path) == \E m \in NewestAt(mounts, path) : ~m.ro
TmpfsAt(mounts, path) == \E m \in NewestAt(mounts, path) : m.fs = "tmpfs"

(* A writable mount below or above a protected input. *)
Exposed(mounts, path) ==
    \E i \in DOMAIN mounts :
        /\ IsStrictPrefix(path, mounts[i].path) \/ IsStrictPrefix(mounts[i].path, path)
        /\ ~mounts[i].ro

RootIsReadOnly(mounts) ==
    LET i == SelectInSeq(mounts, LAMBDA m : m.path = <<>>) IN i > 0 /\ mounts[i].ro

OutputPathProcessWritable(c) ==
    /\ \E i \in DOMAIN c.mounts : IsPrefix(c.mounts[i].path, OutputPath)
    /\ ~Visible(c.mounts, OutputPath).ro
    /\ c.permitted

ForgeMountPolicy(c) ==
    [plan_read_only |-> ReadOnlyAt(c.mounts, PlanPath),
     base_model_read_only |->
         ReadOnlyAt(c.mounts, BasePath) /\ ~Exposed(c.mounts, BasePath),
     dataset_read_only |->
         ReadOnlyAt(c.mounts, DatasetPath) /\ ~Exposed(c.mounts, DatasetPath),
     output_writable |-> WritableAt(c.mounts, OutputPath),
     tmpfs_active |-> TmpfsAt(c.mounts, TmpPath),
     output_process_writable |-> OutputPathProcessWritable(c),
     no_unexpected_writable_mounts |->
         \A i \in DOMAIN c.mounts : c.mounts[i].ro \/ AllowedWritableMount(c.mounts[i])]

(***************************************************************************)
(* Absent is a limit that is not there, or not a number ("max").  Where the *)
(* unified hierarchy has no memory limit, the older one is asked, also for  *)
(* what is in use; its limit of memory and swap counts the memory too.      *)
(***************************************************************************)
CgroupLimits(g) ==
    LET old == g.unified.limit = Absent
        m == IF old THEN g.older ELSE g.unified
    IN  [limit |-> m.limit,
         current |-> m.current,
         swap |-> IF old /\ m.limit # Absent /\ m.both # Absent
                  THEN Max({0, m.both - m.limit})
                  ELSE g.unified.swap,
         pids |-> IF g.unified.pids = Absent THEN g.older.pids ELSE g.unified.pids]

LimitErrors(l) ==
    Failed([swap |-> l.swap = 0, pids |-> IsPositive(l.pids) /\ l.pids <= MaxPids])

SwapUnused(m) == m.swapTotal \in Nat /\ m.swapFree = m.swapTotal

OnlyLoopback(c) == c.interfaces = {"lo"}
SeccompFilter(c) == c.seccomp = "filter" /\ c.denials

\* Fault: the limit of memory is only held against the declared capacity.
BelowCapacity(p, l) == IsPositive(l.limit) /\ l.limit <= Capacity(p, "host-ram")
WithinHostBounds(p, l) ==
    /\ IsPositive(l.limit) /\ IsPositive(p.ceiling["host"]) /\ IsPositive(Capacity(p, "host-ram"))
    /\ l.limit >= p.ceiling["host"]
    /\ l.limit <= Capacity(p, "host-ram")

(***************************************************************************)
(* _forge_runtime_sandbox_errors: whether simulate may emit evidence here.  *)
(* exact says that the directory it was told to write to is the output      *)
(* mount of the plan.                                                       *)
(***************************************************************************)
RuntimeSandboxErrors(p, c, exact) ==
    LET l == CgroupLimits(c.cgroup)
    IN  Failed([user |-> c.user = ForgeUser,
                capabilities |-> c.capabilities = {},
                privileges |-> c.noNewPrivs,
                seccomp |-> SeccompFilter(c),
                root |-> RootIsReadOnly(c.mounts),
                route |-> c.route = "none",
                interfaces |-> OnlyLoopback(c),
                output |-> exact,
                memory |-> WithinHostBounds(p, l),
                unused |-> SwapUnused(c.memory)])
        \cup Failed(ForgeMountPolicy(c))
        \cup LimitErrors(l)
=============================================================================
