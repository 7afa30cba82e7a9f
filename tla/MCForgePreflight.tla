-------------------------- MODULE MCForgePreflight --------------------------
(***************************************************************************)
(* Five plans, and hosts that differ from a good one in one respect each,   *)
(* at the limits and one beyond.  Sizes are small integers: the declared    *)
(* host memory is 8 and may be off by 1, the declared device memory 4 and   *)
(* may be off by 1, the ceilings are 4 and 3.                               *)
(***************************************************************************)
EXTENDS ForgePreflight

CONSTANTS probe, exceeding, blank, altered, simulation

Base ==
    [id |-> probe, hashed |-> TRUE, exact |-> TRUE, mode |-> "probe",
     evidence |-> "PHYSICAL_PREFLIGHT", base |-> "base", rollback |-> "base",
     ceiling |-> [host |-> 4, device |-> 3, temperature |-> 2],
     budget |-> [b \in Budgets |-> 1], maxSteps |-> 1,
     domains |-> <<[id |-> "d", kind |-> "gpu-vram", bytes |-> 4],
                   [id |-> "h", kind |-> "host-ram", bytes |-> 8]>>,
     interval |-> 1, retain |-> 1, sim |-> NoSimulation]

MCPlans ==
    {Base,
     [Base EXCEPT !.id = exceeding, !.ceiling["host"] = 9],
     [Base EXCEPT !.id = blank, !.ceiling["host"] = 0, !.domains = <<>>],
     [Base EXCEPT !.id = altered, !.hashed = FALSE, !.rollback = "other"],
     [Base EXCEPT !.id = simulation, !.mode = "simulate"]}

MountOf(path, readOnly, type) == [path |-> path, ro |-> readOnly, fs |-> type]

Table ==
    <<MountOf(<<>>, TRUE, "overlay"), MountOf(<<"proc">>, FALSE, "proc"), MountOf(TmpPath, FALSE, "tmpfs"),
      MountOf(<<"etc", "hosts">>, FALSE, "ext4"),
      MountOf(PlanPath, TRUE, "ext4"), MountOf(BasePath, TRUE, "ext4"),
      MountOf(DatasetPath, TRUE, "ext4"), MountOf(OutputPath, FALSE, "ext4")>>

Good ==
    [env |-> [container |-> TRUE, offline |-> TRUE, base |-> TRUE, source |-> "s1",
              unlock |-> TRUE, runtime |-> TRUE, descriptors |-> TRUE, utility |-> TRUE,
              libraries |-> TRUE],
     image |-> [source |-> "s1", isolated |-> TRUE, package |-> TRUE],
     user |-> ForgeUser, capabilities |-> {}, noNewPrivs |-> TRUE, seccomp |-> "filter",
     denials |-> TRUE, route |-> "none", interfaces |-> {"lo"}, mounts |-> Table,
     permitted |-> TRUE,
     memory |-> [total |-> 8, available |-> 4, swapTotal |-> 0, swapFree |-> 0],
     cgroup |-> [unified |-> [limit |-> 6, current |-> 2, swap |-> 0, pids |-> MaxPids],
                 older |-> [limit |-> Absent, current |-> Absent, both |-> Absent,
                            pids |-> Absent]],
     device |-> [outcome |-> "reading", total |-> 4, used |-> 1, temperature |-> 2, power |-> 1]]

MCPaths ==
    {<<>>, Forge(<<>>), PlanPath, BasePath, DatasetPath}
    \cup {Append(path, "file") : path \in {<<>>, <<"mnt">>, <<"etc">>, BasePath, DatasetPath}}

(* A mount added on top, for each way a table can go wrong, or stay good. *)
Added ==
    {MountOf(path, ro, "ext4") :
        path \in {<<>>, Forge(<<>>), Forge(<<"inputs">>), PlanPath, BasePath, <<"mnt">>,
                  Append(DatasetPath, "file"), OutputPath, Append(OutputPath, "run"), TmpPath},
        ro \in BOOLEAN}
Replaced(i, m) == [Table EXCEPT ![i] = m]
Tables ==
    {Append(Table, m) : m \in Added}
    \cup {Append(Replaced(5, MountOf(PlanPath, FALSE, "ext4")), MountOf(PlanPath, TRUE, "ext4")),
          Replaced(1, MountOf(<<>>, FALSE, "overlay")), <<>>,
          SubSeq(Table, 1, 5), Replaced(3, MountOf(TmpPath, TRUE, "ext4"))}

Older(limit, current, both) ==
    [unified |-> [limit |-> Absent, current |-> 0, swap |-> Absent, pids |-> Absent],
     older |-> [limit |-> limit, current |-> current, both |-> both, pids |-> MaxPids]]

Cgroups ==
    {[Good.cgroup EXCEPT !.unified = f @@ @] :
        f \in {"limit" :> 3, "limit" :> 8, "limit" :> 9, "limit" :> Absent, "current" :> 3,
               "current" :> 7, "current" :> Absent, "swap" :> Absent, "swap" :> 1,
               "pids" :> MaxPids + 1, "pids" :> 0, "pids" :> Absent}}
    \cup {Older(6, 2, 6), Older(6, 2, 7), Older(6, 2, Absent), Older(6, 3, 5)}

Memories ==
    {f @@ Good.memory :
        f \in {"total" :> 7, "total" :> 6, "total" :> 10, "total" :> Absent, "available" :> 3,
               "available" :> Absent, "swapTotal" :> Absent, "swapTotal" :> 1}}
    \cup {[Good.memory EXCEPT !.swapTotal = 1, !.swapFree = 1]}

Devices ==
    {[Good.device EXCEPT !.outcome = o] : o \in {"fails", "malformed", "other"}}
    \cup {f @@ Good.device :
             f \in {"total" :> 5, "total" :> 6, "used" :> 2, "temperature" :> 3, "power" :> 0}}

Environments ==
    {[Good.env EXCEPT ![f] = FALSE] : f \in DOMAIN Good.env \ {"source"}}
    \cup {[Good.env EXCEPT !.source = s] : s \in {"s2", NoSource}}

Images ==
    {[Good.image EXCEPT !.source = "s2"], [Good.image EXCEPT !.source = NoSource],
     [Good.image EXCEPT !.isolated = FALSE], [Good.image EXCEPT !.package = FALSE]}

MCHosts ==
    {Good}
    \cup {[Good EXCEPT !.env = e] : e \in Environments}
    \cup {[Good EXCEPT !.image = i] : i \in Images}
    \cup {[Good EXCEPT !.mounts = t] : t \in Tables}
    \cup {[Good EXCEPT !.cgroup = g] : g \in Cgroups}
    \cup {[Good EXCEPT !.memory = m] : m \in Memories}
    \cup {[Good EXCEPT !.device = d] : d \in Devices}
    \cup {[Good EXCEPT !.user = Root], [Good EXCEPT !.user = "other user"],
          [Good EXCEPT !.capabilities = {"chown"}], [Good EXCEPT !.noNewPrivs = FALSE],
          [Good EXCEPT !.seccomp = "none"], [Good EXCEPT !.denials = FALSE],
          [Good EXCEPT !.route = "default"], [Good EXCEPT !.route = "unreadable"],
          [Good EXCEPT !.interfaces = {"lo", "eth0"}], [Good EXCEPT !.interfaces = {}],
          [Good EXCEPT !.permitted = FALSE]}
=============================================================================
