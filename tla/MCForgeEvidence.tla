-------------------------- MODULE MCForgeEvidence --------------------------
(***************************************************************************)
(* Plans of one to three steps for TLC.  The lengths are scaled so that     *)
(* the evidence of edge is 98 bytes without its digits (99 with one, 100    *)
(* with two, 101 with three, the slowest the metering can be), that the     *)
(* plan.json of long exceeds the limit of a record, the telemetry of tall   *)
(* its own limit, and the evidence of poor its budget by one byte, which    *)
(* edge meets exactly.                                                      *)
(***************************************************************************)
EXTENDS ForgeEvidence

CONSTANTS edge, poor, long, longReceipt, tall, probe

Base ==
    [id |-> long, hashed |-> TRUE, exact |-> TRUE, mode |-> "simulate",
     evidence |-> "SIMULATED", base |-> "base", rollback |-> "base",
     ceiling |-> [c \in Ceilings |-> 4], budget |-> [b \in Budgets |-> 200],
     maxSteps |-> 3, domains |-> <<[id |-> "d", kind |-> "gpu-vram", bytes |-> 4],
                                   [id |-> "h", kind |-> "host-ram", bytes |-> 4]>>,
     interval |-> 1, retain |-> 3,
     sim |-> [losses |-> <<0>>, steps |-> 1, clock |-> TRUE,
              peak |-> [c \in Ceilings |-> 2], perStep |-> [b \in Budgets |-> 3]],
     bytes |-> 10, receiptBytes |-> 20]

Named(p, name) == [p EXCEPT !.id = name]
Losses(p, losses) == [p EXCEPT !.sim.losses = losses, !.sim.steps = Len(losses)]

Edge == [Losses(Named(Base, edge), <<5, 1>>) EXCEPT !.bytes = 20, !.receiptBytes = 38,
                                                 !.budget["output"] = 101]
Poor == [Edge EXCEPT !.id = poor, !.budget["output"] = 100]
Long == [Base EXCEPT !.bytes = 51]
LongReceipt == [Named(Base, longReceipt) EXCEPT !.receiptBytes = 49]
Tall == [Losses(Named(Base, tall), <<3, 2, 2>>) EXCEPT !.bytes = 5]
Altered == [Edge EXCEPT !.hashed = FALSE, !.sim.losses = <<5, 2>>]
Probe == [Named(Base, probe) EXCEPT !.mode = "probe", !.evidence = "PHYSICAL_PREFLIGHT",
                                      !.sim = NoSimulation]

MCPlans == {Edge, Poor, Long, LongReceipt, Tall, Altered, Probe}
=============================================================================
