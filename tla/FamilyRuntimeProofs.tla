------------------------- MODULE FamilyRuntimeProofs -------------------------
(***************************************************************************)
(* Proofs about FamilyRuntime, for any tiers, files, pullers and runs.      *)
(***************************************************************************)
EXTENDS FamilyRuntime, AtomicFiles, FiniteSetTheorems, SequenceTheorems, TLAPS

(* What the prover has to be told of the data. *)
LEMMA Files ==
    /\ \A t \in Tiers : FilesOf[t] \subseteq AllFiles
    /\ AllFiles \in SUBSET AllFiles
    /\ NothingSeen \in [AllFiles -> Content]
BY DEF AllFiles, NothingSeen, Content

LEMMA Order == TierOrder \in Seq(Tiers) /\ TierOrder # <<>>
BY StoreAssumption, RuntimeAssumption

\* What Start may plan: the whole family, or the tier of one agent.
LEMMA Plans ==
    /\ \A plan \in {TierOrder} \cup {<<t>> : t \in Tiers} : plan \in Seq(Tiers) /\ plan # <<>>
    /\ \A k \in {"family", "collective"} :
          (IF k = "family" THEN {TierOrder} ELSE {<<t>> : t \in Tiers})
             \subseteq {TierOrder} \cup {<<t>> : t \in Tiers}
<1>1. \A t \in Tiers : <<t>> \in Seq(Tiers) /\ <<t>> # <<>>
  OBVIOUS
<1>2. \A plan \in {<<t>> : t \in Tiers} : plan \in Seq(Tiers) /\ plan # <<>>
  BY <1>1, Zenon
<1> QED BY <1>2, Order, Zenon

LEMMA IdleTyped == Idle \in PullState /\ IdleRun \in RunState
<1>1. Idle \in PullState
  BY StoreAssumption, Files DEF Idle, PullState
<1>2. IdleRun \in RunState
  BY Files DEF IdleRun, NoBytes, RunState, Stages, Verdicts, BackendKinds, LockState
<1> QED BY <1>1, <1>2

(***************************************************************************)
(* The store keeps its types whoever acts on it.                            *)
(***************************************************************************)
LEMMA StoreTypes ==
    ASSUME StoreTypeOK, StoreNext
    PROVE  StoreTypeOK'
<1> USE DEF StoreTypeOK
<1>1. ASSUME NEW p \in Pullers, NEW t \in Tiers, PullStart(p, t) PROVE StoreTypeOK'
  <2>1. [pc |-> "download", tier |-> t, todo |-> FilesOf[t], seen |-> NothingSeen] \in PullState
    BY Files DEF PullState
  <2> QED BY <1>1, <2>1 DEF PullStart
<1>2. ASSUME NEW p \in Pullers, NEW f \in AllFiles, Download(p, f) PROVE StoreTypeOK'
  <2>1. weight' \in [AllFiles -> Content] /\ changes' \in 0 .. MaxChanges
    BY <1>2, StoreAssumption DEF Download, Upstream, Content
  <2>2. pull' \in [Pullers -> PullState]
    <3>1. FilesOf[pull[p].tier] \subseteq AllFiles
      BY Files DEF PullState
    <3>2. ([pull[p] EXCEPT
              !.todo = IF pull[p].todo \ {f} = {} THEN FilesOf[pull[p].tier] ELSE pull[p].todo \ {f},
              !.pc = IF pull[p].todo \ {f} = {} THEN "hash" ELSE "download"]) \in PullState
      BY <3>1 DEF PullState
    <3> QED BY <1>2, <3>2 DEF Download
  <2> QED BY <1>2, <2>1, <2>2 DEF Download
<1>3. ASSUME NEW p \in Pullers, PullAborts(p) PROVE StoreTypeOK'
  BY <1>3, IdleTyped DEF PullAborts
<1>4. ASSUME NEW p \in Pullers, NEW f \in AllFiles, HashDownloaded(p, f) PROVE StoreTypeOK'
  <2>1. CASE PullAborts(p)
    BY <2>1, <1>3
  <2>2. CASE pull' = [pull EXCEPT ![p].todo = @ \ {f}, ![p].seen[f] = weight[f]]
             /\ UNCHANGED <<weight, lock, changes>>
    <3>1. [pull[p] EXCEPT !.todo = @ \ {f}, !.seen[f] = weight[f]] \in PullState
      BY DEF PullState
    <3> QED BY <2>2, <3>1
  <2> QED BY <1>4, <2>1, <2>2 DEF HashDownloaded
<1>5. ASSUME NEW p \in Pullers, WriteLock(p) PROVE StoreTypeOK'
  BY <1>5, IdleTyped DEF WriteLock, LockRecording, LockState
<1>6. ASSUME NEW f \in AllFiles, NEW c \in Content, DiskChanges(f, c) PROVE StoreTypeOK'
  BY <1>6, StoreAssumption DEF DiskChanges
<1> QED BY <1>1, <1>2, <1>3, <1>4, <1>5, <1>6 DEF StoreNext, PullStep, DownloadFails

-----------------------------------------------------------------------------
(***************************************************************************)
(* The parts of the type invariant that belong to the runs.                 *)
(***************************************************************************)
RunTypeOK ==
    /\ run \in [Runs -> RunState]
    /\ moved \in [Runs -> SUBSET AllFiles]
    /\ resident \in [Runs -> SUBSET Tiers]
    /\ records \in [Runs -> Seq(TierRecord)]
    /\ outcome \in [Runs -> Report \cup Response \cup {NoOutcome}]

LEMMA PublishTyped ==
    ASSUME RunTypeOK, NEW r \in Runs, run[r].plan # <<>>, NEW rec \in TierRecord, Publish(r, rec)
    PROVE  /\ run' \in [Runs -> RunState]
           /\ moved' \in [Runs -> SUBSET AllFiles]
           /\ records' \in [Runs -> Seq(TierRecord)]
<1> DEFINE rest == Tail(run[r].plan)
<1>1. run[r] \in RunState
  BY DEF RunTypeOK
<1>2. rest \in Seq(Tiers)
  BY <1>1 DEF RunState
<1>3. NextStage(rest) \in Stages
  BY DEF NextStage, Stages
<1> DEFINE next == [IdleRun EXCEPT !.pc = NextStage(rest), !.kind = run[r].kind, !.plan = rest,
                                   !.prompt = run[r].prompt, !.backend = run[r].backend]
<1>4. next \in RunState
  BY <1>1, <1>2, <1>3, IdleTyped DEF RunState
<1>5. run' = [run EXCEPT ![r] = next]
  BY DEF Publish
<1>6. Append(records[r], rec) \in Seq(TierRecord)
  BY DEF RunTypeOK
<1>7. records' = [records EXCEPT ![r] = Append(records[r], rec)] /\ moved' = [moved EXCEPT ![r] = {}]
  BY DEF Publish
<1> QED BY <1>4, <1>5, <1>6, <1>7 DEF RunTypeOK

LEMMA RecordTypes ==
    ASSUME RunTypeOK, NEW r \in Runs, run[r].plan # <<>>
    PROVE  /\ \A c \in Commits \cup {NoCommit} : RefusedRecord(r, c) \in TierRecord
           /\ UnavailableRecord(r) \in TierRecord
           /\ FailedRecord(r) \in TierRecord
           /\ ExecutedRecord(r) \in TierRecord
<1>1. run[r] \in RunState /\ moved[r] \in SUBSET AllFiles
  BY DEF RunTypeOK
<1>2. Tier(r) \in Tiers
  BY <1>1 DEF Tier, RunState
<1>3. UnavailableRecord(r) \in TierRecord
  BY <1>1, <1>2, Files DEF RunState, TierRecord, UnavailableRecord, NoBytes, Statuses
<1>4. FailedRecord(r) \in TierRecord
  BY <1>1, <1>3 DEF RunState, TierRecord, FailedRecord
<1>5. ExecutedRecord(r) \in TierRecord
  BY <1>1, <1>2 DEF RunState, TierRecord, ExecutedRecord, OutputStatus, Statuses, Verdicts
<1>6. \A c \in Commits \cup {NoCommit} : RefusedRecord(r, c) \in TierRecord
  BY <1>1, <1>2, Files DEF RunState, TierRecord, RefusedRecord, PreflightLawful, NoBytes, Statuses
<1> QED BY <1>3, <1>4, <1>5, <1>6

(***************************************************************************)
(* Where a run is.  Past the preflight it has a tier left to execute and an *)
(* accepted prompt; past the checks of LlamaCppBackend.__init__ what it saw *)
(* of the tier's files is what the manifest pins.                           *)
(***************************************************************************)
InTier(r) == run[r].pc \in {"tier", "inspect", "hash", "load", "generate", "release"}
PastPreflight(r) == run[r].pc \in {"inspect", "hash", "load", "generate", "release"}
PastChecks(r) == run[r].pc \in {"load", "generate", "release"} /\ run[r].backend = "llama"

StageInv(r) ==
    /\ InTier(r) => run[r].plan # <<>>
    /\ PastPreflight(r) => ShouldExecute(run[r].prompt)
    /\ run[r].pc \in {"inspect", "hash", "load"} => run[r].backend = "llama"
    /\ PastChecks(r) => Verified(r)
    /\ run[r].pc = "load" => run[r].todo = {}
    /\ run[r].pc = "seal" => run[r].plan = <<>>

Stage == \A r \in Runs : StageInv(r)

LEMMA PublishStage ==
    ASSUME RunTypeOK, NEW r \in Runs, run[r].plan # <<>>, NEW rec, Publish(r, rec)
    PROVE  /\ run'[r].pc \in {"tier", "seal"}
           /\ run'[r].plan = Tail(run[r].plan)
           /\ run'[r].pc = NextStage(run'[r].plan)
           /\ run'[r].kind = run[r].kind
           /\ run'[r].prompt = run[r].prompt
           /\ records'[r] = Append(records[r], rec)
           /\ \A s \in Runs \ {r} : run'[s] = run[s] /\ records'[s] = records[s]
BY DEF RunTypeOK, Publish, NextStage, IdleRun

(* A step of run r leaves the others alone. *)
LEMMA OthersKeepStage ==
    ASSUME Stage, RunTypeOK, NEW r \in Runs, \A s \in Runs \ {r} : run'[s] = run[s], StageInv(r)'
    PROVE  Stage'
BY DEF Stage, StageInv, InTier, PastPreflight, PastChecks, Verified, HashVerified, Complete, Tier

LEMMA StageStep ==
    ASSUME RunTypeOK, Stage, NEW r \in Runs, RunStep(r)
    PROVE  Stage'
<1> USE DEF StageInv, InTier, PastPreflight, PastChecks
<1>1. ASSUME NEW rec, run[r].plan # <<>>, Publish(r, rec) PROVE Stage'
  <2>1. StageInv(r)'
    BY <1>1, PublishStage DEF NextStage
  <2> QED BY <1>1, <2>1, PublishStage, OthersKeepStage
<1>2. CASE Start(r)
  <2>1. \A s \in Runs \ {r} : run'[s] = run[s]
    BY <1>2 DEF Start, RunTypeOK
  <2>2. PICK v \in Verdicts, b \in BackendKinds, k \in {"family", "collective"},
             plan \in {TierOrder} \cup {<<t>> : t \in Tiers} :
                run' = [run EXCEPT ![r].pc = "tier", ![r].kind = k, ![r].plan = plan,
                                   ![r].prompt = v, ![r].backend = b]
    BY <1>2, Plans DEF Start
  <2>3. plan # <<>>
    BY <2>2, Plans
  <2>4. run'[r].pc = "tier" /\ run'[r].plan = plan
    BY <2>2 DEF RunTypeOK, RunState
  <2> QED BY <2>1, <2>3, <2>4, OthersKeepStage
<1>3. CASE BeginTier(r)
  <2>1. run[r].plan # <<>>
    BY <1>3 DEF BeginTier, Stage
  <2>2. CASE \E c \in GitCommit : Publish(r, RefusedRecord(r, c))
    BY <1>1, <2>1, <2>2
  <2>3. CASE \E c \in GitCommit :
                /\ ShouldExecute(run[r].prompt)
                /\ run' = [run EXCEPT ![r].commit = c,
                              ![r].pc = IF run[r].backend = "llama" THEN "inspect" ELSE "generate"]
    <3>1. \A s \in Runs \ {r} : run'[s] = run[s]
      BY <2>3 DEF RunTypeOK
    <3>2. StageInv(r)'
      BY <2>1, <2>3 DEF RunTypeOK, RunState, BackendKinds
    <3> QED BY <3>1, <3>2, OthersKeepStage
  <2> QED BY <1>3, <2>2, <2>3 DEF BeginTier
<1>4. CASE InspectLock(r)
  <2>1. \A s \in Runs \ {r} : run'[s] = run[s]
    BY <1>4 DEF InspectLock, RunTypeOK
  <2>2. StageInv(r)'
    BY <1>4 DEF InspectLock, RunTypeOK, RunState, Stage
  <2> QED BY <2>1, <2>2, OthersKeepStage
<1>5. ASSUME NEW f \in AllFiles, InspectFile(r, f) PROVE Stage'
  <2>1. \A s \in Runs \ {r} : run'[s] = run[s]
    BY <1>5 DEF InspectFile, RunTypeOK
  <2>2. StageInv(r)'
    BY <1>5 DEF InspectFile, RunTypeOK, RunState, Stage
  <2> QED BY <2>1, <2>2, OthersKeepStage
<1>6. CASE CheckIdentity(r)
  <2>1. run[r].plan # <<>>
    BY <1>6 DEF CheckIdentity, Stage
  <2>2. CASE Unavailable(r)
    BY <1>1, <2>1, <2>2 DEF Unavailable
  <2>3. CASE Verified(r) /\ run' = [run EXCEPT ![r].pc = "load"]
    <3>1. \A s \in Runs \ {r} : run'[s] = run[s]
      BY <2>3 DEF RunTypeOK
    <3>2. Verified(r)'
      BY <2>3 DEF RunTypeOK, RunState, Verified, HashVerified, Complete, Tier
    <3>3. StageInv(r)'
      BY <1>6, <2>1, <2>3, <3>2 DEF CheckIdentity, RunTypeOK, RunState, Stage
    <3> QED BY <3>1, <3>3, OthersKeepStage
  <2> QED BY <1>6, <2>2, <2>3 DEF CheckIdentity
<1>7. CASE Load(r)
  <2>1. run[r].plan # <<>>
    BY <1>7 DEF Load, Stage
  <2>2. CASE Unavailable(r)
    BY <1>1, <2>1, <2>2 DEF Unavailable
  <2>3. CASE ~Unavailable(r)
    <3>1. \A s \in Runs \ {r} : run'[s] = run[s]
      BY <1>7, <2>3 DEF Load, RunTypeOK
    <3>2. /\ run'[r].pc = "generate" /\ run'[r].plan = run[r].plan /\ run'[r].prompt = run[r].prompt
          /\ run'[r].seen = run[r].seen /\ run'[r].lockSeen = run[r].lockSeen
      BY <1>7, <2>3 DEF Load, RunTypeOK, RunState
    <3>3. Verified(r)'
      BY <1>7, <3>2 DEF Load, Stage, Verified, HashVerified, Complete, Tier
    <3>4. StageInv(r)'
      BY <1>7, <2>1, <3>2, <3>3 DEF Load, Stage
    <3> QED BY <3>1, <3>4, OthersKeepStage
  <2> QED BY <2>2, <2>3
<1>8. CASE Generate(r)
  <2>1. \A s \in Runs \ {r} : run'[s] = run[s]
    BY <1>8 DEF Generate, RunTypeOK
  <2>2. /\ run'[r].pc = "release" /\ run'[r].plan = run[r].plan /\ run'[r].prompt = run[r].prompt
        /\ run'[r].seen = run[r].seen /\ run'[r].lockSeen = run[r].lockSeen
        /\ run'[r].backend = run[r].backend
    BY <1>8 DEF Generate, RunTypeOK, RunState
  <2>3. Verified(r) => Verified(r)'
    BY <2>2 DEF Verified, HashVerified, Complete, Tier
  <2>4. StageInv(r)'
    BY <1>8, <2>2, <2>3 DEF Generate, Stage
  <2> QED BY <2>1, <2>4, OthersKeepStage
<1>9. CASE Release(r)
  <2>1. run[r].plan # <<>>
    BY <1>9 DEF Release, Stage
  <2> QED BY <1>1, <1>9, <2>1 DEF Release
<1>10. CASE Seal(r)
  BY <1>10, OthersKeepStage DEF Seal, RunTypeOK, RunState
<1>11. CASE Crash(r)
  BY <1>11, OthersKeepStage DEF Crash, RunTypeOK, IdleRun
<1> QED BY <1>2, <1>3, <1>4, <1>5, <1>6, <1>7, <1>8, <1>9, <1>10, <1>11 DEF RunStep

-----------------------------------------------------------------------------
(***************************************************************************)
(* The types of a run.                                                      *)
(***************************************************************************)
LEMMA PublishKeepsTypes ==
    ASSUME RunTypeOK, NEW r \in Runs, run[r].plan # <<>>, NEW rec \in TierRecord, Publish(r, rec),
           resident' \in [Runs -> SUBSET Tiers], UNCHANGED outcome
    PROVE  RunTypeOK'
BY PublishTyped DEF RunTypeOK

LEMMA SealTyped ==
    ASSUME NEW recs, NEW c \in Commits \cup {NoCommit}
    PROVE  BuildReport(recs, c) \in Report
<1>1. AllLawful(recs) \in BOOLEAN
  BY DEF AllLawful
<1>2. WeightBacked(recs) \in BOOLEAN
  BY DEF WeightBacked
<1> QED BY <1>1, <1>2 DEF BuildReport, Report

LEMMA RunTypes ==
    ASSUME StoreTypeOK, head \in Commits, RunTypeOK, Stage, NEW r \in Runs, RunStep(r)
    PROVE  RunTypeOK'
<1>0. run[r] \in RunState /\ moved[r] \in SUBSET AllFiles /\ resident[r] \in SUBSET Tiers
  BY DEF RunTypeOK
<1>1. InTier(r) => run[r].plan # <<>> /\ Tier(r) \in Tiers
  BY <1>0 DEF Stage, StageInv, RunState, Tier
<1>2. CASE Start(r)
  <2>1. PICK v \in Verdicts, b \in BackendKinds, k \in {"family", "collective"},
             plan \in {TierOrder} \cup {<<t>> : t \in Tiers} :
                run' = [run EXCEPT ![r].pc = "tier", ![r].kind = k, ![r].plan = plan,
                                   ![r].prompt = v, ![r].backend = b]
    BY <1>2, Plans DEF Start
  <2>2. plan \in Seq(Tiers)
    BY <2>1, Plans
  <2>3. [run[r] EXCEPT !.pc = "tier", !.kind = k, !.plan = plan, !.prompt = v, !.backend = b]
           \in RunState
    BY <1>0, <2>2 DEF RunState, Stages
  <2>4. run' \in [Runs -> RunState]
    BY <2>1, <2>3 DEF RunTypeOK
  <2> QED BY <1>2, <2>4 DEF Start, RunTypeOK
<1>3. CASE BeginTier(r)
  <2>1. PICK c \in {head, NoCommit} :
          \/ ~ShouldExecute(run[r].prompt) /\ Publish(r, RefusedRecord(r, c))
          \/ /\ ShouldExecute(run[r].prompt)
             /\ run' = [run EXCEPT ![r].commit = c,
                           ![r].pc = IF run[r].backend = "llama" THEN "inspect" ELSE "generate"]
             /\ UNCHANGED <<moved, records>>
    BY <1>3 DEF BeginTier, GitCommit
  <2>2. run[r].plan # <<>> /\ UNCHANGED <<resident, outcome>> /\ c \in Commits \cup {NoCommit}
    BY <1>1, <1>3, <2>1 DEF BeginTier, InTier
  <2>3. CASE Publish(r, RefusedRecord(r, c))
    <3>1. RefusedRecord(r, c) \in TierRecord
      BY <2>2, RecordTypes
    <3>2. resident' \in [Runs -> SUBSET Tiers]
      BY <2>2 DEF RunTypeOK
    <3> QED BY <2>2, <2>3, <3>1, <3>2, PublishKeepsTypes
  <2>4. CASE run' = [run EXCEPT ![r].commit = c,
                        ![r].pc = IF run[r].backend = "llama" THEN "inspect" ELSE "generate"]
             /\ UNCHANGED <<moved, records>>
    <3>1. [run[r] EXCEPT !.commit = c,
                         !.pc = IF run[r].backend = "llama" THEN "inspect" ELSE "generate"]
             \in RunState
      BY <1>0, <2>2 DEF RunState, Stages
    <3> QED BY <2>2, <2>4, <3>1 DEF RunTypeOK
  <2> QED BY <2>1, <2>3, <2>4
<1>4. ASSUME Unavailable(r), InTier(r) PROVE RunTypeOK'
  <2>1. UnavailableRecord(r) \in TierRecord
    BY <1>1, <1>4, RecordTypes
  <2>2. resident' \in [Runs -> SUBSET Tiers] /\ UNCHANGED outcome
    BY <1>4 DEF RunTypeOK, Unavailable
  <2> QED BY <1>1, <1>4, <2>1, <2>2, PublishKeepsTypes DEF Unavailable
<1>5. CASE InspectLock(r)
  <2>1. PICK l \in {lock[Tier(r)], "none"} :
          run' = [run EXCEPT ![r].pc = "hash", ![r].lockSeen = l, ![r].todo = FilesOf[Tier(r)]]
    BY <1>5 DEF InspectLock
  <2>2. l \in LockState /\ FilesOf[Tier(r)] \subseteq AllFiles
    BY <1>1, <1>5, <2>1, Files DEF InspectLock, InTier, StoreTypeOK, LockState
  <2>3. [run[r] EXCEPT !.pc = "hash", !.lockSeen = l, !.todo = FilesOf[Tier(r)]] \in RunState
    BY <1>0, <2>2 DEF RunState, Stages
  <2> QED BY <1>5, <2>1, <2>3 DEF InspectLock, RunTypeOK
<1>6. ASSUME NEW f \in AllFiles, InspectFile(r, f) PROVE RunTypeOK'
  <2>1. [run[r] EXCEPT !.todo = @ \ {f}, !.seen[f] = weight[f]] \in RunState
    BY <1>0 DEF RunState, StoreTypeOK
  <2> QED BY <1>6, <2>1 DEF InspectFile, RunTypeOK
<1>7. CASE CheckIdentity(r)
  <2>1. [run[r] EXCEPT !.pc = "load"] \in RunState
    BY <1>0 DEF RunState, Stages
  <2>2. CASE run' = [run EXCEPT ![r].pc = "load"] /\ UNCHANGED <<moved, resident, records, outcome>>
    BY <2>1, <2>2 DEF RunTypeOK
  <2> QED BY <1>4, <1>7, <2>2 DEF CheckIdentity, InTier
<1>8. CASE Load(r)
  <2> DEFINE read == [f \in AllFiles |-> IF f \in FilesOf[Tier(r)] THEN weight[f] ELSE "missing"]
  <2>1. read \in [AllFiles -> Content]
    BY DEF StoreTypeOK, Content
  <2>2. CASE /\ run' = [run EXCEPT ![r].pc = "generate", ![r].bytes = read]
             /\ resident' = [resident EXCEPT ![r] = @ \cup {Tier(r)}]
             /\ UNCHANGED <<moved, records, outcome>>
    <3> HIDE DEF read
    <3>1. [run[r] EXCEPT !.pc = "generate", !.bytes = read] \in RunState
      BY <1>0, <2>1 DEF RunState, Stages
    <3>2. run' \in [Runs -> RunState]
      BY <2>2, <3>1 DEF RunTypeOK
    <3>3. resident[r] \cup {Tier(r)} \in SUBSET Tiers
      BY <1>0, <1>1, <1>8 DEF Load, InTier
    <3>4. resident' \in [Runs -> SUBSET Tiers]
      BY <2>2, <3>3 DEF RunTypeOK
    <3> QED BY <2>2, <3>2, <3>4 DEF RunTypeOK
  <2> QED BY <1>4, <1>8, <2>2 DEF Load, InTier
<1>9. CASE Generate(r)
  <2>1. PICK a \in {"text", "blank", "error"} :
          run' = [run EXCEPT ![r].pc = "release", ![r].answer = a]
    BY <1>9 DEF Generate
  <2>2. [run[r] EXCEPT !.pc = "release", !.answer = a] \in RunState
    BY <1>0, <2>1 DEF RunState, Stages
  <2> QED BY <1>9, <2>1, <2>2 DEF Generate, RunTypeOK
<1>10. CASE Release(r)
  <2> DEFINE rec == IF run[r].answer = "error" THEN FailedRecord(r) ELSE ExecutedRecord(r)
  <2>1. rec \in TierRecord
    BY <1>1, <1>10, RecordTypes DEF Release, InTier
  <2>2. resident' \in [Runs -> SUBSET Tiers] /\ UNCHANGED outcome /\ Publish(r, rec)
    BY <1>0, <1>10 DEF Release, Released, RunTypeOK
  <2>3. run[r].plan # <<>>
    BY <1>1, <1>10 DEF Release, InTier
  <2> HIDE DEF rec
  <2> QED BY <2>1, <2>2, <2>3, PublishKeepsTypes
<1>11. CASE Seal(r)
  <2>1. PICK c \in {head, NoCommit} :
          outcome' = [outcome EXCEPT ![r] = IF run[r].kind = "family"
                                            THEN BuildReport(records[r], c)
                                            ELSE [kind |-> "collective"]]
    BY <1>11 DEF Seal, GitCommit
  <2>2. BuildReport(records[r], c) \in Report
    BY <2>1, SealTyped
  <2>3. [kind |-> "collective"] \in Response
    BY DEF Response
  <2>4. outcome' \in [Runs -> Report \cup Response \cup {NoOutcome}]
    BY <2>1, <2>2, <2>3 DEF RunTypeOK
  <2>5. [run[r] EXCEPT !.pc = "done"] \in RunState
    BY <1>0 DEF RunState, Stages
  <2> QED BY <1>11, <2>4, <2>5 DEF Seal, RunTypeOK
<1>12. CASE Crash(r)
  <2>1. [IdleRun EXCEPT !.pc = "done"] \in RunState
    BY IdleTyped DEF RunState, Stages
  <2>2. moved' \in [Runs -> SUBSET AllFiles] /\ resident' \in [Runs -> SUBSET Tiers]
    BY <1>12 DEF Crash, RunTypeOK
  <2>3. run' \in [Runs -> RunState]
    BY <1>12, <2>1 DEF Crash, RunTypeOK
  <2> QED BY <1>12, <2>2, <2>3 DEF Crash, RunTypeOK
<1> QED BY <1>2, <1>3, <1>5, <1>6, <1>7, <1>8, <1>9, <1>10, <1>11, <1>12 DEF RunStep

-----------------------------------------------------------------------------
(***************************************************************************)
(* Types and stages hold of every behaviour.                                *)
(***************************************************************************)
LEMMA Typing == Spec => [](TypeOK /\ Stage)
<1>1. Init => TypeOK /\ Stage
  <2> SUFFICES ASSUME Init PROVE TypeOK /\ Stage
    OBVIOUS
  <2>1. StoreTypeOK
    <3>1. weight \in [AllFiles -> Content]
      BY StoreAssumption DEF Init, StoreInit, Content
    <3>2. lock \in [Tiers -> LockState]
      BY StoreAssumption DEF Init, StoreInit, LockState
    <3>3. pull \in [Pullers -> PullState] /\ changes \in 0 .. MaxChanges
      BY StoreAssumption, IdleTyped DEF Init, StoreInit
    <3> QED BY <3>1, <3>2, <3>3 DEF StoreTypeOK
  <2>2. TypeOK
    BY <2>1, IdleTyped, RuntimeAssumption DEF Init, TypeOK
  <2>3. Stage
    BY DEF Init, Stage, StageInv, InTier, PastPreflight, PastChecks, IdleRun
  <2> QED BY <2>2, <2>3
<1>2. TypeOK /\ Stage /\ [Next]_vars => (TypeOK /\ Stage)'
  <2> SUFFICES ASSUME TypeOK, Stage, [Next]_vars PROVE (TypeOK /\ Stage)'
    OBVIOUS
  <2>1. ASSUME NEW r \in Runs, RunStep(r), UNCHANGED <<storeVars, head, headMoves>>
        PROVE  (TypeOK /\ Stage)'
    <3>1. RunTypeOK'
      BY <2>1, RunTypes DEF TypeOK, RunTypeOK
    <3>2. Stage'
      BY <2>1, StageStep DEF TypeOK, RunTypeOK
    <3>3. StoreTypeOK' /\ (head \in Commits)' /\ (headMoves \in 0 .. MaxHeadMoves)'
      BY <2>1 DEF TypeOK, StoreTypeOK, storeVars
    <3> QED BY <3>1, <3>2, <3>3 DEF TypeOK, RunTypeOK
  <2>2. CASE StoreStep
    <3>1. StoreTypeOK'
      BY <2>2, StoreTypes DEF StoreStep, TypeOK
    <3>2. moved' \in [Runs -> SUBSET AllFiles]
      <4>1. \A r \in Runs : Hashed(r) \subseteq AllFiles
        <5> SUFFICES ASSUME NEW r \in Runs PROVE Hashed(r) \subseteq AllFiles
          OBVIOUS
        <5>1. run[r].pc \in {"hash", "load"} => Tier(r) \in Tiers
          BY DEF TypeOK, RunState, Stage, StageInv, InTier, Tier
        <5> QED BY <5>1, Files DEF Hashed
      <4> QED BY <2>2, <4>1 DEF StoreStep, TypeOK
    <3>3. Stage'
      BY <2>2 DEF StoreStep, Stage, StageInv, InTier, PastPreflight, PastChecks, Verified,
                  HashVerified, Complete, Tier
    <3> QED BY <2>2, <3>1, <3>2, <3>3 DEF StoreStep, TypeOK
  <2>3. CASE HeadMoves
    <3>1. StoreTypeOK' /\ Stage'
      BY <2>3 DEF HeadMoves, TypeOK, StoreTypeOK, Stage, StageInv, InTier, PastPreflight,
                  PastChecks, Verified, HashVerified, Complete, Tier
    <3>2. (headMoves \in 0 .. MaxHeadMoves)'
      BY <2>3, RuntimeAssumption DEF HeadMoves, TypeOK
    <3> QED BY <2>3, <3>1, <3>2 DEF HeadMoves, TypeOK
  <2>4. CASE UNCHANGED vars
    BY <2>4 DEF vars, TypeOK, StoreTypeOK, Stage, StageInv, InTier, PastPreflight,
                PastChecks, Verified, HashVerified, Complete, Tier
  <2> QED BY <2>1, <2>2, <2>3, <2>4 DEF Next
<1> QED BY <1>1, <1>2, PTL DEF Spec

\* Every state of every behaviour is well typed: in particular a record's
\* status, and a lock, is one of those the code writes.
THEOREM FamilyTypes == Spec => []TypeOK
<1>1. TypeOK /\ Stage => TypeOK
  OBVIOUS
<1> QED BY <1>1, Typing, PTL

-----------------------------------------------------------------------------
(***************************************************************************)
(* A run holds a model exactly while it generates with one.                 *)
(***************************************************************************)
ResidentInv(r) ==
    resident[r] = IF run[r].pc \in {"generate", "release"} /\ run[r].backend = "llama"
                  THEN {Tier(r)} ELSE {}

Resident == \A r \in Runs : ResidentInv(r)

LEMMA ResidentStep ==
    ASSUME TypeOK, Stage, Resident, NEW r \in Runs, RunStep(r)
    PROVE  Resident'
<1> USE DEF ResidentInv, Tier
<1>0. RunTypeOK /\ run[r] \in RunState
  BY DEF TypeOK, RunTypeOK
<1>1. InTier(r) => run[r].plan # <<>>
  BY DEF Stage, StageInv
<1>2. ASSUME \A s \in Runs \ {r} : run'[s] = run[s] /\ resident'[s] = resident[s], ResidentInv(r)'
      PROVE  Resident'
  BY <1>2 DEF Resident
<1>3. ASSUME NEW rec, InTier(r), Publish(r, rec),
             \A s \in Runs \ {r} : resident'[s] = resident[s], resident'[r] = {}
      PROVE  Resident'
  <2>1. run'[r].pc \in {"tier", "seal"} /\ \A s \in Runs \ {r} : run'[s] = run[s]
    BY <1>0, <1>1, <1>3, PublishStage
  <2> QED BY <1>2, <1>3, <2>1
<1>4. ASSUME Unavailable(r), run[r].pc \in {"hash", "load"} PROVE Resident'
  <2>1. resident' = resident /\ resident[r] = {}
    BY <1>4 DEF Unavailable, Resident
  <2> QED BY <1>3, <1>4, <2>1 DEF Unavailable, InTier
<1>5. CASE Start(r)
  <2>1. run[r].pc = "idle" /\ resident' = resident
    BY <1>5 DEF Start
  <2>2. resident[r] = {}
    BY <2>1 DEF Resident
  <2>3. run'[r].pc = "tier" /\ \A s \in Runs \ {r} : run'[s] = run[s]
    BY <1>0, <1>5 DEF Start, RunTypeOK, RunState
  <2> QED BY <1>2, <2>1, <2>2, <2>3
<1>6. CASE BeginTier(r)
  <2>1. run[r].pc = "tier" /\ resident' = resident
    BY <1>6 DEF BeginTier
  <2>2. resident[r] = {}
    BY <2>1 DEF Resident
  <2>3. CASE \E c \in GitCommit : Publish(r, RefusedRecord(r, c))
    BY <1>3, <2>1, <2>2, <2>3 DEF InTier
  <2>4. CASE \E c \in GitCommit :
                /\ ShouldExecute(run[r].prompt)
                /\ run' = [run EXCEPT ![r].commit = c,
                              ![r].pc = IF run[r].backend = "llama" THEN "inspect" ELSE "generate"]
    <3>1. /\ run'[r].backend = run[r].backend
          /\ run'[r].pc = IF run[r].backend = "llama" THEN "inspect" ELSE "generate"
          /\ \A s \in Runs \ {r} : run'[s] = run[s]
      BY <1>0, <2>4 DEF RunTypeOK, RunState
    <3> QED BY <1>2, <2>1, <2>2, <3>1
  <2> QED BY <1>6, <2>3, <2>4 DEF BeginTier
<1>7. CASE InspectLock(r) \/ \E f \in AllFiles : InspectFile(r, f)
  <2>1. run[r].pc \in {"inspect", "hash"} /\ resident' = resident
    BY <1>7 DEF InspectLock, InspectFile
  <2>2. resident[r] = {}
    BY <2>1 DEF Resident
  <2>3. run'[r].pc = "hash" /\ \A s \in Runs \ {r} : run'[s] = run[s]
    <3>1. CASE InspectLock(r)
      BY <1>0, <3>1 DEF InspectLock, RunTypeOK, RunState
    <3>2. ASSUME NEW f \in AllFiles, InspectFile(r, f)
          PROVE  run'[r].pc = "hash" /\ \A s \in Runs \ {r} : run'[s] = run[s]
      BY <1>0, <3>2 DEF InspectFile, RunTypeOK, RunState
    <3> QED BY <1>7, <3>1, <3>2
  <2> QED BY <1>2, <2>1, <2>2, <2>3
<1>8. CASE CheckIdentity(r)
  <2>1. CASE run' = [run EXCEPT ![r].pc = "load"] /\ resident' = resident
    <3>1. run'[r].pc = "load" /\ \A s \in Runs \ {r} : run'[s] = run[s]
      BY <1>0, <2>1 DEF RunTypeOK, RunState
    <3>2. resident[r] = {}
      BY <1>8 DEF CheckIdentity, Resident
    <3> QED BY <1>2, <2>1, <3>1, <3>2
  <2> QED BY <1>4, <1>8, <2>1 DEF CheckIdentity
<1>9. CASE Load(r)
  <2>1. CASE /\ run' = [run EXCEPT ![r].pc = "generate",
                           ![r].bytes = [f \in AllFiles |->
                               IF f \in FilesOf[Tier(r)] THEN weight[f] ELSE "missing"]]
             /\ resident' = [resident EXCEPT ![r] = @ \cup {Tier(r)}]
    <3>1. resident[r] = {} /\ run[r].backend = "llama"
      BY <1>9 DEF Load, Resident, Stage, StageInv
    <3>2. /\ run'[r].pc = "generate" /\ run'[r].backend = "llama" /\ run'[r].plan = run[r].plan
          /\ \A s \in Runs \ {r} : run'[s] = run[s]
      BY <1>0, <2>1, <3>1 DEF RunTypeOK, RunState
    <3>3. resident'[r] = {Tier(r)} /\ \A s \in Runs \ {r} : resident'[s] = resident[s]
      BY <2>1, <3>1 DEF TypeOK
    <3> QED BY <1>2, <3>2, <3>3
  <2> QED BY <1>4, <1>9, <2>1 DEF Load
<1>10. CASE Generate(r)
  <2>1. /\ run'[r].pc = "release" /\ run'[r].backend = run[r].backend /\ run'[r].plan = run[r].plan
        /\ \A s \in Runs \ {r} : run'[s] = run[s]
    BY <1>0, <1>10 DEF Generate, RunTypeOK, RunState
  <2>2. run[r].pc = "generate" /\ resident' = resident
    BY <1>10 DEF Generate
  <2> QED BY <1>2, <2>1, <2>2 DEF Resident
<1>11. CASE Release(r)
  <2>1. resident[r] \subseteq {Tier(r)}
    BY DEF Resident
  <2>2. resident' = [resident EXCEPT ![r] = resident[r] \ {Tier(r)}]
    BY <1>11 DEF Release, Released
  <2>3. resident'[r] = {} /\ \A s \in Runs \ {r} : resident'[s] = resident[s]
    BY <2>1, <2>2 DEF TypeOK
  <2> QED BY <1>3, <1>11, <2>3 DEF Release, InTier
<1>12. CASE Seal(r) \/ Crash(r)
  <2>1. run'[r].pc = "done" /\ \A s \in Runs \ {r} : run'[s] = run[s]
    BY <1>0, <1>12 DEF Seal, Crash, RunTypeOK, RunState, IdleRun
  <2>2. CASE Seal(r)
    BY <1>2, <2>1, <2>2 DEF Seal, Resident
  <2>3. CASE Crash(r)
    BY <1>2, <2>1, <2>3 DEF Crash, TypeOK
  <2> QED BY <1>12, <2>2, <2>3
<1> QED BY <1>5, <1>6, <1>7, <1>8, <1>9, <1>10, <1>11, <1>12 DEF RunStep

\* A process holds at most one model, only while it generates with it and for
\* a prompt it accepted: each path out of run_tier's try gives the model back
\* before the record is published.
THEOREM OneTierHeld == Spec => []OneTierAtATime
<1>1. Init => Resident
  BY DEF Init, Resident, ResidentInv, IdleRun
<1>2. TypeOK /\ Stage /\ Resident /\ [Next]_vars => Resident'
  <2> SUFFICES ASSUME TypeOK, Stage, Resident, [Next]_vars PROVE Resident'
    OBVIOUS
  <2>1. CASE \E r \in Runs : RunStep(r)
    BY <2>1, ResidentStep
  <2>2. CASE StoreStep \/ HeadMoves \/ UNCHANGED vars
    BY <2>2 DEF StoreStep, HeadMoves, vars, Resident, ResidentInv, Tier
  <2> QED BY <2>1, <2>2 DEF Next
<1>3. TypeOK /\ Stage /\ Resident => OneTierAtATime
  <2> SUFFICES ASSUME Stage, Resident, NEW r \in Runs
               PROVE  /\ Cardinality(resident[r]) <= 1
                      /\ resident[r] # {} => /\ run[r].pc \in {"generate", "release"}
                                             /\ ShouldExecute(run[r].prompt)
                                             /\ resident[r] = {Tier(r)}
    BY DEF OneTierAtATime
  <2>1. Cardinality(resident[r]) <= 1
    <3>1. Cardinality({}) = 0 /\ Cardinality({Tier(r)}) = 1
      BY FS_EmptySet, FS_Singleton
    <3>2. resident[r] = {} \/ resident[r] = {Tier(r)}
      BY DEF Resident, ResidentInv
    <3> QED BY <3>1, <3>2
  <2> QED BY <2>1 DEF Resident, ResidentInv, Stage, StageInv, PastPreflight
<1> QED BY <1>1, <1>2, <1>3, Typing, PTL DEF Spec

-----------------------------------------------------------------------------
(***************************************************************************)
(* What a run knows of the bytes: a file it hashed still holds what it saw, *)
(* unless it was rewritten since; and what it loaded is what it saw, with   *)
(* the same exception.                                                      *)
(***************************************************************************)
HashInv(r) ==
    /\ run[r].pc \in {"hash", "load"} =>
          \A f \in FilesOf[Tier(r)] \ run[r].todo : run[r].seen[f] = weight[f] \/ f \in moved[r]
    /\ run[r].pc \in {"generate", "release"} /\ run[r].backend = "llama" =>
          \A f \in FilesOf[Tier(r)] : run[r].bytes[f] = run[r].seen[f] \/ f \in moved[r]

\* What _verify_tier asks of a record that claims weight execution, and what
\* the run knew of the bytes it executed.
GoodRecord(rec) ==
    rec.weights => /\ rec.real
                   /\ rec.lockMatches
                   /\ HashVerified(rec.tier, rec.seen)
                   /\ \A f \in FilesOf[rec.tier] : rec.bytes[f] = "pinned" \/ f \in rec.moved

GoodRecords(r) == \A i \in DOMAIN records[r] : GoodRecord(records[r][i])

Evidence == \A r \in Runs : HashInv(r) /\ GoodRecords(r)

LEMMA AppendGood ==
    ASSUME NEW recs \in Seq(TierRecord), \A i \in DOMAIN recs : GoodRecord(recs[i]),
           NEW rec \in TierRecord, GoodRecord(rec)
    PROVE  \A i \in DOMAIN Append(recs, rec) : GoodRecord(Append(recs, rec)[i])
<1>1. ASSUME NEW i \in DOMAIN Append(recs, rec) PROVE GoodRecord(Append(recs, rec)[i])
  <2>1. (i \in DOMAIN recs /\ Append(recs, rec)[i] = recs[i]) \/ Append(recs, rec)[i] = rec
    OBVIOUS
  <2> QED BY <2>1
<1> QED BY <1>1

\* The four records run_tier writes.
LEMMA RecordsGood ==
    ASSUME TypeOK, Stage, Evidence, NEW r \in Runs, run[r].plan # <<>>
    PROVE  /\ \A c \in Commits \cup {NoCommit} : GoodRecord(RefusedRecord(r, c))
           /\ GoodRecord(UnavailableRecord(r))
           /\ GoodRecord(FailedRecord(r))
           /\ run[r].pc = "release" => GoodRecord(ExecutedRecord(r))
<1>1. \A c \in Commits \cup {NoCommit} : GoodRecord(RefusedRecord(r, c))
  BY DEF GoodRecord, RefusedRecord
<1>2. GoodRecord(UnavailableRecord(r))
  BY DEF GoodRecord, UnavailableRecord
<1>3. GoodRecord(FailedRecord(r))
  BY DEF GoodRecord, FailedRecord, UnavailableRecord
<1>4. ASSUME run[r].pc = "release", run[r].backend = "llama" PROVE GoodRecord(ExecutedRecord(r))
  <2>1. HashVerified(Tier(r), run[r].seen) /\ run[r].lockSeen = "match"
    BY <1>4 DEF Stage, StageInv, PastChecks, Verified
  <2>2. \A f \in FilesOf[Tier(r)] : run[r].bytes[f] = "pinned" \/ f \in moved[r]
    BY <1>4, <2>1 DEF Evidence, HashInv, HashVerified, DigestMatches
  <2> QED BY <1>4, <2>1, <2>2 DEF GoodRecord, ExecutedRecord
<1>5. run[r].backend # "llama" => GoodRecord(ExecutedRecord(r))
  BY DEF GoodRecord, ExecutedRecord
<1> QED BY <1>1, <1>2, <1>3, <1>4, <1>5

LEMMA EvidenceRun ==
    ASSUME TypeOK, Stage, Evidence, NEW r \in Runs, RunStep(r), UNCHANGED weight
    PROVE  Evidence'
<1>0. RunTypeOK /\ run[r] \in RunState /\ records[r] \in Seq(TierRecord)
  BY DEF TypeOK, RunTypeOK
<1>1. InTier(r) => run[r].plan # <<>>
  BY DEF Stage, StageInv
<1>2. ASSUME \A s \in Runs \ {r} : /\ run'[s] = run[s] /\ moved'[s] = moved[s]
                                   /\ records'[s] = records[s],
             HashInv(r)', GoodRecords(r)'
      PROVE  Evidence'
  BY <1>2 DEF Evidence, HashInv, GoodRecords, Tier
<1>3. ASSUME NEW rec \in TierRecord, GoodRecord(rec), InTier(r), Publish(r, rec) PROVE Evidence'
  <2>1. \A s \in Runs \ {r} : run'[s] = run[s] /\ moved'[s] = moved[s] /\ records'[s] = records[s]
    BY <1>0, <1>1, <1>3, PublishStage DEF Publish, RunTypeOK
  <2>2. HashInv(r)'
    BY <1>0, <1>1, <1>3, PublishStage DEF HashInv
  <2>3. records'[r] = Append(records[r], rec)
    BY <1>0, <1>1, <1>3, PublishStage
  <2>4. GoodRecords(r)'
    BY <1>0, <1>3, <2>3, AppendGood DEF Evidence, GoodRecords
  <2> QED BY <1>2, <2>1, <2>2, <2>4
<1>4. ASSUME UNCHANGED records, \A s \in Runs \ {r} : run'[s] = run[s] /\ moved'[s] = moved[s],
             HashInv(r)'
      PROVE  Evidence'
  BY <1>2, <1>4 DEF Evidence, GoodRecords
<1>5. ASSUME Unavailable(r), InTier(r) PROVE Evidence'
  BY <1>0, <1>1, <1>3, <1>5, RecordTypes, RecordsGood DEF Unavailable
<1>6. CASE Start(r)
  <2>1. run'[r].pc = "tier" /\ \A s \in Runs \ {r} : run'[s] = run[s]
    BY <1>0, <1>6 DEF Start, RunTypeOK, RunState
  <2> QED BY <1>4, <1>6, <2>1 DEF Start, HashInv
<1>7. CASE BeginTier(r)
  <2>1. ASSUME NEW c \in GitCommit, Publish(r, RefusedRecord(r, c)) PROVE Evidence'
    <3>1. InTier(r) /\ c \in Commits \cup {NoCommit}
      BY <1>7, <2>1 DEF BeginTier, InTier, GitCommit, TypeOK
    <3> QED BY <1>0, <1>1, <1>3, <2>1, <3>1, RecordTypes, RecordsGood
  <2>2. CASE \E c \in GitCommit :
                /\ run' = [run EXCEPT ![r].commit = c,
                              ![r].pc = IF run[r].backend = "llama" THEN "inspect" ELSE "generate"]
                /\ UNCHANGED <<moved, records>>
    <3>1. /\ run'[r].backend = run[r].backend
          /\ run'[r].pc = IF run[r].backend = "llama" THEN "inspect" ELSE "generate"
          /\ \A s \in Runs \ {r} : run'[s] = run[s]
      BY <1>0, <2>2 DEF RunTypeOK, RunState
    <3> QED BY <1>4, <2>2, <3>1 DEF HashInv
  <2> QED BY <1>7, <2>1, <2>2 DEF BeginTier
<1>8. CASE InspectLock(r)
  <2>1. /\ run'[r].pc = "hash" /\ run'[r].plan = run[r].plan /\ run'[r].todo = FilesOf[Tier(r)]
        /\ \A s \in Runs \ {r} : run'[s] = run[s]
    BY <1>0, <1>8 DEF InspectLock, RunTypeOK, RunState
  <2>2. HashInv(r)'
    BY <2>1 DEF HashInv, Tier
  <2> QED BY <1>4, <1>8, <2>1, <2>2 DEF InspectLock
<1>9. ASSUME NEW g \in AllFiles, InspectFile(r, g) PROVE Evidence'
  <2>1. /\ run'[r].pc = "hash" /\ run'[r].plan = run[r].plan /\ run'[r].todo = run[r].todo \ {g}
        /\ run'[r].seen = [run[r].seen EXCEPT ![g] = weight[g]]
        /\ \A s \in Runs \ {r} : run'[s] = run[s]
    BY <1>0, <1>9 DEF InspectFile, RunTypeOK, RunState
  <2>2. moved' = moved /\ records' = records /\ run[r].pc = "hash"
    BY <1>9 DEF InspectFile
  <2>3. run[r].seen \in [AllFiles -> Content]
    BY <1>0 DEF RunState
  <2>4. \A f \in FilesOf[Tier(r)] \ run[r].todo : run[r].seen[f] = weight[f] \/ f \in moved[r]
    BY <2>2 DEF Evidence, HashInv
  <2>5. Tier(r) \in Tiers /\ Tier(r)' = Tier(r)
    BY <1>0, <1>1, <2>1, <2>2 DEF InTier, Tier, RunState
  <2>6. \A f \in FilesOf[Tier(r)] \ run'[r].todo : run'[r].seen[f] = weight[f] \/ f \in moved[r]
    BY <2>1, <2>3, <2>4, <2>5, Files
  <2>7. HashInv(r)'
    BY <2>1, <2>2, <2>5, <2>6 DEF HashInv
  <2> QED BY <1>4, <2>1, <2>2, <2>7
<1>10. CASE CheckIdentity(r)
  <2>1. CASE run' = [run EXCEPT ![r].pc = "load"] /\ UNCHANGED <<moved, records>>
    <3>1. /\ run'[r] = [run[r] EXCEPT !.pc = "load"]
          /\ \A s \in Runs \ {r} : run'[s] = run[s]
      BY <1>0, <2>1 DEF RunTypeOK
    <3>2. HashInv(r)'
      BY <1>0, <1>10, <2>1, <3>1 DEF CheckIdentity, Evidence, HashInv, Tier, RunState
    <3> QED BY <1>4, <2>1, <3>1, <3>2
  <2> QED BY <1>5, <1>10, <2>1 DEF CheckIdentity, InTier
<1>11. CASE Load(r)
  <2> DEFINE read == [f \in AllFiles |-> IF f \in FilesOf[Tier(r)] THEN weight[f] ELSE "missing"]
  <2>1. CASE run' = [run EXCEPT ![r].pc = "generate", ![r].bytes = read]
             /\ UNCHANGED <<moved, records>>
    <3>1. \A f \in FilesOf[Tier(r)] : read[f] = weight[f]
      BY <1>0, <1>1, <1>11, Files DEF Load, InTier, Tier, RunState
    <3>2. \A f \in FilesOf[Tier(r)] : run[r].seen[f] = weight[f] \/ f \in moved[r]
      BY <1>11 DEF Load, Evidence, HashInv, Stage, StageInv
    <3> HIDE DEF read
    <3>3. /\ run'[r].pc = "generate" /\ run'[r].plan = run[r].plan
          /\ run'[r].bytes = read /\ run'[r].seen = run[r].seen
          /\ \A s \in Runs \ {r} : run'[s] = run[s]
      BY <1>0, <2>1 DEF RunTypeOK, RunState
    <3>4. HashInv(r)'
      BY <2>1, <3>1, <3>2, <3>3 DEF HashInv, Tier
    <3> QED BY <1>4, <2>1, <3>3, <3>4
  <2> QED BY <1>5, <1>11, <2>1 DEF Load, InTier
<1>12. CASE Generate(r)
  <2>1. /\ run'[r].pc = "release" /\ run'[r].backend = run[r].backend /\ run'[r].plan = run[r].plan
        /\ run'[r].bytes = run[r].bytes /\ run'[r].seen = run[r].seen
        /\ \A s \in Runs \ {r} : run'[s] = run[s]
    BY <1>0, <1>12 DEF Generate, RunTypeOK, RunState
  <2>2. HashInv(r)'
    BY <1>12, <2>1 DEF Generate, Evidence, HashInv, Tier
  <2> QED BY <1>4, <1>12, <2>1, <2>2 DEF Generate
<1>13. CASE Release(r)
  <2> DEFINE rec == IF run[r].answer = "error" THEN FailedRecord(r) ELSE ExecutedRecord(r)
  <2>1. InTier(r) /\ run[r].pc = "release" /\ Publish(r, rec)
    BY <1>13 DEF Release, InTier
  <2>2. rec \in TierRecord
    BY <1>0, <1>1, <2>1, RecordTypes
  <2>3. GoodRecord(rec)
    BY <1>1, <2>1, RecordsGood
  <2> HIDE DEF rec
  <2> QED BY <1>3, <2>1, <2>2, <2>3
<1>14. CASE Seal(r) \/ Crash(r)
  <2>1. CASE Seal(r)
    <3>1. run'[r].pc = "done" /\ \A s \in Runs \ {r} : run'[s] = run[s]
      BY <1>0, <2>1 DEF Seal, RunTypeOK, RunState
    <3> QED BY <1>4, <2>1, <3>1 DEF Seal, HashInv
  <2>2. CASE Crash(r)
    <3>1. /\ run'[r].pc = "done"
          /\ \A s \in Runs \ {r} : run'[s] = run[s] /\ moved'[s] = moved[s]
      BY <1>0, <2>2 DEF Crash, RunTypeOK, IdleRun
    <3> QED BY <1>4, <2>2, <3>1 DEF Crash, HashInv
  <2> QED BY <1>14, <2>1, <2>2
<1> QED BY <1>6, <1>7, <1>8, <1>9, <1>10, <1>11, <1>12, <1>13, <1>14 DEF RunStep

\* Another process writes: what it rewrites under a run's hashes is noted.
LEMMA EvidenceStore ==
    ASSUME TypeOK, Evidence, StoreStep
    PROVE  Evidence'
<1> SUFFICES ASSUME NEW r \in Runs PROVE HashInv(r)' /\ GoodRecords(r)'
  BY DEF Evidence
<1>1. moved'[r] = moved[r] \cup {f \in Hashed(r) : weight'[f] # weight[f]}
  BY DEF StoreStep
<1>2. run' = run /\ records' = records
  BY DEF StoreStep
<1>3. HashInv(r)'
  BY <1>1, <1>2 DEF Evidence, HashInv, Hashed, Tier
<1> QED BY <1>2, <1>3 DEF Evidence, GoodRecords

LEMMA EvidenceHolds == Spec => []Evidence
<1>1. Init => Evidence
  BY DEF Init, Evidence, HashInv, GoodRecords, IdleRun
<1>2. TypeOK /\ Stage /\ Evidence /\ [Next]_vars => Evidence'
  <2> SUFFICES ASSUME TypeOK, Stage, Evidence, [Next]_vars PROVE Evidence'
    OBVIOUS
  <2>1. CASE \E r \in Runs : RunStep(r) /\ UNCHANGED <<storeVars, head, headMoves>>
    BY <2>1, EvidenceRun DEF storeVars
  <2>2. CASE StoreStep
    BY <2>2, EvidenceStore
  <2>3. CASE HeadMoves \/ UNCHANGED vars
    BY <2>3 DEF HeadMoves, vars, Evidence, HashInv, GoodRecords, Tier
  <2> QED BY <2>1, <2>2, <2>3 DEF Next
<1> QED BY <1>1, <1>2, Typing, PTL DEF Spec

\* A record that claims weight execution was made of pinned bytes, unless
\* another process rewrote a file between the hash of LlamaCppBackend.__init__
\* and the load: the only gap there is.
THEOREM WeightsWereChecked == Spec => []WeightEvidence
<1>1. Evidence => WeightEvidence
  BY DEF Evidence, GoodRecords, GoodRecord, WeightEvidence
<1> QED BY <1>1, EvidenceHolds, PTL

-----------------------------------------------------------------------------
(***************************************************************************)
(* A family run visits its tiers in order, and the report it seals says of  *)
(* its records what the verifier recomputes from them.                      *)
(***************************************************************************)
Covers(recs, plan) ==
    /\ Len(recs) + Len(plan) = Len(TierOrder)
    /\ \A i \in 1 .. Len(recs) : recs[i].tier = TierOrder[i]
    /\ \A i \in 1 .. Len(plan) : plan[i] = TierOrder[Len(recs) + i]

Sealed(rep, recs) ==
    /\ [i \in DOMAIN recs |-> recs[i].tier] = TierOrder
    /\ rep.conformant = AllLawful(recs)
    /\ rep.weights = WeightBacked(recs)

PlanInv(r) ==
    /\ run[r].pc = "idle" => records[r] = <<>>
    /\ run[r].pc \notin {"idle", "done"} /\ run[r].kind = "family" => Covers(records[r], run[r].plan)
    /\ outcome[r].kind = "family" => run[r].pc = "done" /\ Sealed(outcome[r], records[r])

Progress == \A r \in Runs : PlanInv(r)

LEMMA CoversStep ==
    ASSUME NEW recs \in Seq(TierRecord), NEW plan \in Seq(Tiers), plan # <<>>,
           Covers(recs, plan), NEW rec \in TierRecord, rec.tier = Head(plan)
    PROVE  Covers(Append(recs, rec), Tail(plan))
<1>1. /\ Len(Append(recs, rec)) = Len(recs) + 1
      /\ Len(Tail(plan)) = Len(plan) - 1
      /\ Len(recs) \in Nat /\ Len(plan) \in Nat /\ Len(plan) > 0
  OBVIOUS
<1>2. Len(Append(recs, rec)) + Len(Tail(plan)) = Len(TierOrder)
  BY <1>1, Order DEF Covers
<1>3. ASSUME NEW i \in 1 .. Len(Append(recs, rec))
      PROVE  Append(recs, rec)[i].tier = TierOrder[i]
  <2>1. CASE i = Len(recs) + 1
    <3>1. Append(recs, rec)[i] = rec /\ plan[1] = TierOrder[Len(recs) + 1]
      BY <1>1, <2>1 DEF Covers
    <3> QED BY <2>1, <3>1
  <2>2. CASE i \in 1 .. Len(recs)
    BY <2>2 DEF Covers
  <2> QED BY <1>1, <2>1, <2>2
<1>4. ASSUME NEW i \in 1 .. Len(Tail(plan))
      PROVE  Tail(plan)[i] = TierOrder[Len(Append(recs, rec)) + i]
  <2>1. i + 1 \in 1 .. Len(plan) /\ Tail(plan)[i] = plan[i + 1]
    BY <1>1
  <2>2. Len(recs) + (i + 1) = Len(Append(recs, rec)) + i
    BY <1>1
  <2> QED BY <2>1, <2>2 DEF Covers
<1> QED BY <1>2, <1>3, <1>4 DEF Covers

LEMMA WholeFamily ==
    ASSUME NEW recs \in Seq(TierRecord), Covers(recs, <<>>)
    PROVE  [i \in DOMAIN recs |-> recs[i].tier] = TierOrder
<1>1. DOMAIN recs = 1 .. Len(TierOrder) /\ DOMAIN TierOrder = 1 .. Len(TierOrder)
  BY Order DEF Covers
<1>2. \A i \in 1 .. Len(TierOrder) : recs[i].tier = TierOrder[i]
  BY <1>1, Order DEF Covers
<1>3. TierOrder = [i \in 1 .. Len(TierOrder) |-> TierOrder[i]]
  BY <1>1, Order
<1> QED BY <1>1, <1>2, <1>3

LEMMA ProgressStep ==
    ASSUME TypeOK, Stage, Progress, NEW r \in Runs, RunStep(r)
    PROVE  Progress'
<1>0. RunTypeOK /\ run[r] \in RunState /\ records[r] \in Seq(TierRecord)
  BY DEF TypeOK, RunTypeOK
<1>1. InTier(r) => run[r].plan # <<>>
  BY DEF Stage, StageInv
<1>2. ASSUME \A s \in Runs \ {r} : /\ run'[s] = run[s] /\ records'[s] = records[s]
                                   /\ outcome'[s] = outcome[s],
             PlanInv(r)'
      PROVE  Progress'
  BY <1>2 DEF Progress, PlanInv
<1>3. run[r].pc # "done" => outcome[r].kind # "family"
  BY DEF Progress, PlanInv
<1>4. ASSUME NEW rec \in TierRecord, rec.tier = Tier(r), InTier(r), Publish(r, rec), outcome' = outcome
      PROVE  Progress'
  <2>1. /\ run'[r].pc \in {"tier", "seal"} /\ run'[r].kind = run[r].kind
        /\ run'[r].plan = Tail(run[r].plan)
        /\ records'[r] = Append(records[r], rec)
        /\ \A s \in Runs \ {r} : run'[s] = run[s] /\ records'[s] = records[s]
    BY <1>0, <1>1, <1>4, PublishStage
  <2>2. run[r].kind = "family" => Covers(Append(records[r], rec), Tail(run[r].plan))
    <3>1. run[r].kind = "family" => Covers(records[r], run[r].plan)
      BY <1>4 DEF InTier, Progress, PlanInv
    <3>2. run[r].plan \in Seq(Tiers)
      BY <1>0 DEF RunState
    <3> QED BY <1>0, <1>1, <1>4, <3>1, <3>2, CoversStep DEF Tier
  <2> QED BY <1>2, <1>3, <1>4, <2>1, <2>2 DEF PlanInv, InTier
<1>5. ASSUME InTier(r), run'[r].pc \notin {"idle", "done"}, run'[r].kind = run[r].kind,
             run'[r].plan = run[r].plan, \A s \in Runs \ {r} : run'[s] = run[s],
             UNCHANGED <<records, outcome>>
      PROVE  Progress'
  BY <1>2, <1>3, <1>5 DEF PlanInv, Progress, InTier
<1>6. ASSUME Unavailable(r), InTier(r) PROVE Progress'
  <2>1. UnavailableRecord(r) \in TierRecord /\ UnavailableRecord(r).tier = Tier(r)
    BY <1>0, <1>1, <1>6, RecordTypes DEF UnavailableRecord
  <2> QED BY <1>4, <1>6, <2>1 DEF Unavailable
<1>7. CASE Start(r)
  <2>1. PICK v \in Verdicts, b \in BackendKinds, k \in {"family", "collective"} :
             \E plan \in IF k = "family" THEN {TierOrder} ELSE {<<t>> : t \in Tiers} :
                run' = [run EXCEPT ![r].pc = "tier", ![r].kind = k, ![r].plan = plan,
                                   ![r].prompt = v, ![r].backend = b]
    BY <1>7 DEF Start
  <2>2. /\ run'[r].pc = "tier" /\ run'[r].kind = "family" => run'[r].plan = TierOrder
        /\ \A s \in Runs \ {r} : run'[s] = run[s]
    BY <1>0, <2>1 DEF RunTypeOK, RunState
  <2>3. records[r] = <<>> /\ run[r].pc = "idle"
    BY <1>7 DEF Start, Progress, PlanInv
  <2>4. Covers(<<>>, TierOrder)
    BY Order DEF Covers
  <2>5. run'[r].pc = "tier"
    BY <1>0, <2>1 DEF RunTypeOK, RunState
  <2> QED BY <1>2, <1>3, <1>7, <2>2, <2>3, <2>4, <2>5 DEF Start, PlanInv
<1>8. CASE BeginTier(r)
  <2>0. InTier(r) /\ outcome' = outcome
    BY <1>8 DEF BeginTier, InTier
  <2>1. ASSUME NEW c \in GitCommit, Publish(r, RefusedRecord(r, c)) PROVE Progress'
    <3>1. c \in Commits \cup {NoCommit}
      BY <2>1 DEF GitCommit, TypeOK
    <3>2. RefusedRecord(r, c) \in TierRecord /\ RefusedRecord(r, c).tier = Tier(r)
      BY <1>0, <1>1, <2>0, <3>1, RecordTypes DEF RefusedRecord
    <3> QED BY <1>4, <2>0, <2>1, <3>2
  <2>2. CASE \E c \in GitCommit :
                /\ run' = [run EXCEPT ![r].commit = c,
                              ![r].pc = IF run[r].backend = "llama" THEN "inspect" ELSE "generate"]
                /\ UNCHANGED <<moved, records>>
    BY <1>0, <1>5, <2>0, <2>2 DEF RunTypeOK, RunState
  <2> QED BY <1>8, <2>1, <2>2 DEF BeginTier
<1>9. CASE InspectLock(r)
  BY <1>0, <1>5, <1>9 DEF InspectLock, InTier, RunTypeOK, RunState
<1>10. ASSUME NEW f \in AllFiles, InspectFile(r, f) PROVE Progress'
  BY <1>0, <1>5, <1>10 DEF InspectFile, InTier, RunTypeOK, RunState
<1>11. CASE CheckIdentity(r)
  <2>1. InTier(r)
    BY <1>11 DEF CheckIdentity, InTier
  <2>2. CASE run' = [run EXCEPT ![r].pc = "load"] /\ UNCHANGED <<records, outcome>>
    BY <1>0, <1>5, <2>1, <2>2 DEF RunTypeOK, RunState
  <2> QED BY <1>6, <1>11, <2>1, <2>2 DEF CheckIdentity
<1>12. CASE Load(r)
  <2>1. InTier(r)
    BY <1>12 DEF Load, InTier
  <2>2. CASE ~Unavailable(r)
    <3>1. /\ run'[r].pc = "generate" /\ run'[r].kind = run[r].kind /\ run'[r].plan = run[r].plan
          /\ \A s \in Runs \ {r} : run'[s] = run[s]
      BY <1>0, <1>12, <2>2 DEF Load, RunTypeOK, RunState
    <3> QED BY <1>5, <1>12, <2>1, <2>2, <3>1 DEF Load
  <2> QED BY <1>6, <2>1, <2>2
<1>13. CASE Generate(r)
  BY <1>0, <1>5, <1>13 DEF Generate, InTier, RunTypeOK, RunState
<1>14. CASE Release(r)
  <2> DEFINE rec == IF run[r].answer = "error" THEN FailedRecord(r) ELSE ExecutedRecord(r)
  <2>1. InTier(r) /\ Publish(r, rec) /\ outcome' = outcome
    BY <1>14 DEF Release, InTier
  <2>2. rec \in TierRecord
    BY <1>0, <1>1, <2>1, RecordTypes
  <2>3. rec.tier = Tier(r)
    BY DEF FailedRecord, UnavailableRecord, ExecutedRecord
  <2> HIDE DEF rec
  <2> QED BY <1>4, <2>1, <2>2, <2>3
<1>15. CASE Seal(r)
  <2>1. PICK c \in GitCommit :
          outcome' = [outcome EXCEPT ![r] = IF run[r].kind = "family"
                                            THEN BuildReport(records[r], c)
                                            ELSE [kind |-> "collective"]]
    BY <1>15 DEF Seal
  <2>2. /\ run'[r].pc = "done" /\ records' = records
        /\ \A s \in Runs \ {r} : run'[s] = run[s] /\ outcome'[s] = outcome[s]
    BY <1>0, <1>15, <2>1 DEF Seal, RunTypeOK, RunState
  <2>3. CASE run[r].kind = "family"
    <3>1. run[r].plan = <<>> /\ Covers(records[r], run[r].plan)
      BY <1>15, <2>3 DEF Seal, Stage, StageInv, Progress, PlanInv
    <3>2. outcome'[r] = BuildReport(records[r], c)
      BY <1>0, <2>1, <2>3 DEF RunTypeOK
    <3>3. Sealed(outcome'[r], records[r])
      BY <1>0, <3>1, <3>2, WholeFamily DEF Sealed, BuildReport
    <3> QED BY <1>2, <2>2, <3>3 DEF PlanInv
  <2>4. CASE run[r].kind # "family"
    <3>1. outcome'[r].kind # "family"
      BY <1>0, <2>1, <2>4 DEF RunTypeOK
    <3> QED BY <1>2, <2>2, <3>1 DEF PlanInv
  <2> QED BY <2>3, <2>4
<1>16. CASE Crash(r)
  <2>1. run'[r].pc = "done" /\ \A s \in Runs \ {r} : run'[s] = run[s]
    BY <1>0, <1>16 DEF Crash, RunTypeOK, IdleRun
  <2> QED BY <1>2, <1>3, <1>16, <2>1 DEF Crash, PlanInv
<1> QED BY <1>7, <1>8, <1>9, <1>10, <1>11, <1>12, <1>13, <1>14, <1>15, <1>16 DEF RunStep

LEMMA ProgressHolds == Spec => []Progress
<1>1. Init => Progress
  BY DEF Init, Progress, PlanInv, IdleRun, NoOutcome
<1>2. TypeOK /\ Stage /\ Progress /\ [Next]_vars => Progress'
  <2> SUFFICES ASSUME TypeOK, Stage, Progress, [Next]_vars PROVE Progress'
    OBVIOUS
  <2>1. CASE \E r \in Runs : RunStep(r)
    BY <2>1, ProgressStep
  <2>2. CASE StoreStep \/ HeadMoves \/ UNCHANGED vars
    BY <2>2 DEF StoreStep, HeadMoves, vars, Progress, PlanInv
  <2> QED BY <2>1, <2>2 DEF Next
<1> QED BY <1>1, <1>2, Typing, PTL DEF Spec

\* A sealed family report is refused by verify_artifact for one reason only:
\* the commits of its records and its own do not agree, or git gave none.  The
\* order of the tiers, the evidence of each record, conformance and the weight
\* claim are decided by run_family as the verifier decides them.
THEOREM OnlyCommitsRefuse == Spec => []RejectedOnlyForCommits
<1>1. Evidence /\ Progress => RejectedOnlyForCommits
  <2> SUFFICES ASSUME Evidence, Progress, NEW r \in Runs, outcome[r].kind = "family"
               PROVE  FamilyVerifies(outcome[r], records[r]) <=> CommitsAgree(outcome[r], records[r])
    BY DEF RejectedOnlyForCommits
  <2>1. Sealed(outcome[r], records[r]) /\ GoodRecords(r)
    BY DEF Progress, PlanInv, Evidence
  <2>2. CommitsAgree(outcome[r], records[r]) =>
          \A i \in DOMAIN records[r] : TierVerifies(records[r][i])
    BY <2>1 DEF CommitsAgree, GoodRecords, GoodRecord, TierVerifies
  <2> QED BY <2>1, <2>2 DEF Sealed, FamilyVerifies
<1> QED BY <1>1, EvidenceHolds, ProgressHolds, PTL

-----------------------------------------------------------------------------
(***************************************************************************)
(* pull_tier: every file its second loop has passed was found pinned.       *)
(***************************************************************************)
PullInv ==
    \A p \in Pullers : pull[p].pc = "hash" =>
        \A f \in FilesOf[pull[p].tier] \ pull[p].todo : pull[p].seen[f] = "pinned"

LEMMA PullStepInv ==
    ASSUME StoreTypeOK, PullInv, StoreNext
    PROVE  PullInv'
<1>0. pull \in [Pullers -> PullState]
  BY DEF StoreTypeOK
<1>1. ASSUME NEW p \in Pullers, \A q \in Pullers \ {p} : pull'[q] = pull[q],
             pull'[p].pc = "hash" =>
                \A f \in FilesOf[pull'[p].tier] \ pull'[p].todo : pull'[p].seen[f] = "pinned"
      PROVE  PullInv'
  BY <1>1 DEF PullInv
<1>2. ASSUME NEW p \in Pullers, PullAborts(p) PROVE PullInv'
  <2>1. pull'[p].pc = "idle" /\ \A q \in Pullers \ {p} : pull'[q] = pull[q]
    BY <1>0, <1>2 DEF PullAborts, Idle
  <2> QED BY <1>1, <2>1
<1>3. ASSUME NEW p \in Pullers, NEW t \in Tiers, PullStart(p, t) PROVE PullInv'
  <2>1. pull'[p].pc = "download" /\ \A q \in Pullers \ {p} : pull'[q] = pull[q]
    BY <1>0, <1>3 DEF PullStart
  <2> QED BY <1>1, <2>1
<1>4. ASSUME NEW p \in Pullers, NEW f \in AllFiles, Download(p, f) PROVE PullInv'
  <2> DEFINE rest == pull[p].todo \ {f}
  <2>1. /\ pull'[p] = [pull[p] EXCEPT !.todo = IF rest = {} THEN FilesOf[pull[p].tier] ELSE rest,
                                      !.pc = IF rest = {} THEN "hash" ELSE "download"]
        /\ \A q \in Pullers \ {p} : pull'[q] = pull[q]
    BY <1>0, <1>4 DEF Download
  <2>2. pull'[p].pc = "hash" => pull'[p].todo = FilesOf[pull'[p].tier]
    BY <1>0, <2>1 DEF PullState
  <2> QED BY <1>1, <2>1, <2>2
<1>5. ASSUME NEW p \in Pullers, NEW g \in AllFiles, HashDownloaded(p, g) PROVE PullInv'
  <2>1. CASE /\ IdentityMatches(weight[g])
             /\ pull' = [pull EXCEPT ![p].todo = @ \ {g}, ![p].seen[g] = weight[g]]
    <3>1. weight[g] = "pinned"
      BY <2>1 DEF IdentityMatches, DigestMatches
    <3>2. pull[p] \in PullState
      BY <1>0
    <3>3. /\ pull'[p].tier = pull[p].tier /\ pull'[p].todo = pull[p].todo \ {g}
          /\ pull'[p].seen = [pull[p].seen EXCEPT ![g] = weight[g]]
          /\ \A q \in Pullers \ {p} : pull'[q] = pull[q]
      BY <1>0, <2>1, <3>2 DEF PullState
    <3>4. \A f \in FilesOf[pull[p].tier] \ pull[p].todo : pull[p].seen[f] = "pinned"
      BY <1>5 DEF HashDownloaded, PullInv
    <3>5. FilesOf[pull[p].tier] \subseteq AllFiles /\ pull[p].seen \in [AllFiles -> Content]
      BY <3>2, Files DEF PullState
    <3>6. \A f \in FilesOf[pull[p].tier] \ pull'[p].todo : pull'[p].seen[f] = "pinned"
      BY <3>1, <3>3, <3>4, <3>5
    <3> QED BY <1>1, <3>3, <3>6
  <2> QED BY <1>2, <1>5, <2>1 DEF HashDownloaded
<1>6. ASSUME NEW p \in Pullers, WriteLock(p) PROVE PullInv'
  <2>1. pull'[p].pc = "idle" /\ \A q \in Pullers \ {p} : pull'[q] = pull[q]
    BY <1>0, <1>6 DEF WriteLock, Idle
  <2> QED BY <1>1, <2>1
<1>7. ASSUME NEW f \in AllFiles, NEW c \in Content, DiskChanges(f, c) PROVE PullInv'
  BY <1>7 DEF DiskChanges, PullInv
<1> QED BY <1>2, <1>3, <1>4, <1>5, <1>6, <1>7 DEF StoreNext, PullStep, DownloadFails

\* The lock of a tier is rewritten by one step only, the end of a pull_tier
\* that hashed every file of the tier and found all of them pinned, and it then
\* records what the manifest says; no failed pull, and no run, touches it.
THEOREM LockMeansPinned == Spec => LockOnlyForPinnedBytes
<1>1. Init => PullInv
  BY DEF Init, StoreInit, PullInv, Idle
<1>2. TypeOK /\ PullInv /\ [Next]_vars => PullInv'
  <2>1. TypeOK /\ PullInv /\ StoreStep => PullInv'
    BY PullStepInv DEF StoreStep, TypeOK
  <2>2. PullInv /\ UNCHANGED pull => PullInv'
    BY DEF PullInv
  <2> QED BY <2>1, <2>2 DEF Next, HeadMoves, vars, storeVars
<1> DEFINE Locks ==
      \A t \in Tiers : lock'[t] # lock[t] =>
          /\ lock'[t] = "match"
          /\ \E p \in Pullers : /\ pull[p].tier = t
                                /\ pull[p].pc = "hash" /\ pull'[p].pc = "idle"
                                /\ \A f \in FilesOf[t] : pull[p].seen[f] = "pinned"
<1>3. TypeOK /\ PullInv /\ [Next]_vars => Locks
  <2> SUFFICES ASSUME TypeOK, PullInv, [Next]_vars, NEW t \in Tiers, lock'[t] # lock[t]
               PROVE  /\ lock'[t] = "match"
                      /\ \E p \in Pullers : /\ pull[p].tier = t
                                            /\ pull[p].pc = "hash" /\ pull'[p].pc = "idle"
                                            /\ \A f \in FilesOf[t] : pull[p].seen[f] = "pinned"
    OBVIOUS
  <2>1. lock # lock'
    OBVIOUS
  <2>2. PICK p \in Pullers : WriteLock(p)
    BY <2>1 DEF Next, HeadMoves, vars, storeVars, StoreStep, StoreNext, PullStep, PullStart, Download,
                HashDownloaded, PullAborts, DownloadFails, DiskChanges
  <2>3. pull \in [Pullers -> PullState] /\ lock \in [Tiers -> LockState]
    BY DEF TypeOK, StoreTypeOK
  <2>4. pull[p].tier = t /\ lock'[t] = LockRecording(t, pull[p].seen)
    BY <2>2, <2>3 DEF WriteLock, PullState
  <2>5. pull[p].pc = "hash" /\ pull'[p].pc = "idle"
    BY <2>2, <2>3 DEF WriteLock, Idle
  <2>6. \A f \in FilesOf[t] : pull[p].seen[f] = "pinned"
    BY <2>2, <2>4 DEF WriteLock, PullInv
  <2>7. lock'[t] = "match"
    BY <2>4, <2>6 DEF LockRecording, SizeMatches, DigestMatches
  <2> QED BY <2>4, <2>5, <2>6, <2>7
<1>4. TypeOK /\ Stage => TypeOK
  OBVIOUS
<1>5. Spec => [](TypeOK /\ PullInv)
  BY <1>1, <1>2, <1>4, Typing, PTL DEF Spec
<1>6. TypeOK /\ PullInv /\ [Next]_vars => [Locks]_vars
  BY <1>3
<1> QED BY <1>5, <1>6, PTL DEF Spec, LockOnlyForPinnedBytes

-----------------------------------------------------------------------------
(***************************************************************************)
(* The files that runs and probes write (AtomicFiles): for any number of    *)
(* writers and probes, and however often the operator removes the receipt.  *)
(*                                                                         *)
(* What the properties need is where a probe's file is: at the path, or     *)
(* orphaned.                                                                *)
(***************************************************************************)
Located ==
    /\ receipt # Absent => receipt.by \notin orphaned
    /\ \A p \in Probes : pc[p] \in {"write", "undo"} => p \in orphaned \/ receipt.by = p

\* A writer that writes has its temporary file.
Writing == \A w \in Writers : pc[w] = "write" => temporary[w].by = w

ProbeInv == Located /\ CreatedIsKept /\ UnfinishedOnlyIfKilled

FileInv == FileTypeOK /\ Writing /\ ProbeInv

LEMMA FileInvInit == FileInit => FileInv
BY FilesAssumption
DEF FileInit, FileInv, FileTypeOK, Writing, ProbeInv, Located, CreatedIsKept, UnfinishedOnlyIfKilled, Absent,
    TemporaryFile, RecordFile, ReceiptFile

LEMMA ReceiptIs ==
    ASSUME FileTypeOK
    PROVE  \/ receipt = Absent /\ receipt.by = NoFile /\ receipt.whole = FALSE
           \/ /\ receipt \in [by : Probes, whole : BOOLEAN]
              /\ receipt # Absent
              /\ receipt.by \in Probes
              /\ receipt = [by |-> receipt.by, whole |-> receipt.whole]
<1>1. CASE receipt = Absent
  BY <1>1 DEF Absent
<1>2. CASE receipt \in [by : Probes, whole : BOOLEAN]
  <2>1. receipt.by \in Probes /\ receipt = [by |-> receipt.by, whole |-> receipt.whole]
    BY <1>2
  <2>2. Absent.by = NoFile
    BY DEF Absent
  <2> QED BY <1>2, <2>1, <2>2, FilesAssumption
<1> QED BY <1>1, <1>2 DEF FileTypeOK, ReceiptFile

-----------------------------------------------------------------------------
\* The steps of the writers leave the receipt alone.
LEMMA WriterStep ==
    ASSUME FileInv, NEW w \in Writers, WriteStart(w) \/ Dump(w) \/ Replace(w) \/ WriteEnds(w)
    PROVE  FileInv' /\ UNCHANGED receipt
<1> USE DEF FileInv, GoTo
<1>1. UNCHANGED <<receipt, told, orphaned, killed, removals>>
  BY DEF WriteStart, Dump, Replace, WriteEnds
<1>2. temporary \in [Writers -> TemporaryFile] /\ temporary[w] \in TemporaryFile
  BY DEF FileTypeOK
<1>3. /\ temporary' \in [Writers -> TemporaryFile]
      /\ record' \in RecordFile
      /\ pc' \in [Writers \cup Probes -> {"idle", "write", "undo"}]
      /\ Writing'
  <2>1. CASE WriteStart(w)
    <3>1. [by |-> w, whole |-> FALSE] \in TemporaryFile
      BY DEF TemporaryFile
    <3> QED BY <2>1, <3>1 DEF WriteStart, FileTypeOK, Writing
  <2>2. CASE Dump(w)
    <3>1. [by |-> w, whole |-> TRUE] \in TemporaryFile
      BY DEF TemporaryFile
    <3> QED BY <2>2, <3>1 DEF Dump, FileTypeOK, Writing
  <2>3. CASE Replace(w)
    <3>1. temporary[w].whole = TRUE
      BY <2>3, <1>2 DEF Replace, Dumped, TemporaryFile, Absent
    <3>2. temporary[w] \in RecordFile
      BY <1>2, <3>1 DEF TemporaryFile, RecordFile, Absent
    <3>3. Absent \in TemporaryFile
      BY DEF TemporaryFile
    <3> QED BY <2>3, <3>2, <3>3 DEF Replace, FileTypeOK, Writing
  <2>4. CASE WriteEnds(w)
    <3>1. Absent \in TemporaryFile
      BY DEF TemporaryFile
    <3> QED BY <2>4, <3>1 DEF WriteEnds, FileTypeOK, Writing
  <2> QED BY <2>1, <2>2, <2>3, <2>4
<1>4. \A p \in Probes : pc'[p] = pc[p]
  BY FilesAssumption DEF WriteStart, Dump, Replace, WriteEnds, FileTypeOK
<1>5. FileTypeOK'
  BY <1>1, <1>3 DEF FileTypeOK
<1>6. ProbeInv'
  <2>1. receipt # Absent => receipt.by \in Probes
    BY ReceiptIs
  <2> QED BY <1>1, <1>4, <2>1 DEF ProbeInv, Located, CreatedIsKept, UnfinishedOnlyIfKilled
<1> QED BY <1>1, <1>3, <1>5, <1>6

\* A probe's steps leave the writers alone.
LEMMA WritingKept ==
    ASSUME FileInv, NEW p \in Probes, UNCHANGED temporary, \A w \in Writers : pc'[w] = pc[w]
    PROVE  Writing'
BY DEF FileInv, Writing

LEMMA OpenStep ==
    ASSUME FileInv, NEW p \in Probes, Open(p)
    PROVE  FileInv'
<1> USE DEF FileInv, Open, Tell, GoTo
<1>1. CASE UNCHANGED <<receipt, pc, orphaned, killed>>
  <2>1. FileTypeOK'     BY <1>1 DEF FileTypeOK
  <2>2. Writing'    BY <1>1 DEF Writing
  <2>3. ProbeInv'
    BY <1>1 DEF FileTypeOK, ProbeInv, Located, CreatedIsKept, UnfinishedOnlyIfKilled
  <2> QED BY <2>1, <2>2, <2>3
<1>2. CASE /\ receipt = Absent
           /\ receipt' = [by |-> p, whole |-> FALSE]
           /\ pc' = [pc EXCEPT ![p] = "write"]
           /\ told' = [told EXCEPT ![p] = "nothing"]
           /\ orphaned' = orphaned \ {p}
           /\ killed' = killed \ {p}
  <2>1. receipt' \in ReceiptFile /\ receipt'.by = p /\ receipt'.whole = FALSE
    BY <1>2 DEF ReceiptFile
  <2>2. FileTypeOK'     BY <1>2, <2>1 DEF FileTypeOK
  <2>3. Writing'
    BY <1>2, FilesAssumption DEF FileTypeOK, Writing
  <2>4. \A q \in Probes : q # p => told'[q] = told[q] /\ pc'[q] = pc[q]
    BY <1>2 DEF FileTypeOK
  <2>5. pc'[p] = "write" /\ told'[p] = "nothing"
    BY <1>2 DEF FileTypeOK
  <2>6. receipt.by = NoFile /\ \A q \in Probes : receipt # [by |-> q, whole |-> TRUE]
    BY <1>2, FilesAssumption DEF Absent
  <2>7. Located'
    BY <1>2, <2>1, <2>4, <2>6, FilesAssumption DEF ProbeInv, Located
  <2>8. CreatedIsKept'
    BY <1>2, <2>4, <2>5, <2>6 DEF ProbeInv, CreatedIsKept
  <2>9. UnfinishedOnlyIfKilled'
    BY <2>1, <2>5 DEF UnfinishedOnlyIfKilled
  <2> QED BY <2>2, <2>3, <2>7, <2>8, <2>9 DEF ProbeInv
<1> QED BY <1>1, <1>2 DEF CreateSucceeds

LEMMA FillStep ==
    ASSUME FileInv, NEW p \in Probes, Fill(p)
    PROVE  FileInv'
<1> USE DEF FileInv, Fill, Tell, GoTo
<1>1. /\ told' = [told EXCEPT ![p] = "created"]
      /\ pc' = [pc EXCEPT ![p] = "idle"]
      /\ UNCHANGED <<record, temporary, orphaned, killed, removals>>
  OBVIOUS
<1>2. \A q \in Probes : q # p => told'[q] = told[q] /\ pc'[q] = pc[q]
  BY <1>1 DEF FileTypeOK
<1>3. Writing'
  BY <1>1, FilesAssumption DEF FileTypeOK, Writing
<1>4. CASE InPlace(p)
  <2>1. receipt.by = p /\ receipt \in [by : Probes, whole : BOOLEAN]
    BY <1>4, ReceiptIs, FilesAssumption DEF InPlace
  <2>2. receipt' = [by |-> p, whole |-> TRUE]
    BY <1>4
  <2>3. receipt' \in ReceiptFile /\ receipt'.by = p /\ receipt'.whole = TRUE
    <3>1. [by |-> p, whole |-> TRUE] \in ReceiptFile
      BY DEF ReceiptFile
    <3>2. [by |-> p, whole |-> TRUE].by = p /\ [by |-> p, whole |-> TRUE].whole = TRUE
      OBVIOUS
    <3> QED BY ONLY <2>2, <3>1, <3>2
  <2>4. FileTypeOK'
    BY <1>1, <2>3 DEF FileTypeOK
  <2>5. Located'
    BY <1>1, <1>2, <1>4, <2>1, <2>3 DEF FileTypeOK, ProbeInv, Located, InPlace
  <2>6. CreatedIsKept'
    <3>1. \A q \in Probes : q # p => receipt # [by |-> q, whole |-> TRUE]
      BY <2>1
    <3>2. \A q \in Probes : q # p /\ told'[q] = "created" => q \in orphaned'
      BY <1>1, <1>2, <3>1 DEF ProbeInv, CreatedIsKept
    <3> QED BY <2>2, <3>2 DEF CreatedIsKept
  <2> QED BY <1>3, <2>3, <2>4, <2>5, <2>6 DEF ProbeInv, UnfinishedOnlyIfKilled
<1>5. CASE ~InPlace(p)
  <2>1. p \in orphaned /\ receipt' = receipt
    BY <1>5 DEF ProbeInv, Located, InPlace
  <2>2. FileTypeOK'
    BY <1>1, <2>1 DEF FileTypeOK
  <2>3. receipt # Absent => receipt.by # p /\ receipt.by \in Probes
    BY <2>1, ReceiptIs DEF ProbeInv, Located
  <2>4. Located' /\ CreatedIsKept'
    BY <1>1, <1>2, <2>1 DEF FileTypeOK, ProbeInv, Located, CreatedIsKept
  <2>5. UnfinishedOnlyIfKilled'
    BY <1>1, <1>2, <2>1, <2>3 DEF ProbeInv, UnfinishedOnlyIfKilled
  <2> QED BY <1>3, <2>2, <2>4, <2>5 DEF ProbeInv
<1> QED BY <1>4, <1>5

LEMMA FailingStep ==
    ASSUME FileInv, NEW p \in Probes, FillFails(p) \/ ProbeKilled(p)
    PROVE  FileInv'
<1> USE DEF FileInv, FillFails, ProbeKilled, Tell, GoTo
<1>1. FileTypeOK'   BY DEF FileTypeOK
<1>2. Writing'  BY FilesAssumption DEF FileTypeOK, Writing
<1>3. Located' /\ CreatedIsKept'
  BY DEF FileTypeOK, ProbeInv, Located, CreatedIsKept
<1>4. UnfinishedOnlyIfKilled'
  <2>1. receipt # Absent => receipt.by \in Probes
    BY ReceiptIs
  <2> QED BY <2>1 DEF FileTypeOK, ProbeInv, UnfinishedOnlyIfKilled
<1> QED BY <1>1, <1>2, <1>3, <1>4 DEF ProbeInv

\* Removing the receipt orphans the probe whose it was.
LEMMA UndoStep ==
    ASSUME FileInv, NEW p \in Probes, Undo(p)
    PROVE  FileInv'
<1> USE DEF FileInv, Undo, Tell, GoTo, AfterUndo
<1>1. /\ receipt' = Absent
      /\ told' = [told EXCEPT ![p] = "failed"]
      /\ pc' = [pc EXCEPT ![p] = "idle"]
      /\ orphaned \subseteq orphaned'
      /\ receipt # Absent => receipt.by = p \/ receipt.by \in orphaned'
      /\ UNCHANGED <<record, temporary, killed, removals>>
  BY DEF InPlace
<1>2. orphaned' \subseteq Probes
  BY ReceiptIs DEF FileTypeOK
<1>3. FileTypeOK'   BY <1>1, <1>2 DEF FileTypeOK, ReceiptFile
<1>4. Writing'  BY <1>1, FilesAssumption DEF FileTypeOK, Writing
<1>5. \A q \in Probes : q # p => told'[q] = told[q] /\ pc'[q] = pc[q]
  BY <1>1 DEF FileTypeOK
<1>6. pc'[p] = "idle" /\ told'[p] = "failed"
  BY <1>1 DEF FileTypeOK
<1>7. Located'
  <2>1. \A q \in Probes : q # p /\ receipt.by = q => q \in orphaned'
    BY <1>1, ReceiptIs, FilesAssumption
  <2> QED BY <1>1, <1>5, <1>6, <2>1 DEF ProbeInv, Located
<1>8. CreatedIsKept'
  <2>1. \A q \in Probes : q # p /\ receipt = [by |-> q, whole |-> TRUE] => q \in orphaned'
    BY <1>1, ReceiptIs, FilesAssumption
  <2> QED BY <1>1, <1>5, <1>6, <2>1 DEF ProbeInv, CreatedIsKept
<1>9. UnfinishedOnlyIfKilled'
  BY <1>1 DEF UnfinishedOnlyIfKilled
<1> QED BY <1>3, <1>4, <1>7, <1>8, <1>9 DEF ProbeInv

LEMMA OperatorStep ==
    ASSUME FileInv, OperatorRemoves
    PROVE  FileInv'
<1> USE DEF FileInv, OperatorRemoves
<1>1. receipt.by \in Probes
  BY ReceiptIs
<1>2. FileTypeOK'
  BY <1>1, FilesAssumption DEF FileTypeOK, ReceiptFile
<1>3. Writing'
  BY DEF Writing
<1>4. Located'
  BY DEF ProbeInv, Located
<1>5. CreatedIsKept'
  <2>1. \A q \in Probes : receipt = [by |-> q, whole |-> TRUE] => q \in orphaned'
    OBVIOUS
  <2> QED BY <2>1 DEF ProbeInv, CreatedIsKept
<1> QED BY <1>2, <1>3, <1>4, <1>5 DEF ProbeInv, UnfinishedOnlyIfKilled

LEMMA FileInvStep == FileInv /\ [FileNext]_fileVars => FileInv'
<1> SUFFICES ASSUME FileInv, [FileNext]_fileVars PROVE FileInv'
  OBVIOUS
<1>1. CASE UNCHANGED fileVars
  BY <1>1 DEF fileVars, FileInv, FileTypeOK, Writing, ProbeInv, Located, CreatedIsKept, UnfinishedOnlyIfKilled
<1>2. CASE FileNext
  BY <1>2, WriterStep, OpenStep, FillStep, FailingStep, UndoStep, OperatorStep DEF FileNext
<1> QED BY <1>1, <1>2

-----------------------------------------------------------------------------
\* Records are replaced as a whole, and a receipt that was created is kept
\* (proof.py, lines 54 to 71 and 77 to 94).
THEOREM FileSafety == FileSpec => [](FileTypeOK /\ CreatedIsKept)
<1>1. FileInv => FileTypeOK /\ CreatedIsKept
  BY DEF FileInv, ProbeInv
<1> QED BY <1>1, FileInvInit, FileInvStep, PTL DEF FileSpec

\* Only a kill leaves an unfinished receipt (proof.py, lines 89 to 94).
THEOREM UnfinishedSafety == FileSpec => []UnfinishedOnlyIfKilled
<1>1. FileInv => UnfinishedOnlyIfKilled
  BY DEF FileInv, ProbeInv
<1> QED BY <1>1, FileInvInit, FileInvStep, PTL DEF FileSpec

NeverReplacedStep ==
    (receipt # Absent /\ receipt'.by # receipt.by) =>
        /\ receipt' = Absent
        /\ \/ removals' = removals + 1
           \/ \E p \in orphaned \cup {receipt.by} : pc[p] = "undo" /\ pc'[p] = "idle"

LEMMA StepNeverReplaces == FileInv /\ [FileNext]_fileVars => NeverReplacedStep
<1> SUFFICES ASSUME FileInv, [FileNext]_fileVars, receipt # Absent, receipt'.by # receipt.by
             PROVE  /\ receipt' = Absent
                    /\ \/ removals' = removals + 1
                       \/ \E p \in orphaned \cup {receipt.by} : pc[p] = "undo" /\ pc'[p] = "idle"
  BY DEF NeverReplacedStep
<1>1. receipt.by \in Probes /\ receipt \in [by : Probes, whole : BOOLEAN]
  BY ReceiptIs DEF FileInv
<1>2. CASE OperatorRemoves
  BY <1>2 DEF OperatorRemoves
<1>3. ASSUME NEW p \in Probes, Undo(p)
      PROVE  receipt' = Absent /\ p \in orphaned \cup {receipt.by} /\ pc[p] = "undo" /\ pc'[p] = "idle"
  BY <1>3 DEF Undo, AfterUndo, GoTo, FileInv, FileTypeOK, ProbeInv, Located
<1>4. ASSUME NEW p \in Probes, Open(p) \/ FillFails(p) \/ ProbeKilled(p) PROVE FALSE
  BY <1>4 DEF Open, CreateSucceeds, FillFails, ProbeKilled
<1>5. ASSUME NEW p \in Probes, Fill(p) PROVE FALSE
  BY <1>5 DEF Fill, InPlace
<1>6. ASSUME NEW w \in Writers, WriteStart(w) \/ Dump(w) \/ Replace(w) \/ WriteEnds(w)
      PROVE  FALSE
  BY <1>6, WriterStep
<1>7. CASE UNCHANGED fileVars
  BY <1>7 DEF fileVars
<1> QED BY <1>2, <1>3, <1>4, <1>5, <1>6, <1>7 DEF FileNext

\* "Without ever replacing an existing path" (proof.py, lines 77 to 94).
THEOREM NeverReplacedSafety == FileSpec => NeverReplaced
<1>1. FileSpec => [][NeverReplacedStep]_fileVars
  BY FileInvInit, FileInvStep, StepNeverReplaces, PTL DEF FileSpec
<1> QED BY <1>1, PTL DEF NeverReplaced, NeverReplacedStep
=============================================================================
