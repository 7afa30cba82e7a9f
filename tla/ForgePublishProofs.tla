------------------------- MODULE ForgePublishProofs -------------------------
(***************************************************************************)
(* Theorems about ForgePublish: for any number of competing processes and   *)
(* verifiers, any number of steps, and however often the operator removes   *)
(* or creates the run directory.                                            *)
(***************************************************************************)
EXTENDS ForgePublish, TLAPS

LEMMA Artifacts ==
    /\ Plan \in 1..All /\ Telemetry \in 1..All /\ Candidate \in 1..All /\ Receipt \in 1..All
    /\ All \in Nat /\ Metering \in Nat /\ All < Listing /\ Listing < Metering
    /\ \A item \in 1..Metering : item # Metering => After(item) \in 1..Metering
    /\ \A item \in 1..Metering :
          item # Metering => (After(item) # Receipt /\ After(item) # Plan) \/ item = Receipt
    /\ After(Receipt) = Plan /\ Receipt # Plan /\ Receipt # Metering /\ Plan # Metering
BY PublishAssumption
DEF Plan, Telemetry, Candidate, Receipt, All, Checkpoint, Listing, Metering, After

-----------------------------------------------------------------------------
(***************************************************************************)
(* The directory: TypeOK and PublishedWhole are inductive once a writer     *)
(* that writes is known to have a staging directory.                        *)
(***************************************************************************)
Writing == \A w \in Writers : pc[w] = "write" => staging[w] \in 0..All

NothingHeld == owner = NoDir => contents = 0

DirectoryInv == TypeOK /\ Writing /\ NothingHeld /\ PublishedWhole

LEMMA IdleTyped ==
    IdleReader \in ReaderState /\ [IdleReader EXCEPT !.pc = "read"] \in ReaderState
<1>1. Receipt \in 1..Metering
  BY Artifacts DEF Listing, Metering
<1> QED BY <1>1 DEF IdleReader, ReaderState

LEMMA DirectoryInit == Init => DirectoryInv
<1> SUFFICES ASSUME Init PROVE DirectoryInv
  OBVIOUS
<1>2. TypeOK
  BY IdleTyped, Artifacts, PublishAssumption DEF Init, TypeOK, Places, Results
<1> QED
  BY <1>2, PublishAssumption DEF Init, DirectoryInv, Writing, NothingHeld, PublishedWhole

\* The steps of a writer that leave the directory alone.
LEMMA QuietWriterStep ==
    ASSUME DirectoryInv, NEW w \in Writers, WriterStep(w), ~Publish(w), UNCHANGED oversized
    PROVE  DirectoryInv' /\ UNCHANGED <<owner, contents, reader, removals>>
<1> USE DEF DirectoryInv, TypeOK, Writing, NothingHeld, PublishedWhole, Places, Results, GoTo, Ends
<1>1. CASE Prepare(w)       BY <1>1 DEF Prepare
<1>2. CASE CheckAbsent(w)   BY <1>2 DEF CheckAbsent
<1>3. CASE Stage(w)         BY <1>3, Artifacts DEF Stage
<1>4. CASE WriteArtifact(w)
  <2>1. staging[w] \in 0..All /\ staging[w] # All
    BY <1>4 DEF WriteArtifact, Staged
  <2>2. staging[w] + 1 \in 0..All
    BY <2>1, Artifacts
  <2> QED BY <1>4, <2>2 DEF WriteArtifact
<1>5. CASE PersistFails(w)  BY <1>5 DEF PersistFails
<1>6. CASE Return(w)        BY <1>6 DEF Return
<1>7. CASE HandleError(w)   BY <1>7 DEF HandleError
<1>8. CASE Cleanup(w)       BY <1>8 DEF Cleanup
<1>9. CASE Crash(w)         BY <1>9 DEF Crash
<1>10. CASE Again(w)        BY <1>10 DEF Again
<1> QED
  BY <1>1, <1>2, <1>3, <1>4, <1>5, <1>6, <1>7, <1>8, <1>9, <1>10 DEF WriterStep

LEMMA BecomesTyped ==
    ASSUME DirectoryInv, NEW o, NEW n, Becomes(o, n)
    PROVE  reader' \in [Verifiers -> ReaderState]
<1>1. ASSUME NEW v \in Verifiers
      PROVE  [reader[v] EXCEPT !.undisturbed = @ /\ reader[v].pc # "read"] \in ReaderState
  <2>1. reader[v] \in ReaderState
    BY DEF DirectoryInv, TypeOK
  <2>2. (reader[v].undisturbed /\ reader[v].pc # "read") \in BOOLEAN
    OBVIOUS
  <2> QED BY <2>1, <2>2 DEF ReaderState
<1> QED BY <1>1 DEF Becomes

LEMMA PublishStep ==
    ASSUME DirectoryInv, NEW w \in Writers, Publish(w), UNCHANGED oversized
    PROVE  DirectoryInv'
<1> USE DEF DirectoryInv, TypeOK, Writing, NothingHeld, PublishedWhole, Places, GoTo
<1>1. CASE RenameSucceeds
  <2>1. Becomes(w, staging[w]) /\ staging[w] = All
    BY <1>1 DEF Publish, Staged
  <2> QED BY <1>1, <2>1, BecomesTyped, Artifacts, PublishAssumption DEF Publish, Becomes
<1>2. CASE ~RenameSucceeds
  BY <1>2 DEF Publish
<1> QED BY <1>1, <1>2

LEMMA OperatorStep ==
    ASSUME DirectoryInv, OperatorCreates \/ OperatorRemoves, UNCHANGED oversized
    PROVE  DirectoryInv'
<1> USE DEF DirectoryInv, TypeOK, Writing, NothingHeld, PublishedWhole
<1>1. CASE OperatorCreates
  BY <1>1, BecomesTyped, Artifacts, PublishAssumption DEF OperatorCreates, Becomes, writerVars
<1>2. CASE OperatorRemoves
  BY <1>2, BecomesTyped, Artifacts, PublishAssumption DEF OperatorRemoves, Becomes, writerVars
<1> QED BY <1>1, <1>2

LEMMA ReadingTyped ==
    ASSUME TypeOK, NEW v \in Verifiers, NEW read \in BOOLEAN
    PROVE  AfterReading(v, read) \in ReaderState
<1> DEFINE item == reader[v].next
           good == reader[v].good /\ read /\ Accepts(v, item)
           of == IF item = Receipt THEN owner ELSE reader[v].of
           from == IF read /\ Accepts(v, item) THEN reader[v].from \cup {owner}
                                               ELSE reader[v].from
           undisturbed == reader[v].undisturbed /\ read
           at == IF item = Metering \/ (item = Receipt /\ ~(read /\ Readable(Receipt)))
                 THEN "done" ELSE "read"
           next == IF item = Metering THEN item ELSE After(item)
<1>1. /\ reader[v] \in ReaderState
      /\ owner \in Writers \cup {External, NoDir}
  BY DEF TypeOK
<1>2. next \in 1..Metering
  BY <1>1, Artifacts DEF ReaderState
<1>3. good \in BOOLEAN /\ undisturbed \in BOOLEAN /\ at \in {"idle", "read", "done"}
  OBVIOUS
<1>4. of \in Writers \cup {External, NoDir} /\ from \in SUBSET (Writers \cup {External, NoDir})
  BY <1>1 DEF ReaderState
<1>5. AfterReading(v, read) =
        [reader[v] EXCEPT !.good = good, !.of = of, !.from = from,
                          !.undisturbed = undisturbed, !.pc = at, !.next = next]
  BY <1>1 DEF AfterReading, ReaderState
<1> HIDE DEF item, good, of, from, undisturbed, at, next
<1> QED BY <1>1, <1>2, <1>3, <1>4, <1>5 DEF ReaderState

LEMMA VerifierStep ==
    ASSUME DirectoryInv, NEW v \in Verifiers, VerifyStart(v) \/ ReadFile(v),
           UNCHANGED oversized
    PROVE  DirectoryInv' /\ UNCHANGED <<owner, contents, writerVars, removals>>
<1> USE DEF DirectoryInv, TypeOK, Writing, NothingHeld, PublishedWhole, writerVars
<1>1. CASE VerifyStart(v)
  BY <1>1, IdleTyped DEF VerifyStart
<1>2. CASE ReadFile(v)
  <2>1. \A read \in BOOLEAN : AfterReading(v, read) \in ReaderState
    BY ReadingTyped
  <2> QED BY <1>2, <2>1 DEF ReadFile
<1> QED BY <1>1, <1>2

LEMMA DirectoryStep == DirectoryInv /\ [Next]_vars => DirectoryInv'
<1> SUFFICES ASSUME DirectoryInv, [Next]_vars PROVE DirectoryInv'
  OBVIOUS
<1>1. CASE UNCHANGED vars
  BY <1>1 DEF vars, DirectoryInv, TypeOK, Writing, NothingHeld, PublishedWhole
<1>2. CASE Next
  BY <1>2, QuietWriterStep, PublishStep, OperatorStep, VerifierStep DEF Next
<1> QED BY <1>1, <1>2

\* A run directory is complete from the moment it can be seen, whoever failed or
\* died on the way (model_forge.py, lines 1457 to 1481).
THEOREM PublishedWholeSafety == Spec => [](TypeOK /\ PublishedWhole)
<1>1. DirectoryInv => TypeOK /\ PublishedWhole
  BY DEF DirectoryInv
<1> QED BY <1>1, DirectoryInit, DirectoryStep, PTL DEF Spec

-----------------------------------------------------------------------------
(***************************************************************************)
(* The refinement of WriteOnce.                                             *)
(***************************************************************************)
LEMMA RefinesInit == Init => Published!Init
BY DEF Init, Published!Init

LEMMA RefinesStep ==
    DirectoryInv /\ [Next]_vars => [Published!Next]_<<owner, contents>>
<1> SUFFICES ASSUME DirectoryInv, [Next]_vars
             PROVE  Published!Next \/ UNCHANGED <<owner, contents>>
  OBVIOUS
<1>1. CASE UNCHANGED vars
  BY <1>1 DEF vars
<1>2. CASE (\E w \in Writers : WriterStep(w)) /\ UNCHANGED oversized
  <2>1. PICK w \in Writers : WriterStep(w)
    BY <1>2
  <2>2. CASE ~Publish(w)
    BY <1>2, <2>1, <2>2, QuietWriterStep
  <2>3. CASE Publish(w) /\ ~RenameSucceeds
    BY <2>3 DEF Publish
  <2>4. CASE Publish(w) /\ RenameSucceeds
    <3>1. owner' = w /\ contents' = All
      BY <2>4 DEF Publish, Becomes, Staged
    <3>2. owner = NoDir /\ contents = 0
      BY <2>4 DEF RenameSucceeds, Exists, DirectoryInv, TypeOK, NothingHeld
    <3> QED BY <3>1, <3>2 DEF Published!Next, Published!Create
  <2> QED BY <2>2, <2>3, <2>4
<1>3. CASE (\E v \in Verifiers : VerifyStart(v) \/ ReadFile(v)) /\ UNCHANGED oversized
  BY <1>3, VerifierStep
<1>4. CASE OperatorCreates
  <2>1. owner = NoDir /\ contents = 0 /\ owner' = External /\ contents' = 0
    BY <1>4 DEF OperatorCreates, Exists, Becomes, DirectoryInv, NothingHeld
  <2> QED BY <2>1 DEF Published!Next, Published!Create
<1>5. CASE OperatorRemoves
  <2>1. owner # NoDir /\ owner' = NoDir /\ contents' = 0
    BY <1>5 DEF OperatorRemoves, Exists, Becomes
  <2> QED BY <2>1 DEF Published!Next, Published!Remove
<1> QED BY <1>1, <1>2, <1>3, <1>4, <1>5 DEF Next

\* "A concurrently created destination is preserved" (MODEL_FORGE.md, line 80;
\* model_forge.py, lines 1174 to 1207 and 1473).
THEOREM WritesOnce == Spec => ImplementsWriteOnce
<1> QED
  BY DirectoryInit, DirectoryStep, RefinesInit, RefinesStep, PTL
  DEF Spec, ImplementsWriteOnce, Published!Spec

-----------------------------------------------------------------------------
(***************************************************************************)
(* The verdict.  What a verifier has accepted so far, disturbed or not, is  *)
(* a matter of its own past: the receipt was its own source's and all came  *)
(* from a directory of some writer, because one that somebody else made     *)
(* holds nothing.  That needs an invariant on directories.                  *)
(***************************************************************************)
OthersEmpty == owner \notin Writers => contents = 0

LEMMA OthersEmptyStep == DirectoryInv /\ OthersEmpty /\ [Next]_vars => OthersEmpty'
<1> SUFFICES ASSUME DirectoryInv, OthersEmpty, [Next]_vars PROVE OthersEmpty'
  OBVIOUS
<1>1. CASE UNCHANGED <<owner, contents>>
  BY <1>1 DEF OthersEmpty
<1>2. CASE \E w \in Writers : WriterStep(w) /\ UNCHANGED oversized
  BY <1>1, <1>2, QuietWriterStep DEF Publish, Becomes, OthersEmpty
<1>3. CASE OperatorCreates \/ OperatorRemoves
  BY <1>3 DEF OperatorCreates, OperatorRemoves, Becomes, OthersEmpty
<1> QED BY <1>1, <1>2, <1>3 DEF Next, vars, VerifyStart, ReadFile

Fits(item) == item \notin oversized

\* Nothing but the receipt and then the plan can still fail: past them, of an
\* undisturbed verifier, everything is there and good is decided.
VouchedFor(v) ==
    reader[v].good =>
        /\ reader[v].from \subseteq Writers
        /\ reader[v].next # Receipt => Genuine(v) /\ Fits(Receipt)
        /\ reader[v].next \notin {Receipt, Plan} => Fits(Plan)

Undisturbed(v) ==
    reader[v].undisturbed =>
        /\ reader[v].next # Receipt => reader[v].of = owner /\ Exists /\ contents = All
        /\ (Genuine(v) /\ oversized = {}) \/ reader[v].next = Receipt => reader[v].good

Ended(v) ==
    /\ reader[v].good => Genuine(v) /\ oversized = {} /\ reader[v].from \subseteq Writers
    /\ reader[v].undisturbed /\ Genuine(v) /\ oversized = {} => reader[v].good

VerdictInv(v) ==
    /\ reader[v].pc = "read" => VouchedFor(v) /\ Undisturbed(v)
    /\ reader[v].pc = "done" => Ended(v)

LEMMA VerdictStart ==
    ASSUME DirectoryInv, NEW v \in Verifiers, VerifyStart(v), UNCHANGED oversized
    PROVE  VerdictInv(v)'
BY DEF DirectoryInv, TypeOK, VerifyStart, IdleReader, VerdictInv, VouchedFor, Undisturbed

LEMMA VerdictRead ==
    ASSUME DirectoryInv, OthersEmpty, NEW v \in Verifiers, ReadFile(v), UNCHANGED oversized,
           VerdictInv(v)
    PROVE  VerdictInv(v)'
<1> DEFINE item == reader[v].next
<1>1. PICK read \in BOOLEAN :
        /\ reader[v].pc = "read"
        /\ reader'[v] = AfterReading(v, read)
        /\ UNCHANGED <<owner, contents, oversized>>
  BY DEF ReadFile, DirectoryInv, TypeOK
<1>2. /\ reader[v] \in ReaderState
      /\ item \in 1..Metering
      /\ oversized \subseteq {Plan, Receipt}
      /\ contents \in 0..All
  BY DEF DirectoryInv, TypeOK, ReaderState
<1> DEFINE accepted == read /\ Accepts(v, item)
           over == item = Metering \/ (item = Receipt /\ ~(read /\ Readable(Receipt)))
<1>3. /\ reader'[v].undisturbed <=> reader[v].undisturbed /\ read
      /\ reader'[v].of = IF item = Receipt THEN owner ELSE reader[v].of
      /\ reader'[v].from = IF accepted THEN reader[v].from \cup {owner} ELSE reader[v].from
      /\ reader'[v].next = IF item = Metering THEN item ELSE After(item)
      /\ reader'[v].pc = IF over THEN "done" ELSE "read"
      /\ reader'[v].good <=> reader[v].good /\ accepted
  <2>1. /\ (reader[v].good /\ read /\ Accepts(v, reader[v].next)) \in BOOLEAN
        /\ (reader[v].undisturbed /\ read) \in BOOLEAN
    OBVIOUS
  <2> QED BY <1>1, <1>2, <2>1 DEF AfterReading, ReaderState
<1>4. VouchedFor(v) /\ Undisturbed(v)
  BY <1>1 DEF VerdictInv
<1>5. accepted => owner \in Writers /\ Exists /\ contents = All
  <2>1. ASSUME accepted PROVE Exists /\ contents # 0
    BY <1>2, <2>1, Artifacts DEF Accepts, Readable, Holds
  <2>2. owner \in Writers => contents = All
    BY DEF DirectoryInv, PublishedWhole
  <2> QED BY <2>1, <2>2 DEF OthersEmpty
<1>6. item \in 1..All \/ item \in {Listing, Metering}
  BY <1>2, Artifacts DEF Listing, Metering
<1>7. Receipt \notin {Listing, Metering} /\ Plan \notin {Listing, Metering}
  BY Artifacts
<1>8. accepted => Fits(item)
  BY <1>2, <1>7, Artifacts DEF Accepts, Readable, Fits
<1>9. item # Metering => (After(item) = Receipt => FALSE) /\ (After(item) = Plan => item = Receipt)
  BY <1>2, Artifacts
<1>10. Exists /\ contents = All /\ Fits(item) => Readable(item)
  BY <1>2, <1>6 DEF Readable, Holds, Fits
<1>11. Genuine(v)' <=> IF item = Receipt THEN owner \in Writers /\ SourceOf[owner] = SourceOf[v]
                                        ELSE Genuine(v)
  BY <1>3 DEF Genuine
<1>12. Fits(Receipt)' = Fits(Receipt) /\ Fits(Plan)' = Fits(Plan)
  BY <1>1 DEF Fits
<1>13. oversized' = oversized /\ Exists' = Exists /\ contents' = contents /\ owner' = owner
  BY <1>1 DEF Exists
<1>14. oversized = {} <=> Fits(Receipt) /\ Fits(Plan)
  BY <1>2 DEF Fits
<1> HIDE DEF item, over
<1>20. ASSUME reader'[v].good
       PROVE  /\ reader'[v].from \subseteq Writers
              /\ Genuine(v)'
              /\ Fits(Receipt)
              /\ item # Receipt => Fits(Plan)
  <2>1. reader[v].good /\ accepted
    BY <1>3, <1>20
  <2>2. CASE item = Receipt
    BY <2>1, <2>2, <1>3, <1>4, <1>5, <1>8, <1>11 DEF VouchedFor, Accepts, item
  <2>3. CASE item # Receipt
    BY <2>1, <2>3, <1>3, <1>4, <1>5, <1>8, <1>11 DEF VouchedFor, item
  <2> QED BY <2>2, <2>3
<1>21. ASSUME reader'[v].undisturbed, Genuine(v)', oversized = {}
       PROVE  reader'[v].good
  <2>1. reader[v].undisturbed /\ read
    BY <1>3, <1>21
  <2>2. Fits(item)
    BY <1>21 DEF Fits
  <2>3. CASE item = Receipt
    <3>1. owner \in Writers /\ SourceOf[owner] = SourceOf[v]
      BY <1>11, <1>21, <2>3
    <3>2. Exists /\ contents = All
      BY <3>1, PublishAssumption DEF Exists, DirectoryInv, PublishedWhole
    <3>3. reader[v].good
      BY <1>4, <2>1, <2>3 DEF Undisturbed, item
    <3> QED BY <1>3, <1>10, <2>1, <2>2, <3>1, <3>2, <3>3 DEF Accepts
  <2>4. CASE item # Receipt
    <3>1. Exists /\ contents = All /\ reader[v].good
      BY <1>4, <1>11, <1>21, <2>1, <2>4 DEF Undisturbed, item
    <3> QED BY <1>3, <1>10, <2>1, <2>2, <2>4, <3>1 DEF Accepts
  <2> QED BY <2>3, <2>4
<1>22. CASE over
  <2>1. reader'[v].pc = "done"
    BY <1>3, <1>22
  <2>2. item = Receipt => ~accepted
    BY <1>22, <1>7 DEF over, Accepts
  <2>3. reader'[v].good => item # Receipt
    BY <1>3, <2>2
  <2>4. reader'[v].good => Genuine(v)' /\ oversized = {} /\ reader'[v].from \subseteq Writers
    BY <1>14, <1>20, <2>3
  <2> QED BY <1>13, <1>21, <2>1, <2>4 DEF VerdictInv, Ended
<1>23. CASE ~over
  <2>1. reader'[v].pc = "read" /\ reader'[v].next = After(item) /\ item # Metering
    BY <1>3, <1>23 DEF over
  <2>2. reader'[v].next # Receipt /\ (reader'[v].next = Plan \/ item # Receipt)
    BY <2>1, <1>9, Artifacts
  <2>3. VouchedFor(v)'
    BY <1>12, <1>20, <2>2 DEF VouchedFor
  <2>4. ASSUME reader'[v].undisturbed
        PROVE  reader'[v].of = owner /\ Exists /\ contents = All
    <3>1. CASE item = Receipt
      <4>1. Readable(Receipt) /\ reader'[v].of = owner
        BY <1>3, <1>23, <3>1 DEF over
      <4>2. Holds(Receipt)
        BY <4>1, <1>7 DEF Readable
      <4> QED BY <4>1, <4>2, <1>2, Artifacts DEF Holds, All
    <3>2. CASE item # Receipt
      BY <1>3, <1>4, <2>4, <3>2 DEF Undisturbed, item
    <3> QED BY <3>1, <3>2
  <2>5. Undisturbed(v)'
    BY <1>13, <1>21, <2>2, <2>4 DEF Undisturbed
  <2> QED BY <2>1, <2>3, <2>5 DEF VerdictInv
<1> QED BY <1>22, <1>23

\* A step that is not v's own leaves v's verdict alone or disturbs v.
LEMMA VerdictOthers ==
    ASSUME DirectoryInv, [Next]_vars, NEW v \in Verifiers, VerdictInv(v),
           ~VerifyStart(v), ~ReadFile(v)
    PROVE  VerdictInv(v)'
<1> USE DEF VerdictInv, VouchedFor, Undisturbed, Ended, Genuine, Fits
<1>0. UNCHANGED oversized
  BY DEF Next, vars
<1>1. CASE reader'[v] = reader[v] /\ UNCHANGED <<owner, contents>>
  BY <1>0, <1>1 DEF Exists
<1>2. CASE \E o, n : Becomes(o, n)
  <2>1. reader'[v] = [reader[v] EXCEPT !.undisturbed = @ /\ reader[v].pc # "read"]
    BY <1>2 DEF Becomes
  <2>2. reader[v] \in ReaderState
    BY DEF DirectoryInv, TypeOK
  <2>3. /\ reader'[v].pc = reader[v].pc
        /\ reader'[v].of = reader[v].of
        /\ reader'[v].from = reader[v].from
        /\ reader'[v].next = reader[v].next
        /\ reader'[v].good = reader[v].good
        /\ reader'[v].undisturbed <=> reader[v].undisturbed /\ reader[v].pc # "read"
    BY <2>1, <2>2 DEF ReaderState
  <2> QED BY <1>0, <2>3
<1>3. CASE \E w \in Writers : WriterStep(w)
  BY <1>0, <1>1, <1>2, <1>3, QuietWriterStep DEF Publish
<1>4. CASE \E u \in Verifiers : VerifyStart(u) \/ ReadFile(u)
  <2>1. reader'[v] = reader[v] /\ UNCHANGED <<owner, contents>>
    BY <1>4 DEF VerifyStart, ReadFile, DirectoryInv, TypeOK
  <2> QED BY <1>1, <2>1
<1>5. CASE OperatorCreates \/ OperatorRemoves
  BY <1>2, <1>5 DEF OperatorCreates, OperatorRemoves
<1>6. CASE UNCHANGED vars
  BY <1>1, <1>6 DEF vars
<1> QED BY <1>3, <1>4, <1>5, <1>6 DEF Next

VerdictsInv == OthersEmpty /\ \A v \in Verifiers : VerdictInv(v)

LEMMA VerdictStep == DirectoryInv /\ VerdictsInv /\ [Next]_vars => VerdictsInv'
<1> SUFFICES ASSUME DirectoryInv, VerdictsInv, [Next]_vars PROVE VerdictsInv'
  OBVIOUS
<1>1. OthersEmpty'
  BY OthersEmptyStep DEF VerdictsInv
<1>2. UNCHANGED oversized
  BY DEF Next, vars
<1>3. ASSUME NEW v \in Verifiers PROVE VerdictInv(v)'
  BY <1>2, VerdictStart, VerdictRead, VerdictOthers DEF VerdictsInv
<1> QED BY <1>1, <1>3 DEF VerdictsInv

\* A run found valid carries the receipt of a process that executed the
\* verifier's own source, whatever was removed or published again meanwhile, and
\* a verifier nothing disturbed finds every such run valid whose plan and receipt
\* are no longer than a record (model_forge.py, lines 1497 to 1926).
THEOREM VerdictSafety == Spec => []VerdictTellsPublication
<1>1. Init => VerdictsInv
  BY DEF Init, IdleReader, VerdictsInv, VerdictInv, OthersEmpty
<1>2. VerdictsInv => VerdictTellsPublication
  BY DEF VerdictsInv, VerdictInv, Ended, VerdictTellsPublication
<1> QED BY <1>1, <1>2, DirectoryInit, DirectoryStep, VerdictStep, PTL DEF Spec
=============================================================================
