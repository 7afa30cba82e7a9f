-------------------------- MODULE ForgeProbeProofs --------------------------
(***************************************************************************)
(* Theorems about the two programs behind "forge probe": the entrypoint of  *)
(* the container (ForgeContainer), and the preflight it then executes       *)
(* (ForgePreflight).                                                        *)
(***************************************************************************)
EXTENDS ForgeContainer, ForgePreflight, ForgeLemmas

-----------------------------------------------------------------------------
(***************************************************************************)
(* The entrypoint: for any set of mounted files, any sizes, and whatever    *)
(* the host does to the files.                                              *)
(*                                                                         *)
(* The argument follows the descriptors.  A memory file is open while it is *)
(* the current one and sealed while it is one of the attested; what was     *)
(* sealed had been compared, and nothing writes to it again.                *)
(***************************************************************************)
Copying == {"copy", "check", "seal"}

DescriptorInv ==
    /\ \A f \in Files : memfd[f].state = "open" <=> f = current
    /\ \A f \in Files : memfd[f].state = "sealed" <=> f \in attested
    /\ \A f \in attested : Approved(f)
    /\ pc \in Copying => current # NoFile
    /\ current # NoFile => pc \in Copying \cup {"abandon"}
    /\ pc = "seal" => Approved(current)
    /\ pc \in {"attest"} \cup Copying => \A f \in todo : memfd[f].state = "none"
    /\ pc = "start" => \A f \in Files : memfd[f].state = "none"
    /\ pc = "exited" => attested = {}

LinkInv ==
    /\ ~directory => \A n \in Names : link[n] = NoFile
    /\ pc \in {"link", "exec", "probe"} /\ command = "probe" =>
          /\ \A n \in Names : link[n] # NoFile => link[n] \in attested /\ NameOf[link[n]] = n
          /\ \A f \in attested :
                \/ NameOf[f] \in Executables
                \/ pc = "link" /\ f \in todo
                \/ link[NameOf[f]] = f
    /\ pc = "link" => directory /\ todo \subseteq attested
    /\ pc \in {"mkdir", "link", "unbind"} => command = "probe"

AnnouncedInv ==
    /\ pc \in {"attest", "abandon", "verify", "mkdir", "link", "unbind", "exec"} \cup Copying
          => announced = {}
    /\ command # "probe" => attested = {} /\ pc \notin {"attest", "abandon"} \cup Copying
    /\ pc = "probe" => announced = attested
    /\ pc # "probe" => unapproved = {}

ContainerInv == ContainerTypeOK /\ DescriptorInv /\ LinkInv /\ AnnouncedInv /\ AttestedNamesApproved

LEMMA ContainerInvInit == ContainerInit => ContainerInv
<1> SUFFICES ASSUME ContainerInit PROVE ContainerInv
  OBVIOUS
<1>1. ContainerTypeOK
  BY ContainerAssumption
  DEF ContainerInit, ContainerTypeOK, Content, ApprovedFile, Copies, NoCopy, Places
<1>2. DescriptorInv
  BY ContainerAssumption DEF ContainerInit, DescriptorInv, NoCopy, Copying
<1>3. LinkInv /\ AnnouncedInv /\ AttestedNamesApproved
  BY DEF ContainerInit, LinkInv, AnnouncedInv, AttestedNamesApproved, Copying
<1> QED BY <1>1, <1>2, <1>3 DEF ContainerInv

-----------------------------------------------------------------------------
\* Closing the descriptors that are held leaves none of them open.
LEMMA ClosingAll ==
    ASSUME ContainerInv, memfd' = Closed(attested \cup ({current} \ {NoFile})), UNCHANGED <<mounts>>
    PROVE  /\ memfd' \in [Files -> Copies]
           /\ \A f \in Files : memfd'[f].state \notin {"open", "sealed"}
<1>1. ASSUME NEW f \in Files
      PROVE  memfd'[f] \in Copies /\ memfd'[f].state \notin {"open", "sealed"}
  <2>1. memfd[f] \in Copies
    BY DEF ContainerInv, ContainerTypeOK
  <2>2. CASE f \in attested \/ f = current
    <3>1. memfd[f].state \in {"open", "sealed"}
      BY <2>2 DEF ContainerInv, DescriptorInv
    <3>2. f \in attested \cup ({current} \ {NoFile})
      BY <2>2, ContainerAssumption
    <3> QED BY <2>1, <3>1, <3>2 DEF Closed, Copies
  <2>3. CASE ~(f \in attested \/ f = current)
    BY <2>1, <2>3 DEF Closed, ContainerInv, DescriptorInv
  <2> QED BY <2>2, <2>3
<1>2. memfd' = [f \in Files |-> memfd'[f]]
  BY DEF Closed
<1> QED BY <1>1, <1>2

-----------------------------------------------------------------------------
(***************************************************************************)
(* One lemma per step, or per group of steps that change the same things.   *)
(***************************************************************************)
LEMMA HostStep ==
    ASSUME ContainerInv, NEW f \in Files, HostChanges(f)
    PROVE  ContainerInv'
<1> USE DEF ContainerInv, HostChanges, bindVars
<1>1. ContainerTypeOK'              BY DEF ContainerTypeOK
<1>2. DescriptorInv'       BY DEF DescriptorInv, Approved
<1>3. LinkInv' /\ AnnouncedInv' /\ AttestedNamesApproved'
  BY DEF LinkInv, AnnouncedInv, AttestedNamesApproved
<1> QED BY <1>1, <1>2, <1>3

\* The steps that only move on.
LEMMA MovingStep ==
    ASSUME ContainerInv,
           Begin \/ Fails \/ EndOfFile \/ Check \/ Attested \/ Verify \/ Bound \/ Execute
    PROVE  ContainerInv'
<1> USE DEF ContainerInv, hostVars, copyVars, bindVars, Begin, Fails, EndOfFile, Check, Attested,
            Verify, Bound, Execute
<1>1. ContainerTypeOK'
  BY DEF ContainerTypeOK, Places, Cleared
<1>2. DescriptorInv'
  BY DEF ContainerTypeOK, DescriptorInv, Approved, Copying
<1>3. LinkInv'
  BY DEF LinkInv, AnnouncedInv, Copying
<1>4. AnnouncedInv'
  BY DEF AnnouncedInv, Copying, Cleared
<1>5. AttestedNamesApproved'
  BY DEF AttestedNamesApproved
<1> QED BY <1>1, <1>2, <1>3, <1>4, <1>5

LEMMA OpenStep ==
    ASSUME ContainerInv, NEW f \in Files, OpenFile(f)
    PROVE  ContainerInv'
<1> USE DEF ContainerInv, OpenFile, hostVars, bindVars, First
<1>1. ContainerTypeOK'
  <2>1. mounted[f].chunks \in Nat
    <3>1. ApprovedChunks \in Nat /\ MaxChunks + 1 \in Nat /\ mounted[f] \in Content
      BY ContainerAssumption DEF ContainerTypeOK
    <3>2. mounted[f].chunks \in {ApprovedChunks, MaxChunks + 1}
      BY <3>1 DEF Content, ApprovedFile, OtherFile, GrowingFile
    <3> QED BY <3>1, <3>2
  <2>2. memfd' \in [Files -> Copies]
    BY DEF ContainerTypeOK, Copies, NoCopy
  <2> QED BY <2>1, <2>2 DEF ContainerTypeOK, Places
<1>2. DescriptorInv'
  <2>1. memfd[f].state = "none" /\ current = NoFile /\ f # NoFile
    BY ContainerAssumption DEF DescriptorInv, Copying
  <2>2. /\ memfd'[f].state = "open"
        /\ \A g \in Files \ {f} : memfd'[g] = memfd[g]
    BY DEF ContainerTypeOK, NoCopy
  <2>3. f \notin attested /\ f \notin todo'
    BY <2>1 DEF DescriptorInv
  <2>4. \A g \in Files : memfd'[g].state = "open" <=> g = current'
    BY <2>1, <2>2, ContainerAssumption DEF DescriptorInv
  <2>5. \A g \in Files : memfd'[g].state = "sealed" <=> g \in attested'
    BY <2>2, <2>3 DEF DescriptorInv
  <2>6. \A g \in attested' : Approved(g)'
    BY <2>2, <2>3 DEF ContainerTypeOK, DescriptorInv, Approved
  <2>7. \A g \in todo' : memfd'[g].state = "none"
    BY <2>2, <2>3 DEF ContainerTypeOK, DescriptorInv
  <2> QED BY <2>1, <2>4, <2>5, <2>6, <2>7 DEF DescriptorInv, Copying
<1>3. LinkInv'             BY DEF LinkInv
<1>4. AnnouncedInv' /\ AttestedNamesApproved'
  BY DEF AnnouncedInv, AttestedNamesApproved, Copying
<1> QED BY <1>1, <1>2, <1>3, <1>4

LEMMA CopyStep ==
    ASSUME ContainerInv, CopyChunk
    PROVE  ContainerInv'
<1> USE DEF ContainerInv, CopyChunk, hostVars, bindVars
<1>1. current \in Files /\ memfd[current] \in Copies
  BY DEF ContainerTypeOK, DescriptorInv, Copying
<1>2. /\ memfd' \in [Files -> Copies]
      /\ memfd'[current].state = memfd[current].state
      /\ \A g \in Files \ {current} : memfd'[g] = memfd[g]
  BY <1>1 DEF ContainerTypeOK, Copies
<1>3. ContainerTypeOK'
  BY <1>2 DEF ContainerTypeOK, Places
<1>4. DescriptorInv'
  <2>1. current \notin attested
    BY <1>1 DEF DescriptorInv
  <2> QED BY <1>1, <1>2, <2>1 DEF ContainerTypeOK, DescriptorInv, Approved, Copying
<1>5. LinkInv'             BY DEF LinkInv
<1>6. AnnouncedInv' /\ AttestedNamesApproved'
  BY DEF AnnouncedInv, AttestedNamesApproved, Copying
<1> QED BY <1>3, <1>4, <1>5, <1>6

LEMMA SealCopyStep ==
    ASSUME ContainerInv, SealCopy
    PROVE  ContainerInv'
<1> USE DEF ContainerInv, SealCopy, hostVars, bindVars
<1>1. current \in Files /\ current # NoFile /\ memfd[current] \in Copies
  BY ContainerAssumption DEF ContainerTypeOK, DescriptorInv, Copying
<1>2. /\ memfd' \in [Files -> Copies]
      /\ memfd'[current] = [memfd[current] EXCEPT !.state = "sealed"]
      /\ \A g \in Files \ {current} : memfd'[g] = memfd[g]
  BY <1>1 DEF ContainerTypeOK, Copies, HandedOver
<1>3. ContainerTypeOK'
  BY <1>1, <1>2 DEF ContainerTypeOK, Places
<1>4. DescriptorInv'
  <2>1. /\ memfd'[current].state = "sealed"
        /\ memfd'[current].good /\ memfd'[current].chunks = ApprovedChunks
    BY <1>1, <1>2 DEF DescriptorInv, Approved, Copies
  <2>2. /\ memfd[current].state = "open"
        /\ current \notin todo /\ current \notin attested
    BY <1>1 DEF DescriptorInv, Copying
  <2> QED BY <1>1, <1>2, <2>1, <2>2, ContainerAssumption
          DEF ContainerTypeOK, DescriptorInv, Approved, Copying
<1>5. LinkInv'             BY DEF LinkInv
<1>6. AnnouncedInv' /\ AttestedNamesApproved'
  BY DEF AnnouncedInv, AttestedNamesApproved, Copying
<1> QED BY <1>3, <1>4, <1>5, <1>6

LEMMA ClosingStep ==
    ASSUME ContainerInv, Abandon \/ Refuse
    PROVE  ContainerInv'
<1> USE DEF ContainerInv, Abandon, Refuse, hostVars, copyVars, bindVars
<1>1. memfd' = Closed(attested \cup ({current} \ {NoFile}))
  BY DEF HeldByMain, DescriptorInv, Copying
<1>2. /\ memfd' \in [Files -> Copies]
      /\ \A f \in Files : memfd'[f].state \notin {"open", "sealed"}
  BY <1>1, ClosingAll
<1>3. attested' = {} /\ current' = NoFile /\ pc' \in {"refuse", "exited"}
  BY DEF Dropped, DescriptorInv, Copying
<1>4. ContainerTypeOK'
  BY <1>2, <1>3 DEF ContainerTypeOK, Places
<1>5. DescriptorInv'
  BY <1>2, <1>3, ContainerAssumption DEF DescriptorInv, Copying
<1>6. LinkInv'
  BY <1>3 DEF LinkInv
<1>7. AnnouncedInv' /\ AttestedNamesApproved'
  BY <1>3 DEF AnnouncedInv, AttestedNamesApproved, Copying
<1> QED BY <1>4, <1>5, <1>6, <1>7

LEMMA BindingStep ==
    ASSUME ContainerInv, MakeDirectory \/ (\E f \in Files : LinkLibrary(f)) \/ Unbind
    PROVE  ContainerInv'
<1> USE DEF ContainerInv, hostVars, copyVars
<1>1. DescriptorInv'
  BY DEF DescriptorInv, Approved, Copying, MakeDirectory, LinkLibrary, Unbind
<1>2. AnnouncedInv' /\ AttestedNamesApproved'
  BY DEF AnnouncedInv, AttestedNamesApproved, Copying, MakeDirectory, LinkLibrary, Unbind
<1>3. CASE MakeDirectory
  <2>1. ContainerTypeOK'
    BY <1>3 DEF MakeDirectory, ContainerTypeOK, Places
  <2>2. LinkInv'
    BY <1>3 DEF MakeDirectory, NoDirectory, LinkInv
  <2> QED BY <1>1, <1>2, <2>1, <2>2
<1>4. ASSUME NEW f \in Files, LinkLibrary(f) PROVE ContainerInv'
  <2> USE <1>4 DEF LinkLibrary, First
  <2>1. ContainerTypeOK'
    BY ContainerAssumption DEF ContainerTypeOK, Places
  <2>2. LinkInv'
    <3>1. CASE pc' = "unbind"
      BY <3>1 DEF LinkInv
    <3>2. CASE pc' # "unbind"
      <4>1. /\ link \in [Names -> Files \cup {NoFile, Foreign}]
            /\ link[NameOf[f]] = NoFile /\ NameOf[f] \in Names /\ f \in attested
            /\ link' = [link EXCEPT ![NameOf[f]] = f]
            /\ todo' = todo \ {f} /\ pc' = pc
        BY <3>2, ContainerAssumption DEF ContainerTypeOK, LinkInv
      <4>2. \A n \in Names : link'[n] # NoFile => link'[n] \in attested /\ NameOf[link'[n]] = n
        BY <4>1 DEF LinkInv
      <4>3. ASSUME NEW g \in attested
            PROVE  NameOf[g] \in Executables \/ g \in todo' \/ link'[NameOf[g]] = g
        <5>1. NameOf[g] \in Names /\ g # NoFile
          BY ContainerAssumption DEF ContainerTypeOK
        <5>2. NameOf[g] \in Executables \/ g \in todo \/ link[NameOf[g]] = g
          BY DEF LinkInv
        <5> QED BY <4>1, <5>1, <5>2
      <4> QED BY <4>1, <4>2, <4>3 DEF LinkInv
    <3> QED BY <3>1, <3>2
  <2> QED BY <1>1, <1>2, <2>1, <2>2
<1>5. CASE Unbind
  <2>1. ContainerTypeOK'
    BY <1>5 DEF Unbind, ContainerTypeOK, Places
  <2>2. LinkInv'
    BY <1>5 DEF Unbind, LinkInv
  <2> QED BY <1>1, <1>2, <2>1, <2>2
<1> QED BY <1>3, <1>4, <1>5

\* A library gets its own link or none: what is found by another way was asked
\* for by a name that no attested library has.
LEMMA ProbeStep ==
    ASSUME ContainerInv, RunSmi
    PROVE  ContainerInv'
<1> USE DEF ContainerInv, RunSmi, hostVars, copyVars, bindVars
<1>1. \A f \in attested : Handed(f)
  BY ContainerAssumption
  DEF ContainerTypeOK, AnnouncedInv, DescriptorInv, Handed, SealedFile
<1>2. CASE unapproved' = unapproved
  <2>1. ContainerTypeOK'
    BY <1>2 DEF ContainerTypeOK
  <2>2. DescriptorInv' /\ LinkInv' /\ AnnouncedInv' /\ AttestedNamesApproved'
    BY <1>2 DEF DescriptorInv, Approved, LinkInv, AnnouncedInv, AttestedNamesApproved
  <2> QED BY <2>1, <2>2
<1>3. CASE unapproved' # unapproved
  <2>1. PICK n \in Names \ Executables :
          link[n] = NoFile /\ unapproved' = unapproved \cup {n}
    BY <1>1, <1>3 DEF Gets, Smis, LinkInv
  <2>2. ASSUME NEW f \in attested PROVE NameOf[f] # n
    BY <2>1, ContainerAssumption DEF LinkInv, ContainerTypeOK
  <2>3. ContainerTypeOK'
    BY <2>1 DEF ContainerTypeOK
  <2>4. DescriptorInv' /\ LinkInv' /\ AnnouncedInv' /\ AttestedNamesApproved'
    BY <2>1, <2>2 DEF DescriptorInv, Approved, LinkInv, AnnouncedInv, AttestedNamesApproved
  <2> QED BY <2>3, <2>4
<1> QED BY <1>2, <1>3

LEMMA ContainerInvStep == ContainerInv /\ [ContainerNext]_containerVars => ContainerInv'
<1> SUFFICES ASSUME ContainerInv, [ContainerNext]_containerVars PROVE ContainerInv'
  OBVIOUS
<1>1. CASE UNCHANGED containerVars
  BY <1>1 DEF containerVars, hostVars, copyVars, bindVars, ContainerInv, ContainerTypeOK,
              DescriptorInv, Approved, LinkInv, AnnouncedInv, AttestedNamesApproved
<1>2. CASE ContainerNext
  BY <1>2, HostStep, MovingStep, OpenStep, CopyStep, SealCopyStep, ClosingStep, BindingStep,
     ProbeStep DEF ContainerNext, Entrypoint
<1> QED BY <1>1, <1>2

-----------------------------------------------------------------------------
(***************************************************************************)
(* The copies together.  What they hold was counted before it was written,  *)
(* total_bytes never goes back, and a copy that is begun holds nothing.     *)
(***************************************************************************)
Copied == [f \in Files |-> memfd[f].chunks]

CopiesInv == SumFunctionOnSet(Copied, Files) <= total /\ CopiesBounded

LEMMA CopiesSum ==
    ASSUME ContainerTypeOK
    PROVE  /\ \A f \in Files : Copied[f] \in Nat /\ Copied[f] = memfd[f].chunks
           /\ SumFunctionOnSet(Copied, Files) \in Nat
           /\ CopiesBounded <=> SumFunctionOnSet(Copied, Files) <= MaxChunks
<1>1. \A f \in Files : Copied[f] \in Nat /\ Copied[f] = memfd[f].chunks
  BY DEF ContainerTypeOK, Copies, Copied
<1>2. SumFunction(Copied) = SumFunctionOnSet(Copied, Files)
  BY DEF SumFunction, Copied
<1>3. SumFunctionOnSet(Copied, Files) \in Nat
  BY <1>1, SumType, ContainerAssumption
<1>4. CopiesBounded <=> SumFunction(Copied) <= MaxChunks
  BY DEF CopiesBounded, Copied
<1> QED BY <1>1, <1>2, <1>3, <1>4

LEMMA CopiesInit == ContainerInit => CopiesInv
<1> SUFFICES ASSUME ContainerInit PROVE CopiesInv
  OBVIOUS
<1>1. ContainerTypeOK
  BY ContainerInvInit DEF ContainerInv
<1>2. total = 0 /\ MaxChunks \in Nat
  BY ContainerAssumption DEF ContainerInit
<1>3. SumFunctionOnSet(Copied, Files) = 0
  <2>1. IsFiniteSet(Files) /\ \A f \in Files : Copied[f] = 0
    BY ContainerAssumption DEF ContainerInit, Copied, NoCopy
  <2>2. Cardinality(Files) \in Nat /\ SumFunctionOnSet(Copied, Files) = Cardinality(Files) * 0
    BY <2>1, SumOfEqual, FS_CardinalityType
  <2> QED BY <2>2
<1> QED BY <1>1, <1>2, <1>3, CopiesSum DEF CopiesInv

\* One copy changes at most, and the counter counts what it gains.
LEMMA CopiesChange ==
    ASSUME ContainerTypeOK, ContainerTypeOK', CopiesInv, NEW f \in Files,
           \A g \in Files \ {f} : memfd'[g].chunks = memfd[g].chunks,
           \/ memfd'[f].chunks <= memfd[f].chunks /\ total' >= total
           \/ /\ memfd'[f].chunks = memfd[f].chunks + 1
              /\ total' = total + 1 /\ total + 1 <= MaxChunks
    PROVE  CopiesInv'
<1>1. total \in Nat /\ total' \in Nat /\ MaxChunks \in Nat
  BY ContainerAssumption DEF ContainerTypeOK
<1>2. /\ \A g \in Files : Copied[g] \in Nat /\ Copied[g] = memfd[g].chunks
      /\ SumFunctionOnSet(Copied, Files) \in Nat
      /\ SumFunctionOnSet(Copied, Files) <= total
      /\ SumFunctionOnSet(Copied, Files) <= MaxChunks
  BY CopiesSum DEF CopiesInv
<1>3. /\ \A g \in Files : Copied'[g] \in Nat /\ Copied'[g] = memfd'[g].chunks
      /\ SumFunctionOnSet(Copied', Files) \in Nat
      /\ CopiesBounded' <=> SumFunctionOnSet(Copied', Files) <= MaxChunks
  <2>1. \A g \in Files : Copied'[g] \in Nat /\ Copied'[g] = memfd'[g].chunks
    BY DEF ContainerTypeOK, Copies, Copied
  <2>2. SumFunction(Copied') = SumFunctionOnSet(Copied', Files)
    BY DEF SumFunction, Copied
  <2>3. SumFunctionOnSet(Copied', Files) \in Nat
    BY <2>1, SumType, ContainerAssumption
  <2>4. CopiesBounded' <=> SumFunction(Copied') <= MaxChunks
    BY DEF CopiesBounded, Copied
  <2> QED BY <2>1, <2>2, <2>3, <2>4
<1>4. SumFunctionOnSet(Copied', Files) + Copied[f] = SumFunctionOnSet(Copied, Files) + Copied'[f]
  <2>1. \A g \in Files :
            Copied[g] \in Nat /\ Copied'[g] \in Nat /\ (g # f => Copied'[g] = Copied[g])
    BY <1>2, <1>3
  <2>2. IsFiniteSet(Files)
    BY ContainerAssumption
  <2> QED BY <2>1, <2>2, SumChange
<1>5. SumFunctionOnSet(Copied', Files) <= total' /\ SumFunctionOnSet(Copied', Files) <= MaxChunks
  BY <1>1, <1>2, <1>3, <1>4
<1> QED BY <1>3, <1>5 DEF CopiesInv

LEMMA CopiesStep ==
    ContainerInv /\ ContainerInv' /\ CopiesInv /\ [ContainerNext]_containerVars => CopiesInv'
<1> SUFFICES ASSUME ContainerInv, ContainerInv', CopiesInv, [ContainerNext]_containerVars
             PROVE  CopiesInv'
  OBVIOUS
<1>1. ContainerTypeOK /\ ContainerTypeOK'
  BY DEF ContainerInv
<1>2. ASSUME total' = total, \A f \in Files : memfd'[f].chunks = memfd[f].chunks
      PROVE  CopiesInv'
  <2>1. Copied' = Copied
    BY <1>2 DEF Copied
  <2>2. CopiesBounded' <=> CopiesBounded
    BY <2>1 DEF CopiesBounded, Copied
  <2> QED BY <1>2, <2>1, <2>2 DEF CopiesInv
<1>3. ASSUME NEW f \in Files, OpenFile(f) PROVE CopiesInv'
  <2>1. /\ memfd'[f].chunks = 0 /\ total' = total
        /\ \A g \in Files \ {f} : memfd'[g] = memfd[g]
    BY <1>1, <1>3 DEF OpenFile, NoCopy, ContainerTypeOK
  <2>2. memfd[f].chunks \in Nat /\ total \in Nat
    BY <1>1 DEF ContainerTypeOK, Copies
  <2> QED BY <1>1, <2>1, <2>2, CopiesChange
<1>4. CASE CopyChunk
  <2>1. current \in Files /\ total \in Nat /\ memfd[current] \in Copies /\ MaxChunks \in Nat
    BY <1>1, <1>4, ContainerAssumption
    DEF CopyChunk, ContainerInv, DescriptorInv, ContainerTypeOK, Copying
  <2>2. CASE total + 1 > MaxChunks
    <3>1. memfd' = memfd /\ total' = total + 1
      BY <1>4, <2>2 DEF CopyChunk, TotalChunks
    <3>2. memfd[current].chunks \in Nat
      BY <2>1 DEF Copies
    <3> QED BY <1>1, <2>1, <3>1, <3>2, CopiesChange
  <2>3. CASE ~(total + 1 > MaxChunks)
    <3>1. /\ memfd'[current].chunks = memfd[current].chunks + 1
          /\ \A g \in Files \ {current} : memfd'[g] = memfd[g]
          /\ total' = total + 1
      BY <1>1, <1>4, <2>1, <2>3 DEF CopyChunk, TotalChunks, ContainerTypeOK, Copies
    <3>2. total + 1 <= MaxChunks
      BY <2>1, <2>3
    <3> QED BY <1>1, <2>1, <3>1, <3>2, CopiesChange
  <2> QED BY <2>2, <2>3
<1>5. CASE SealCopy
  <2>1. total' = total /\ \A f \in Files : memfd'[f].chunks = memfd[f].chunks
    BY <1>1, <1>5 DEF SealCopy, HandedOver, ContainerTypeOK, Copies
  <2> QED BY <1>2, <2>1
<1>6. CASE Abandon \/ Refuse
  <2>1. PICK S : memfd' = Closed(S)
    BY <1>6 DEF Abandon, Refuse
  <2>2. ASSUME NEW f \in Files PROVE memfd'[f].chunks = memfd[f].chunks
    <3>1. memfd[f] \in Copies
      BY <1>1 DEF ContainerTypeOK
    <3>2. \E state : memfd'[f] = [memfd[f] EXCEPT !.state = state] \/ memfd'[f] = memfd[f]
      BY <2>1 DEF Closed
    <3> QED BY <3>1, <3>2 DEF Copies
  <2>3. total' = total
    BY <1>6 DEF Abandon, Refuse, copyVars
  <2> QED BY <1>2, <2>2, <2>3
<1>7. CASE \/ Begin \/ Fails \/ EndOfFile \/ Check \/ Attested \/ Verify \/ Bound \/ Execute
           \/ MakeDirectory \/ Unbind \/ RunSmi
           \/ \E f \in Files : LinkLibrary(f) \/ HostChanges(f)
  <2>1. memfd' = memfd /\ total' = total
    BY <1>7 DEF Begin, Fails, EndOfFile, Check, Attested, Verify, Bound, Execute, MakeDirectory,
                Unbind, RunSmi, LinkLibrary, HostChanges, copyVars
  <2> QED BY <1>2, <2>1
<1>8. CASE UNCHANGED containerVars
  BY <1>2, <1>8 DEF containerVars
<1> QED BY <1>3, <1>4, <1>5, <1>6, <1>7, <1>8 DEF ContainerNext, Entrypoint


-----------------------------------------------------------------------------
\* No "later host write can substitute the inspected utility" (MODEL_FORGE.md,
\* line 186), nor a library that is asked for by the base name of an attested
\* file (oims_forge_entrypoint.py, lines 517 to 577 and 610 to 627), whatever
\* the default directories have.
THEOREM AttestedCodeApproved == ContainerSpec => [](ContainerTypeOK /\ AttestedNamesApproved)
<1>1. ContainerInv => ContainerTypeOK /\ AttestedNamesApproved
  BY DEF ContainerInv
<1> QED BY <1>1, ContainerInvInit, ContainerInvStep, PTL DEF ContainerSpec

\* Every memory file is closed by the entrypoint or inherited by the probe
\* (oims_forge_entrypoint.py, lines 578 to 593, 872 to 874 and 905 to 908).
THEOREM NoDescriptorLost == ContainerSpec => []DescriptorsOwned
<1>1. ContainerInv => DescriptorsOwned
  BY ContainerAssumption
  DEF ContainerInv, DescriptorInv, AnnouncedInv, ContainerTypeOK, DescriptorsOwned, IsOpen, Copying
<1> QED BY <1>1, ContainerInvInit, ContainerInvStep, PTL DEF ContainerSpec

\* However the mounted files grow while they are read, the copies in memory
\* together stay within MAX_NVIDIA_RUNTIME_BYTES (oims_forge_entrypoint.py,
\* lines 516 and 541 to 549).
THEOREM MemoryBounded == ContainerSpec => []CopiesBounded
<1>1. CopiesInv => CopiesBounded
  BY DEF CopiesInv
<1> QED BY <1>1, ContainerInvInit, ContainerInvStep, CopiesInit, CopiesStep, PTL
        DEF ContainerSpec

\* The library directory of a probe is what the entrypoint attested
\* (oims_forge_entrypoint.py, lines 611 to 622).
THEOREM DirectoryExact == ContainerSpec => []LibrariesExact
<1>1. ContainerInv => LibrariesExact
  BY DEF ContainerInv, LinkInv, LibrariesExact
<1> QED BY <1>1, ContainerInvInit, ContainerInvStep, PTL DEF ContainerSpec

-----------------------------------------------------------------------------
(***************************************************************************)
(* The preflight: for every plan, every host and every change of it during  *)
(* the inspection.                                                          *)
(***************************************************************************)
(***************************************************************************)
(* What a list of errors tells: its names are names of checks, and it is    *)
(* empty exactly when every check succeeded.                                *)
(***************************************************************************)
LEMMA OnlyFailed ==
    ASSUME NEW f, NEW S, \A c \in DOMAIN f : c \in S \/ f[c]
    PROVE  Failed(f) \subseteq S
BY DEF Failed

LEMMA Named == ASSUME NEW f PROVE Failed(f) \subseteq DOMAIN f
BY DEF Failed

LEMMA Authorized ==
    ASSUME NEW p \in Plans, NEW hash, AuthorizationErrors(p, hash) = {}
    PROVE  /\ ValidPlan(p) /\ p.mode = "probe" /\ hash = p.id
           /\ p.rollback = p.base
           /\ \A c \in Ceilings : IsPositive(p.ceiling[c])
           /\ IsPositive(Capacity(p, "host-ram")) /\ IsPositive(Capacity(p, "gpu-vram"))
<1> DEFINE asked == [mode |-> p.mode = "probe", acknowledged |-> hash = p.id]
<1>1. PlanErrors(p) = {} /\ Failed(asked) = {}
  BY DEF AuthorizationErrors
<1>2. asked["mode"] /\ asked["acknowledged"]
  BY <1>1, NoneFailed
<1>3. PolicyErrors(p) = {} /\ ResourceErrors(p) = {}
  BY <1>1 DEF PlanErrors
<1>4. p.rollback = p.base
  <2> DEFINE f == [exact |-> p.exact,
                   evidence |-> p.mode \in DOMAIN EvidenceClass
                                /\ p.evidence = EvidenceClass[p.mode],
                   rollback |-> p.rollback = p.base,
                   hash |-> p.hashed]
  <2>1. Failed(f) = {}
    BY <1>3 DEF PolicyErrors
  <2>2. f["rollback"]
    BY <2>1, NoneFailed
  <2> QED BY <2>2
<1>5. /\ PositiveCeilings(p)
      /\ p.ceiling["host"] <= Capacity(p, "host-ram")
      /\ p.ceiling["device"] <= Capacity(p, "gpu-vram")
  <2> DEFINE f ==
           [positive |-> PositiveCeilings(p),
            budgets |-> PositiveBudgets(p),
            steps |-> IsPositive(p.maxSteps) /\ p.maxSteps <= MaxSteps,
            output |-> p.budget["output"] <= MaxOutput,
            domains |-> TwoDomains(p),
            hostFits |-> p.ceiling["host"] <= Capacity(p, "host-ram"),
            deviceFits |-> p.ceiling["device"] <= Capacity(p, "gpu-vram"),
            temperature |-> p.ceiling["temperature"] <= MaxTemperature]
  <2>1. Failed(f) = {}
    BY <1>3 DEF ResourceErrors
  <2>2. f["positive"] /\ f["hostFits"] /\ f["deviceFits"]
    BY <2>1, NoneFailed
  <2> QED BY <2>2
<1>6. p.ceiling["host"] \in Nat \ {0} /\ p.ceiling["device"] \in Nat \ {0}
  BY <1>5 DEF PositiveCeilings, Ceilings, IsPositive
<1>7. Capacity(p, "host-ram") \in Int /\ Capacity(p, "gpu-vram") \in Int
  BY PreflightAssumption
<1>8. Capacity(p, "host-ram") \in Nat \ {0} /\ Capacity(p, "gpu-vram") \in Nat \ {0}
  BY <1>5, <1>6, <1>7
<1> QED BY <1>1, <1>2, <1>4, <1>5, <1>8 DEF ValidPlan, IsPositive, PositiveCeilings

LEMMA Equipped ==
    ASSUME NEW e, NEW image, EnvironmentErrors(e, image, TRUE) = {}
    PROVE  e.base /\ e.runtime
<1> DEFINE f == [container |-> e.container, offline |-> e.offline, base |-> e.base,
                 revision |-> e.source \in Sources]
           g == [unlock |-> e.unlock, runtime |-> e.runtime, descriptors |-> e.descriptors,
                 utility |-> e.utility /\ e.descriptors, libraries |-> e.libraries]
<1>1. Failed(f) = {} /\ Failed(g) = {}
  BY DEF EnvironmentErrors
<1>2. f["base"] /\ g["runtime"]
  BY <1>1, NoneFailed
<1> QED BY <1>2

(***************************************************************************)
(* Where the list of errors finds nothing wrong with the memory, the        *)
(* signals do not either.                                                   *)
(***************************************************************************)
LEMMA HostFits ==
    ASSUME NEW p \in Plans, NEW m, NEW l, HostMemoryErrors(p, m, l) = {},
           IsPositive(p.ceiling["host"]), IsPositive(Capacity(p, "host-ram"))
    PROVE  HostMemorySatisfied(p, m, l) /\ LimitErrors(l) = {}
<1> DEFINE ceiling == p.ceiling["host"]
           short(n) == IsPositive(ceiling) /\ n < ceiling
           f == [unused |-> SwapUnused(m),
                 total |-> IsPositive(m.total) /\ ~short(m.total),
                 domain |-> IsPositive(m.total) /\ IsPositive(Capacity(p, "host-ram")) =>
                               Near(m.total, Capacity(p, "host-ram"), HostTolerance),
                 available |-> IsPositive(m.available) /\ ~short(m.available),
                 limit |-> IsPositive(l.limit) /\ ~short(l.limit),
                 free |-> Free(l) \in Nat /\ ~short(Free(l))]
<1>1. Failed(f) = {} /\ LimitErrors(l) = {}
  BY DEF HostMemoryErrors
<1>2. f["total"] /\ f["domain"] /\ f["available"] /\ f["limit"] /\ f["free"]
  <2> HIDE DEF short
  <2> QED BY <1>1, NoneFailed
<1>3. /\ IsPositive(m.total) /\ ~short(m.total)
      /\ IsPositive(m.total) /\ IsPositive(Capacity(p, "host-ram")) =>
            Near(m.total, Capacity(p, "host-ram"), HostTolerance)
      /\ IsPositive(m.available) /\ ~short(m.available)
      /\ IsPositive(l.limit) /\ ~short(l.limit)
      /\ Free(l) \in Nat /\ ~short(Free(l))
  <2> HIDE DEF short
  <2> QED BY <1>2
<1>4. ASSUME NEW n \in Nat, ~short(n) PROVE n >= ceiling
  BY <1>4 DEF IsPositive
<1>5. m.total >= ceiling /\ m.available >= ceiling /\ l.limit >= ceiling /\ Free(l) >= ceiling
  <2>1. m.total \in Nat /\ m.available \in Nat /\ l.limit \in Nat /\ Free(l) \in Nat
    BY <1>3 DEF IsPositive
  <2> HIDE DEF short, ceiling
  <2> QED BY <1>3, <1>4, <2>1
<1>6. Near(m.total, Capacity(p, "host-ram"), HostTolerance)
  BY <1>3
<1> QED BY <1>1, <1>3, <1>5, <1>6 DEF HostMemorySatisfied

(***************************************************************************)
(* The same for the device, where the list of errors and the signals agree  *)
(* in both directions.                                                      *)
(***************************************************************************)
DeviceFits(p, gpu) ==
    /\ gpu # Unseen
    /\ Near(gpu.total, Capacity(p, "gpu-vram"), DeviceTolerance)
    /\ gpu.total - gpu.used >= p.ceiling["device"]
    /\ gpu.temperature <= p.ceiling["temperature"]

LEMMA DeviceAgrees ==
    ASSUME NEW p, NEW gpu
    PROVE  DeviceErrors(p, gpu) = {} <=> DeviceFits(p, gpu)
<1>1. CASE gpu = Unseen
  BY <1>1 DEF DeviceErrors, DeviceFits
<1>2. CASE gpu # Unseen
  <2> DEFINE near == Near(gpu.total, Capacity(p, "gpu-vram"), DeviceTolerance)
             f == [domain |-> near,
                   free |-> gpu.total - gpu.used >= p.ceiling["device"],
                   temperature |-> gpu.temperature <= p.ceiling["temperature"]]
  <2>1. DeviceErrors(p, gpu) = Failed(f)
    BY <1>2 DEF DeviceErrors
  <2>2. ASSUME Failed(f) = {} PROVE DeviceFits(p, gpu)
    <3>1. f["domain"] /\ f["free"] /\ f["temperature"]
      BY <2>2, NoneFailed
    <3> QED BY <1>2, <3>1 DEF DeviceFits
  <2>3. ASSUME DeviceFits(p, gpu) PROVE Failed(f) \subseteq {}
    <3>1. f["domain"] /\ f["free"] /\ f["temperature"]
      BY <2>3 DEF DeviceFits
    <3>2. DOMAIN f = {"domain", "free", "temperature"}
      OBVIOUS
    <3> HIDE DEF f
    <3>3. \A c \in DOMAIN f : f[c]
      BY <3>1, <3>2, Zenon
    <3> QED BY <3>3 DEF Failed
  <2> QED BY <2>1, <2>2, <2>3
<1> QED BY <1>1, <1>2

LEMMA GoodProcess ==
    ASSUME NEW c, Failed(Process(c)) = {}
    PROVE  Process(c).user /\ Process(c).empty /\ Process(c).privileges /\ Process(c).filter
<1> DEFINE f == Process(c)
<1>1. DOMAIN f = {"user", "empty", "privileges", "filter"}
  BY DEF Process
<1> HIDE DEF f
<1>2. f["user"] /\ f["empty"] /\ f["privileges"] /\ f["filter"]
  BY <1>1, NoneFailed DEF f
<1> QED BY <1>2 DEF f

LEMMA GoodNetwork ==
    ASSUME NEW c, Failed(Network(c)) = {}
    PROVE  Network(c).root /\ Network(c).offline /\ Network(c).loopback
<1> DEFINE f == Network(c)
<1>1. DOMAIN f = {"root", "offline", "loopback"}
  BY DEF Network
<1> HIDE DEF f
<1>2. f["root"] /\ f["offline"] /\ f["loopback"]
  BY <1>1, NoneFailed DEF f
<1> QED BY <1>2 DEF f

-----------------------------------------------------------------------------
(***************************************************************************)
(* No check of the list of errors is called "incomplete".                   *)
(***************************************************************************)
Other(S) == "incomplete" \notin S

LEMMA PlanNames == ASSUME NEW p, NEW hash PROVE Other(AuthorizationErrors(p, hash))
<1>1. Other(PolicyErrors(p))
  BY DEF Other, PolicyErrors, Failed
<1>2. Other(ResourceErrors(p))
  BY DEF Other, ResourceErrors, Failed
<1>3. Other(SimulationErrors(p))
  BY DEF Other, SimulationErrors, Failed
<1>4. Other(Failed([mode |-> p.mode = "probe", acknowledged |-> hash = p.id]))
  BY DEF Other, Failed
<1> QED BY <1>1, <1>2, <1>3, <1>4 DEF Other, AuthorizationErrors, PlanErrors

LEMMA EnvironmentNames == ASSUME NEW e, NEW image PROVE Other(EnvironmentErrors(e, image, TRUE))
<1>1. Other(SourceAttestationErrors(e, image))
  BY DEF Other, SourceAttestationErrors
<1> QED BY <1>1 DEF Other, EnvironmentErrors, Failed

LEMMA ObservationNames ==
    ASSUME NEW c, NEW p, NEW m, NEW l, NEW gpu
    PROVE  /\ Other(Failed(Process(c))) /\ Other(Failed(Network(c)))
           /\ Other(Failed(ForgeMountPolicy(c)))
           /\ Other(HostMemoryErrors(p, m, l)) /\ Other(DeviceErrors(p, gpu))
<1>1. Other(Failed(Process(c))) /\ Other(Failed(Network(c)))
  BY DEF Other, Failed, Process, Network
<1>2. Other(Failed(ForgeMountPolicy(c)))
  BY DEF Other, Failed, ForgeMountPolicy
<1>3. Other(LimitErrors(l))
  BY DEF Other, Failed, LimitErrors
<1>4. Other(HostMemoryErrors(p, m, l))
  BY <1>3 DEF Other, Failed, HostMemoryErrors
<1>5. Other(DeviceErrors(p, gpu))
  BY DEF Other, Failed, DeviceErrors
<1> QED BY <1>1, <1>2, <1>4, <1>5

-----------------------------------------------------------------------------
(***************************************************************************)
(* The inductive invariant.  As long as nothing was found wrong, everything *)
(* observed so far is good; once something was, the device is not asked, or *)
(* was itself what was wrong: in either case a signal about the device is   *)
(* not satisfied.                                                           *)
(***************************************************************************)
Clean == errors \subseteq {"incomplete"}
Judged == phase \in {"receipt", "sealed"}

ProcessGood ==
    seen.process.user /\ seen.process.empty /\ seen.process.privileges /\ seen.process.filter
NetworkGood == seen.network.root /\ seen.network.offline /\ seen.network.loopback
MountsGood == Failed(seen.mounts.policy) = {}
MemoryGood == HostMemoryErrors(plan, seen.memory, seen.limits) = {}
DeviceGood == DeviceFits(plan, seen.gpu)

Before(ph) ==
    CASE ph = "source" -> {"environment"}
      [] ph = "network" -> {"environment", "source", "process"}
      [] ph = "mounts" -> {"environment", "source", "process", "network"}
      [] ph = "cgroup" -> {"environment", "source", "process", "network", "mounts"}
      [] ph = "device" -> {"environment", "source", "process", "network", "mounts", "cgroup",
                           "memory"}

Found ==
    /\ AuthorizationErrors(plan, accepted) = {}
    /\ phase \notin Before("source") => env.base /\ env.runtime
    /\ phase \notin Before("network") => ProcessGood
    /\ phase \notin Before("mounts") => NetworkGood
    /\ phase \notin Before("cgroup") => MountsGood
    /\ phase \notin Before("device") => MemoryGood
    /\ Judged => DeviceGood

ShapeInv ==
    /\ plan \in Plans /\ phase \in Phases
    /\ DOMAIN seen = {"source", "process", "network", "mounts", "limits", "memory", "gpu"}
    /\ phase # "sealed" => Other(errors)
    /\ ~Judged => seen.gpu = Unseen
FoundInv == Clean => Found
DeviceInv == Judged /\ ~Clean => ~DeviceGood
SealedInv ==
    phase = "sealed" => \/ Other(errors) /\ (errors = {} => Unsatisfied = {})
                        \/ errors = {"incomplete"} /\ Unsatisfied # {}
PreflightInv == ShapeInv /\ FoundInv /\ DeviceInv /\ SealedInv

(***************************************************************************)
(* When everything observed is good, the second reading of the attestation  *)
(* is all a signal can still complain about.                                *)
(***************************************************************************)
LEMMA FoundSatisfies ==
    ASSUME plan \in Plans, Judged, Found
    PROVE  Unsatisfied \subseteq {"attestation"}
<1> DEFINE energy == seen.gpu # Unseen
           attestation == seen.source # NoSource /\ env.runtime
           device == DeviceMemorySatisfied(plan, seen.gpu)
           memory == HostMemorySatisfied(plan, seen.memory, seen.limits)
           network == seen.network.offline /\ seen.network.loopback
           authorization == plan.mode = "probe" /\ accepted = plan.id
           rollback == plan.rollback = plan.base
           sandbox == SandboxSatisfied(env, seen.process, seen.network, seen.mounts.policy,
                                       seen.limits)
           thermal == /\ seen.gpu # Unseen
                      /\ IsPositive(plan.ceiling["temperature"])
                      /\ seen.gpu.temperature <= plan.ceiling["temperature"]
           f == [authority |-> TRUE, energy |-> energy, attestation |-> attestation,
                 deviceMemory |-> device, hostMemory |-> memory, network |-> network,
                 authorization |-> authorization, validation |-> ValidPlan(plan),
                 rollback |-> rollback, sandbox |-> sandbox, thermal |-> thermal]
<1>1. Unsatisfied = Failed(f)
  BY DEF Unsatisfied, ConstraintSignals
<1>2. AuthorizationErrors(plan, accepted) = {} /\ env.base /\ env.runtime
      /\ ProcessGood /\ NetworkGood /\ MountsGood /\ MemoryGood /\ DeviceGood
  BY DEF Found, Judged, Before
<1>3. /\ authorization /\ ValidPlan(plan) /\ rollback
      /\ \A c \in Ceilings : IsPositive(plan.ceiling[c])
      /\ IsPositive(Capacity(plan, "host-ram")) /\ IsPositive(Capacity(plan, "gpu-vram"))
  BY <1>2, Authorized
<1>4. /\ IsPositive(plan.ceiling["host"]) /\ IsPositive(plan.ceiling["device"])
      /\ IsPositive(plan.ceiling["temperature"])
  BY <1>3 DEF Ceilings
<1>5. memory /\ LimitErrors(seen.limits) = {}
  BY <1>2, <1>3, <1>4, HostFits DEF MemoryGood
<1>6. device /\ thermal /\ energy
  BY <1>2, <1>3, <1>4 DEF DeviceGood, DeviceFits, DeviceMemorySatisfied
<1>7. network /\ sandbox
  BY <1>2, <1>5 DEF NetworkGood, ProcessGood, MountsGood, SandboxSatisfied
<1> HIDE DEF energy, attestation, device, memory, network, authorization, rollback, sandbox,
             thermal
<1>8. DOMAIN f = {"authority", "energy", "attestation", "deviceMemory", "hostMemory", "network",
                  "authorization", "validation", "rollback", "sandbox", "thermal"}
  OBVIOUS
<1>9. /\ f["authority"] /\ f["energy"] /\ f["deviceMemory"] /\ f["hostMemory"] /\ f["network"]
      /\ f["authorization"] /\ f["validation"] /\ f["rollback"] /\ f["sandbox"] /\ f["thermal"]
  BY <1>3, <1>5, <1>6, <1>7
<1> HIDE DEF f
<1>10. \A c \in DOMAIN f : c \in {"attestation"} \/ f[c]
  BY <1>8, <1>9, Zenon
<1> QED BY <1>1, <1>10, OnlyFailed

LEMMA UnfitSignalled == Unsatisfied = {} => DeviceGood
<1> SUFFICES ASSUME Unsatisfied = {} PROVE DeviceGood
  OBVIOUS
<1> DEFINE f == ConstraintSignals(plan, accepted, env, seen)
<1>1. "deviceMemory" \in DOMAIN f /\ "thermal" \in DOMAIN f
  BY DEF ConstraintSignals
<1>2. f["deviceMemory"] /\ f["thermal"]
  BY <1>1, NoneFailed DEF Unsatisfied
<1>3. DeviceMemorySatisfied(plan, seen.gpu)
  BY <1>2 DEF ConstraintSignals
<1>4. seen.gpu.temperature <= plan.ceiling["temperature"]
  BY <1>2 DEF ConstraintSignals
<1> QED BY <1>3, <1>4 DEF DeviceGood, DeviceFits, DeviceMemorySatisfied

-----------------------------------------------------------------------------
LEMMA PreflightInvInit == Init => PreflightInv
<1> SUFFICES ASSUME Init PROVE PreflightInv
  OBVIOUS
<1>1. ShapeInv
  BY PlanNames DEF Init, ShapeInv, NothingSeen, Phases, Judged
<1>2. FoundInv
  <2>1. Clean => AuthorizationErrors(plan, accepted) = {}
    BY PlanNames DEF Init, Clean, Other
  <2> QED BY <2>1 DEF Init, FoundInv, Found, Before, Judged
<1>3. DeviceInv /\ SealedInv
  BY DEF Init, DeviceInv, SealedInv, Judged
<1> QED BY <1>1, <1>2, <1>3 DEF PreflightInv

(***************************************************************************)
(* What an observation before the device keeps.                             *)
(***************************************************************************)
LEMMA ObservationStep ==
    ASSUME PreflightInv, NEW from, NEW to, NEW what \in DOMAIN seen \ {"gpu"}, NEW value, NEW wrong,
           Observe(from, to, what, value, wrong), Other(wrong),
           from \in Phases \ {"receipt", "sealed"}, to \in Phases \ {"receipt", "sealed"}
    PROVE  /\ ShapeInv' /\ DeviceInv' /\ SealedInv'
           /\ Clean' => Found /\ wrong = {}
           /\ \A x \in DOMAIN seen : seen'[x] = IF x = what THEN value ELSE seen[x]
<1>1. /\ phase = from /\ phase' = to /\ seen' = [seen EXCEPT ![what] = value]
      /\ errors' = errors \cup wrong /\ plan' = plan
  BY DEF Observe
<1>2. \A x \in DOMAIN seen : seen'[x] = IF x = what THEN value ELSE seen[x]
  BY <1>1
<1>3. seen'.gpu = seen.gpu /\ DOMAIN seen' = DOMAIN seen
  BY <1>1, <1>2 DEF PreflightInv, ShapeInv
<1>4. phase \notin {"receipt", "sealed"} /\ phase' \notin {"receipt", "sealed"}
  BY <1>1
<1>5. ShapeInv'
  BY <1>1, <1>3, <1>4 DEF PreflightInv, ShapeInv, Other, Judged
<1>6. DeviceInv' /\ SealedInv'
  BY <1>4 DEF DeviceInv, SealedInv, Judged
<1>7. Clean' => Clean /\ wrong = {}
  BY <1>1 DEF Clean, Other
<1> QED BY <1>2, <1>5, <1>6, <1>7 DEF PreflightInv, FoundInv

LEMMA EnvironmentStep == PreflightInv /\ (ReadEnvironment \/ ReadSource) => PreflightInv'
<1> SUFFICES ASSUME PreflightInv, ReadEnvironment \/ ReadSource PROVE PreflightInv'
  OBVIOUS
<1>1. CASE ReadEnvironment
  <2> DEFINE wrong == EnvironmentErrors(env, host.image, TRUE)
  <2>1. Other(wrong)
    BY EnvironmentNames
  <2>2. /\ phase = "environment" /\ phase' = "source" /\ errors' = errors \cup wrong
        /\ UNCHANGED <<plan, accepted, env, seen>>
    BY <1>1 DEF ReadEnvironment
  <2> HIDE DEF wrong
  <2>3. ShapeInv'
    BY <2>1, <2>2 DEF PreflightInv, ShapeInv, Other, Judged, Phases
  <2>4. DeviceInv' /\ SealedInv'
    BY <2>2 DEF DeviceInv, SealedInv, Judged
  <2>5. Clean' => Found /\ wrong = {}
    BY <2>1, <2>2 DEF Clean, Other, PreflightInv, FoundInv
  <2>6. wrong = {} => env.base /\ env.runtime
    BY Equipped DEF wrong
  <2>7. FoundInv'
    BY <2>2, <2>5, <2>6 DEF FoundInv, Found, Before, Judged
  <2> QED BY <2>3, <2>4, <2>7 DEF PreflightInv
<1>2. CASE ReadSource
  <2> DEFINE value == VerifiedSource(env, host.image)
  <2>1. Observe("source", "process", "source", value, {})
    BY <1>2 DEF ReadSource
  <2>2. Other({}) /\ "source" \in DOMAIN seen \ {"gpu"}
    BY DEF Other, PreflightInv, ShapeInv
  <2>3. ShapeInv' /\ DeviceInv' /\ SealedInv' /\ (Clean' => Found)
    BY <2>1, <2>2, ObservationStep DEF Phases
  <2>4. FoundInv'
    BY <2>1, <2>3 DEF FoundInv, Found, Before, Judged, Observe
  <2> QED BY <2>3, <2>4 DEF PreflightInv
<1> QED BY <1>1, <1>2

LEMMA ProcessStep == PreflightInv /\ ReadProcess => PreflightInv'
<1> SUFFICES ASSUME PreflightInv, ReadProcess PROVE PreflightInv'
  OBVIOUS
<1>1. Observe("process", "network", "process", Process(host), Failed(Process(host)))
  BY DEF ReadProcess
<1>2. Other(Failed(Process(host))) /\ "process" \in DOMAIN seen \ {"gpu"}
  BY ObservationNames DEF PreflightInv, ShapeInv
<1>3. /\ ShapeInv' /\ DeviceInv' /\ SealedInv' /\ (Clean' => Found /\ Failed(Process(host)) = {})
      /\ seen'["process"] = Process(host)
  BY <1>1, <1>2, ObservationStep DEF Phases, PreflightInv, ShapeInv
<1>4. Clean' => ProcessGood'
  BY <1>3, GoodProcess DEF ProcessGood
<1>5. FoundInv'
  BY <1>1, <1>3, <1>4 DEF FoundInv, Found, Before, Judged, Observe
<1> QED BY <1>3, <1>5 DEF PreflightInv

LEMMA NetworkStep == PreflightInv /\ ReadNetwork => PreflightInv'
<1> SUFFICES ASSUME PreflightInv, ReadNetwork PROVE PreflightInv'
  OBVIOUS
<1>1. Observe("network", "mounts", "network", Network(host), Failed(Network(host)))
  BY DEF ReadNetwork
<1>2. Other(Failed(Network(host))) /\ "network" \in DOMAIN seen \ {"gpu"}
  BY ObservationNames DEF PreflightInv, ShapeInv
<1>3. /\ ShapeInv' /\ DeviceInv' /\ SealedInv' /\ (Clean' => Found /\ Failed(Network(host)) = {})
      /\ seen'["network"] = Network(host) /\ seen'["process"] = seen["process"]
  BY <1>1, <1>2, ObservationStep DEF Phases, PreflightInv, ShapeInv
<1>4. Clean' => NetworkGood' /\ ProcessGood'
  <2>1. Clean' => ProcessGood
    BY <1>1, <1>3 DEF Found, Before, Observe
  <2> QED BY <1>3, <2>1, GoodNetwork DEF NetworkGood, ProcessGood
<1>5. FoundInv'
  BY <1>1, <1>3, <1>4 DEF FoundInv, Found, Before, Judged, Observe
<1> QED BY <1>3, <1>5 DEF PreflightInv

LEMMA MountsStep == PreflightInv /\ ReadMounts => PreflightInv'
<1> SUFFICES ASSUME PreflightInv, ReadMounts PROVE PreflightInv'
  OBVIOUS
<1> DEFINE wrong == Failed(ForgeMountPolicy(host))
<1>1. Observe("mounts", "cgroup", "mounts", Mounts(host), wrong)
  BY DEF ReadMounts
<1>2. Other(wrong) /\ "mounts" \in DOMAIN seen \ {"gpu"}
  BY ObservationNames DEF PreflightInv, ShapeInv
<1> HIDE DEF wrong
<1>3. /\ ShapeInv' /\ DeviceInv' /\ SealedInv' /\ (Clean' => Found /\ wrong = {})
      /\ seen'["mounts"] = Mounts(host) /\ seen'["process"] = seen["process"]
      /\ seen'["network"] = seen["network"]
  BY <1>1, <1>2, ObservationStep DEF Phases, PreflightInv, ShapeInv
<1>4. Clean' => NetworkGood' /\ ProcessGood' /\ MountsGood'
  <2>1. Clean' => ProcessGood /\ NetworkGood
    BY <1>1, <1>3 DEF Found, Before, Observe
  <2>2. Clean' => ProcessGood' /\ NetworkGood'
    BY <1>3, <2>1 DEF NetworkGood, ProcessGood
  <2>3. Clean' => MountsGood'
    BY <1>3 DEF MountsGood, Mounts, wrong
  <2> QED BY <2>2, <2>3
<1>5. FoundInv'
  BY <1>1, <1>3, <1>4 DEF FoundInv, Found, Before, Judged, Observe
<1> QED BY <1>3, <1>5 DEF PreflightInv

(***************************************************************************)
(* Observations of memory leave the earlier ones alone.                     *)
(***************************************************************************)
LEMMA EarlierStay ==
    ASSUME seen'["process"] = seen["process"], seen'["network"] = seen["network"],
           seen'["mounts"] = seen["mounts"], phase \in {"cgroup", "memory", "device", "receipt"},
           Found
    PROVE  ProcessGood' /\ NetworkGood' /\ MountsGood'
<1>1. ProcessGood /\ NetworkGood /\ MountsGood
  BY DEF Found, Before
<1>2. ProcessGood' /\ NetworkGood'
  BY <1>1 DEF ProcessGood, NetworkGood
<1>3. MountsGood'
  BY <1>1 DEF MountsGood
<1> QED BY <1>2, <1>3

LEMMA CgroupStep == PreflightInv /\ ReadCgroup => PreflightInv'
<1> SUFFICES ASSUME PreflightInv, ReadCgroup PROVE PreflightInv'
  OBVIOUS
<1>1. Observe("cgroup", "memory", "limits", CgroupLimits(host.cgroup), {})
  BY DEF ReadCgroup
<1>2. Other({}) /\ "limits" \in DOMAIN seen \ {"gpu"}
  BY DEF Other, PreflightInv, ShapeInv
<1>3. /\ ShapeInv' /\ DeviceInv' /\ SealedInv' /\ (Clean' => Found)
      /\ seen'["process"] = seen["process"] /\ seen'["network"] = seen["network"]
      /\ seen'["mounts"] = seen["mounts"]
  BY <1>1, <1>2, ObservationStep DEF Phases, PreflightInv, ShapeInv
<1>4. Clean' => NetworkGood' /\ ProcessGood' /\ MountsGood'
  BY <1>1, <1>3, EarlierStay DEF Observe
<1>5. FoundInv'
  BY <1>1, <1>3, <1>4 DEF FoundInv, Found, Before, Judged, Observe
<1> QED BY <1>3, <1>5 DEF PreflightInv

LEMMA MemoryStep == PreflightInv /\ ReadMemory => PreflightInv'
<1> SUFFICES ASSUME PreflightInv, ReadMemory PROVE PreflightInv'
  OBVIOUS
<1> DEFINE wrong == HostMemoryErrors(plan, host.memory, seen.limits)
<1>1. Observe("memory", "device", "memory", host.memory, wrong)
  BY DEF ReadMemory
<1>2. Other(wrong) /\ "memory" \in DOMAIN seen \ {"gpu"}
  BY ObservationNames DEF PreflightInv, ShapeInv
<1> HIDE DEF wrong
<1>3. /\ ShapeInv' /\ DeviceInv' /\ SealedInv' /\ (Clean' => Found /\ wrong = {})
      /\ seen'["process"] = seen["process"] /\ seen'["network"] = seen["network"]
      /\ seen'["mounts"] = seen["mounts"]
      /\ seen'["memory"] = host.memory /\ seen'["limits"] = seen["limits"]
  BY <1>1, <1>2, ObservationStep DEF Phases, PreflightInv, ShapeInv
<1>4. Clean' => NetworkGood' /\ ProcessGood' /\ MountsGood' /\ MemoryGood'
  <2>1. Clean' => NetworkGood' /\ ProcessGood' /\ MountsGood'
    BY <1>1, <1>3, EarlierStay DEF Observe
  <2>2. plan' = plan
    BY <1>1 DEF Observe
  <2>3. Clean' => MemoryGood'
    BY <1>3, <2>2 DEF MemoryGood, wrong
  <2> QED BY <2>1, <2>3
<1>5. FoundInv'
  BY <1>1, <1>3, <1>4 DEF FoundInv, Found, Before, Judged, Observe
<1> QED BY <1>3, <1>5 DEF PreflightInv

LEMMA DeviceStep == PreflightInv /\ (QueryDevice \/ SkipDevice) => PreflightInv'
<1> SUFFICES ASSUME PreflightInv, QueryDevice \/ SkipDevice PROVE PreflightInv'
  OBVIOUS
<1>1. CASE QueryDevice
  <2> DEFINE gpu == Parsed(host.device)
             wrong == DeviceErrors(plan, gpu)
  <2>1. /\ phase = "device" /\ phase' = "receipt" /\ seen' = [seen EXCEPT !["gpu"] = gpu]
        /\ errors = {} /\ errors' = wrong /\ UNCHANGED <<plan, accepted, env>>
    BY <1>1 DEF QueryDevice, Observe
  <2>2. wrong = {} <=> DeviceFits(plan, gpu)
    BY DeviceAgrees
  <2>3. Other(wrong)
    BY ObservationNames
  <2> HIDE DEF gpu, wrong
  <2>4. /\ DOMAIN seen' = DOMAIN seen /\ seen'["gpu"] = gpu
        /\ \A x \in DOMAIN seen \ {"gpu"} : seen'[x] = seen[x]
    BY <2>1 DEF PreflightInv, ShapeInv
  <2>5. Found
    BY <2>1 DEF PreflightInv, FoundInv, Clean
  <2>6. ShapeInv'
    BY <2>1, <2>3, <2>4 DEF PreflightInv, ShapeInv, Phases, Judged
  <2>7. DeviceGood' <=> DeviceFits(plan, gpu)
    BY <2>1, <2>4 DEF DeviceGood
  <2>8. DeviceInv'
    BY <2>1, <2>2, <2>7 DEF DeviceInv, Clean
  <2>9. ProcessGood' /\ NetworkGood' /\ MountsGood'
    BY <2>1, <2>4, <2>5, EarlierStay DEF PreflightInv, ShapeInv
  <2>10. MemoryGood'
    <3>1. /\ seen'["memory"] = seen["memory"] /\ seen'["limits"] = seen["limits"]
          /\ plan' = plan
      BY <2>1, <2>4 DEF PreflightInv, ShapeInv
    <3>2. MemoryGood
      BY <2>1, <2>5 DEF Found, Before
    <3> QED BY <3>1, <3>2 DEF MemoryGood
  <2>11. Clean' => DeviceGood'
    BY <2>1, <2>2, <2>3, <2>7 DEF Clean, Other
  <2>12. FoundInv'
    BY <2>1, <2>5, <2>9, <2>10, <2>11 DEF FoundInv, Found, Before
  <2>13. SealedInv'
    BY <2>1 DEF SealedInv
  <2> QED BY <2>6, <2>8, <2>12, <2>13 DEF PreflightInv
<1>2. CASE SkipDevice
  <2>1. /\ errors # {} /\ phase = "device" /\ phase' = "receipt"
        /\ UNCHANGED <<plan, accepted, env, seen, errors>>
    BY <1>2 DEF SkipDevice
  <2>2. ~Clean /\ seen.gpu = Unseen /\ Other(errors)
    BY <2>1 DEF PreflightInv, ShapeInv, Clean, Other, Judged
  <2>3. ~Clean' /\ ~DeviceGood'
    BY <2>1, <2>2 DEF Clean, DeviceGood, DeviceFits
  <2>4. ShapeInv'
    BY <2>1, <2>2 DEF PreflightInv, ShapeInv, Phases, Judged, Other
  <2> QED BY <2>1, <2>3, <2>4 DEF PreflightInv, FoundInv, DeviceInv, SealedInv
<1> QED BY <1>1, <1>2

LEMMA SealStep == PreflightInv /\ Seal => PreflightInv'
<1> SUFFICES ASSUME PreflightInv, Seal PROVE PreflightInv'
  OBVIOUS
<1>1. /\ phase = "receipt" /\ phase' = "sealed" /\ errors' = errors \cup Incomplete
      /\ UNCHANGED <<plan, accepted, env, seen>>
  BY DEF Seal
<1>2. Other(errors)
  BY <1>1 DEF PreflightInv, ShapeInv
<1>3. Unsatisfied' = Unsatisfied
  BY <1>1 DEF Unsatisfied
<1>4. SealedInv'
  <2>1. CASE errors = {} /\ Unsatisfied # {}
    BY <1>1, <1>3, <2>1 DEF SealedInv, Incomplete
  <2>2. CASE errors # {} \/ Unsatisfied = {}
    BY <1>1, <1>2, <1>3, <2>2 DEF SealedInv, Incomplete, Other
  <2> QED BY <2>1, <2>2
<1>5. ShapeInv'
  BY <1>1 DEF PreflightInv, ShapeInv, Phases, Judged
<1>6. Clean' => Clean
  BY <1>1 DEF Clean
<1>7. Clean => Clean'
  BY <1>1 DEF Clean, Incomplete
<1>8. DeviceGood' <=> DeviceGood
  BY <1>1 DEF DeviceGood
<1>9. DeviceInv'
  BY <1>1, <1>7, <1>8 DEF PreflightInv, DeviceInv, Judged
<1>10. FoundInv'
  <2>1. SUFFICES ASSUME Clean PROVE Found'
    BY <1>6 DEF FoundInv
  <2>2. Found
    BY <2>1 DEF PreflightInv, FoundInv
  <2>3. /\ env.base /\ env.runtime /\ ProcessGood /\ NetworkGood /\ MountsGood
        /\ MemoryGood /\ DeviceGood /\ AuthorizationErrors(plan, accepted) = {}
    BY <1>1, <2>2 DEF Found, Before, Judged
  <2>4. ProcessGood' /\ NetworkGood' /\ MountsGood' /\ MemoryGood'
    BY <1>1, <2>3 DEF ProcessGood, NetworkGood, MountsGood, MemoryGood
  <2> QED BY <1>1, <1>8, <2>3, <2>4 DEF Found
<1> QED BY <1>4, <1>5, <1>9, <1>10 DEF PreflightInv

LEMMA PreflightInvStep == PreflightInv /\ [Next]_vars => PreflightInv'
<1> SUFFICES ASSUME PreflightInv, [Next]_vars PROVE PreflightInv'
  OBVIOUS
<1>1. CASE Inspect
  BY <1>1, EnvironmentStep, ProcessStep, NetworkStep, MountsStep, CgroupStep, MemoryStep,
     DeviceStep, SealStep DEF Inspect
<1>2. CASE Change \/ UNCHANGED vars
  <2>1. UNCHANGED <<phase, plan, accepted, env, seen, errors>>
    BY <1>2 DEF Change, vars
  <2>2. ShapeInv' /\ DeviceInv' /\ SealedInv'
    BY <2>1 DEF PreflightInv, ShapeInv, DeviceInv, SealedInv, Judged, Clean, DeviceGood,
                Unsatisfied, Other
  <2>3. ProcessGood' = ProcessGood /\ NetworkGood' = NetworkGood /\ MountsGood' = MountsGood
        /\ MemoryGood' = MemoryGood /\ DeviceGood' = DeviceGood
    BY <2>1 DEF ProcessGood, NetworkGood, MountsGood, MemoryGood, DeviceGood
  <2>4. FoundInv'
    BY <2>1, <2>3 DEF PreflightInv, FoundInv, Found, Before, Judged, Clean
  <2> QED BY <2>2, <2>4 DEF PreflightInv
<1> QED BY <1>1, <1>2 DEF Next

-----------------------------------------------------------------------------
(***************************************************************************)
(* The receipt of a physical preflight is READY exactly when all its        *)
(* constraint signals are satisfied, for every plan and however the host    *)
(* changes while it is inspected.                                           *)
(***************************************************************************)
THEOREM JudgementsAgree == Spec => []VerdictMatchesSignals
<1>1. PreflightInv => VerdictMatchesSignals
  <2> SUFFICES ASSUME PreflightInv, phase = "sealed" PROVE errors = {} <=> Unsatisfied = {}
    BY DEF VerdictMatchesSignals
  <2>1. Unsatisfied = {} => Clean
    BY UnfitSignalled DEF PreflightInv, DeviceInv, Judged
  <2> QED BY <2>1 DEF PreflightInv, SealedInv, Clean, Other
<1> QED BY <1>1, PreflightInvInit, PreflightInvStep, PTL DEF Spec

(***************************************************************************)
(* The list of errors overlooks nothing the signals are about: provenance   *)
(* is found incomplete only because the attestation of the image changed    *)
(* between its two readings.                                                *)
(***************************************************************************)
THEOREM OnlyTheRace == Spec => []IncompleteOnlyByRace
<1>1. PreflightInv => IncompleteOnlyByRace
  <2> SUFFICES ASSUME PreflightInv, "incomplete" \in errors PROVE Unsatisfied = {"attestation"}
    BY DEF IncompleteOnlyByRace
  <2>1. phase = "sealed" /\ errors = {"incomplete"} /\ Unsatisfied # {}
    BY DEF PreflightInv, ShapeInv, SealedInv, Other
  <2>2. Judged /\ Found /\ plan \in Plans
    BY <2>1 DEF PreflightInv, ShapeInv, FoundInv, Clean, Judged
  <2> QED BY <2>1, <2>2, FoundSatisfies
<1> QED BY <1>1, PreflightInvInit, PreflightInvStep, PTL DEF Spec

(***************************************************************************)
(* The variables keep their types; the source a receipt names is a commit   *)
(* and tree, or none.                                                       *)
(***************************************************************************)
LEMMA SourceType ==
    ASSUME NEW e, NEW image
    PROVE  VerifiedSource(e, image) \in Sources \cup {NoSource}
<1> DEFINE f == [container |-> e.container, offline |-> e.offline, base |-> e.base,
                 revision |-> e.source \in Sources]
<1>1. ASSUME EnvironmentErrors(e, image, FALSE) = {} PROVE e.source \in Sources
  <2>1. Failed(f) = {}
    BY <1>1 DEF EnvironmentErrors
  <2>2. f["revision"]
    BY <2>1, NoneFailed
  <2> QED BY <2>2
<1> QED BY <1>1 DEF VerifiedSource

THEOREM PreflightTypes == Spec => []TypeOK
<1> DEFINE I == TypeOK /\ "source" \in DOMAIN seen
<1>1. Init => I
  BY PreflightAssumption DEF Init, TypeOK, NothingSeen, Phases
<1>2. I /\ [Next]_vars => I'
  <2> SUFFICES ASSUME I, [Next]_vars PROVE I'
    OBVIOUS
  <2>1. ASSUME NEW from, NEW to \in Phases, NEW what, NEW value, NEW wrong,
               Observe(from, to, what, value, wrong),
               what = "source" => value \in Sources \cup {NoSource}
        PROVE  I'
    BY <2>1 DEF Observe, TypeOK
  <2>2. CASE ReadSource
    BY <2>1, <2>2, SourceType DEF ReadSource, Phases
  <2>3. CASE ReadProcess \/ ReadNetwork \/ ReadMounts \/ ReadCgroup \/ ReadMemory \/ QueryDevice
    <3>1. CASE ReadProcess
      BY <2>1, <3>1 DEF ReadProcess, Phases
    <3>2. CASE ReadNetwork
      BY <2>1, <3>2 DEF ReadNetwork, Phases
    <3>3. CASE ReadMounts
      BY <2>1, <3>3 DEF ReadMounts, Phases
    <3>4. CASE ReadCgroup
      BY <2>1, <3>4 DEF ReadCgroup, Phases
    <3>5. CASE ReadMemory
      BY <2>1, <3>5 DEF ReadMemory, Phases
    <3>6. CASE QueryDevice
      BY <2>1, <3>6 DEF QueryDevice, Phases
    <3> QED BY <2>3, <3>1, <3>2, <3>3, <3>4, <3>5, <3>6
  <2>4. CASE ReadEnvironment \/ SkipDevice \/ Seal
    BY <2>4 DEF ReadEnvironment, SkipDevice, Seal, TypeOK, Phases
  <2>5. CASE Change
    BY <2>5, PreflightAssumption DEF Change, TypeOK
  <2>6. CASE UNCHANGED vars
    BY <2>6 DEF vars, TypeOK
  <2> QED BY <2>2, <2>3, <2>4, <2>5, <2>6 DEF Next, Inspect
<1>3. I => TypeOK
  OBVIOUS
<1> QED BY <1>1, <1>2, <1>3, PTL DEF Spec

-----------------------------------------------------------------------------
(***************************************************************************)
(* What the policy about mounts says of any path.  A path is looked up in   *)
(* the newest of the mounts at or above it; a mount above a path outside    *)
(* the output is not below the output itself.                               *)
(***************************************************************************)
LEMMA PrefixEntries ==
    ASSUME NEW S, NEW s \in Seq(S), NEW T, NEW t \in Seq(T)
    PROVE  IsPrefix(s, t) <=> Len(s) <= Len(t) /\ \A i \in 1 .. Len(s) : s[i] = t[i]
<1>1. ASSUME Len(s) <= Len(t)
      PROVE  /\ SubSeq(s, 1, Len(s)) = [i \in 1 .. Len(s) |-> s[i]]
             /\ SubSeq(t, 1, Len(s)) = [i \in 1 .. Len(s) |-> t[i]]
  BY <1>1
<1> QED BY <1>1 DEF IsPrefix

LEMMA PrefixOfPrefix ==
    ASSUME NEW R, NEW r \in Seq(R), NEW S, NEW s \in Seq(S), NEW T, NEW t \in Seq(T),
           IsPrefix(r, s), IsPrefix(s, t)
    PROVE  IsPrefix(r, t)
BY PrefixEntries

(***************************************************************************)
(* The newest mount of some is one of them.                                 *)
(***************************************************************************)
LEMMA NewestIndex ==
    ASSUME NEW n \in Nat, NEW I \in SUBSET (1 .. n), I # {}
    PROVE  Max(I) \in I
<1> DEFINE fromTop == {k \in Nat : n - k \in I}
<1>1. PICK i \in I : TRUE
  OBVIOUS
<1>2. n - i \in fromTop
  BY <1>1
<1>3. PICK k \in fromTop : \A j \in fromTop : ~(<<j, k>> \in OpToRel(<, Nat))
  BY <1>2, WFMin, NatLessThanWellFounded
<1>4. ASSUME NEW j \in fromTop PROVE k <= j
  <2>1. j \in Nat /\ k \in Nat
    OBVIOUS
  <2>2. ~(<<j, k>> \in {ss \in Nat \X Nat : ss[1] < ss[2]})
    BY <1>3 DEF OpToRel
  <2> QED BY <2>1, <2>2
<1>5. \A y \in I : n - k >= y
  <2> TAKE y \in I
  <2>1. n - y \in fromTop /\ k \in Nat /\ y \in Nat
    OBVIOUS
  <2>2. k <= n - y
    BY <1>4, <2>1
  <2> QED BY <2>1, <2>2
<1>6. n - k \in I
  BY <1>3
<1> QED BY <1>5, <1>6 DEF Max

LEMMA LookedUpIn ==
    ASSUME NEW table \in Seq(Mount), NEW path, Mounted(table, path)
    PROVE  \E i \in DOMAIN table :
               IsPrefix(table[i].path, path) /\ Visible(table, path) = table[i]
<1> DEFINE at == {i \in 1 .. Len(table) : IsPrefix(table[i].path, path)}
<1>1. at # {} /\ Len(table) \in Nat /\ DOMAIN table = 1 .. Len(table)
  BY DEF Mounted
<1>2. Max(at) \in at
  BY <1>1, NewestIndex
<1>3. Visible(table, path) = table[Max(at)]
  BY <1>1 DEF Visible, SelectLastInSeq
<1> QED BY <1>1, <1>2, <1>3

LEMMA PolicyProtects ==
    ASSUME NEW c, c.mounts \in Seq(Mount), Failed(ForgeMountPolicy(c)) = {},
           NEW path \in Seq(STRING), Protected(path), Mounted(c.mounts, path)
    PROVE  Visible(c.mounts, path).ro
<1> DEFINE policy == ForgeMountPolicy(c)
<1>1. policy["no_unexpected_writable_mounts"]
  <2>1. "no_unexpected_writable_mounts" \in DOMAIN policy
    BY DEF ForgeMountPolicy
  <2> HIDE DEF policy
  <2> QED BY <2>1, NoneFailed DEF policy
<1>2. \A i \in DOMAIN c.mounts : c.mounts[i].ro \/ AllowedWritableMount(c.mounts[i])
  BY <1>1 DEF ForgeMountPolicy
<1>3. PICK i \in DOMAIN c.mounts :
          IsPrefix(c.mounts[i].path, path) /\ Visible(c.mounts, path) = c.mounts[i]
  BY LookedUpIn
<1> DEFINE m == c.mounts[i]
<1>4. m \in Mount
  OBVIOUS
<1>5. m.path \in Seq(STRING) /\ OutputPath \in Seq({"forge", "output"})
  <2>1. m.path \in Seq(STRING)
    BY <1>4 DEF Mount
  <2>2. <<"forge">> \in Seq({"forge", "output"}) /\ <<"output">> \in Seq({"forge", "output"})
    OBVIOUS
  <2>3. <<"forge">> \o <<"output">> \in Seq({"forge", "output"})
    BY <2>2
  <2> QED BY <2>1, <2>3 DEF OutputPath, Forge
<1>6. ~IsPrefix(OutputPath, m.path)
  BY <1>3, <1>5, PrefixOfPrefix DEF Protected
<1>7. <<m.path, m.fs>> \notin RuntimeMounts
  <2>1. \A r \in RuntimeMounts : ~IsPrefix(r[1], path)
    BY DEF Protected
  <2>2. ASSUME NEW p, NEW fs, <<p, fs>> \in RuntimeMounts PROVE ~IsPrefix(p, path)
    BY <2>1, <2>2
  <2> QED BY <1>3, <2>2
<1>8. ~AllowedWritableMount(m)
  BY <1>6, <1>7 DEF AllowedWritableMount
<1> QED BY <1>2, <1>3, <1>8

LEMMA PolicyOpensOutput ==
    ASSUME NEW c, Failed(ForgeMountPolicy(c)) = {}
    PROVE  ~Visible(c.mounts, OutputPath).ro
<1> DEFINE policy == ForgeMountPolicy(c)
<1>1. policy["output_process_writable"]
  <2>1. "output_process_writable" \in DOMAIN policy
    BY DEF ForgeMountPolicy
  <2> HIDE DEF policy
  <2> QED BY <2>1, NoneFailed DEF policy
<1> QED BY <1>1 DEF ForgeMountPolicy, OutputPathProcessWritable

LEMMA StricterUser ==
    ASSUME NEW p, NEW c, NEW exact, RuntimeSandboxErrors(p, c, exact) = {}
    PROVE  /\ c.user = ForgeUser /\ c.capabilities = {} /\ c.noNewPrivs /\ SeccompFilter(c)
           /\ RootIsReadOnly(c.mounts) /\ c.route = "none" /\ OnlyLoopback(c)
           /\ WithinHostBounds(p, CgroupLimits(c.cgroup))
           /\ Failed(ForgeMountPolicy(c)) = {} /\ LimitErrors(CgroupLimits(c.cgroup)) = {}
<1> DEFINE l == CgroupLimits(c.cgroup)
           f == [user |-> c.user = ForgeUser,
                 capabilities |-> c.capabilities = {},
                 privileges |-> c.noNewPrivs,
                 seccomp |-> SeccompFilter(c),
                 root |-> RootIsReadOnly(c.mounts),
                 route |-> c.route = "none",
                 interfaces |-> OnlyLoopback(c),
                 output |-> exact,
                 memory |-> WithinHostBounds(p, l),
                 unused |-> SwapUnused(c.memory)]
<1>1. Failed(f) = {} /\ Failed(ForgeMountPolicy(c)) = {} /\ LimitErrors(l) = {}
  BY DEF RuntimeSandboxErrors
<1>2. /\ f["user"] /\ f["capabilities"] /\ f["privileges"] /\ f["seccomp"] /\ f["root"]
      /\ f["route"] /\ f["interfaces"] /\ f["memory"]
  <2>1. DOMAIN f = {"user", "capabilities", "privileges", "seccomp", "root", "route", "interfaces",
                    "output", "memory", "unused"}
    OBVIOUS
  <2> HIDE DEF f
  <2> QED BY <1>1, <2>1, NoneFailed
<1> HIDE DEF l
<1>3. c.user = ForgeUser /\ c.capabilities = {} /\ c.noNewPrivs
  BY <1>2
<1>4. SeccompFilter(c) /\ RootIsReadOnly(c.mounts) /\ c.route = "none" /\ OnlyLoopback(c)
  BY <1>2
<1>5. WithinHostBounds(p, l)
  BY <1>2
<1> QED BY <1>1, <1>3, <1>4, <1>5 DEF l

LEMMA StricterLane ==
    ASSUME NEW p \in Plans, NEW c \in Hosts, NEW e, "base" \in DOMAIN e,
           RuntimeSandboxErrors(p, c, TRUE) = {}
    PROVE  /\ SandboxSatisfied([e EXCEPT !.base = TRUE], Process(c), Network(c),
                                ForgeMountPolicy(c), CgroupLimits(c.cgroup))
           /\ Network(c).offline /\ Network(c).loopback
           /\ "limit" \notin HostMemoryErrors(p, c.memory, CgroupLimits(c.cgroup))
<1> DEFINE l == CgroupLimits(c.cgroup)
           policy == ForgeMountPolicy(c)
           process == Process(c)
           network == Network(c)
<1>1. process.user /\ process.empty /\ process.privileges /\ process.filter
  <2>1. c.user # Root /\ c.capabilities = {} /\ c.noNewPrivs /\ SeccompFilter(c)
    BY StricterUser, PreflightAssumption
  <2> QED BY <2>1 DEF Process
<1>2. network.root /\ network.offline /\ network.loopback
  BY StricterUser DEF Network
<1>3. [e EXCEPT !.base = TRUE].base
  OBVIOUS
<1>4. Failed(policy) = {} /\ LimitErrors(l) = {} /\ WithinHostBounds(p, l)
  BY StricterUser
<1>5. "limit" \notin HostMemoryErrors(p, c.memory, l)
  <2> DEFINE ceiling == p.ceiling["host"]
             short(n) == IsPositive(ceiling) /\ n < ceiling
             f == [unused |-> SwapUnused(c.memory),
                   total |-> IsPositive(c.memory.total) /\ ~short(c.memory.total),
                   domain |-> IsPositive(c.memory.total) /\ IsPositive(Capacity(p, "host-ram")) =>
                                 Near(c.memory.total, Capacity(p, "host-ram"), HostTolerance),
                   available |-> IsPositive(c.memory.available) /\ ~short(c.memory.available),
                   limit |-> IsPositive(l.limit) /\ ~short(l.limit),
                   free |-> Free(l) \in Nat /\ ~short(Free(l))]
  <2> HIDE DEF l
  <2>1. IsPositive(l.limit) /\ ~short(l.limit)
    BY <1>4 DEF WithinHostBounds, IsPositive
  <2> HIDE DEF short
  <2>2. f["limit"]
    BY <2>1
  <2>3. "limit" \notin Failed(f)
    BY <2>2 DEF Failed
  <2>4. HostMemoryErrors(p, c.memory, l) = Failed(f) \cup LimitErrors(l)
    BY DEF HostMemoryErrors, short
  <2> QED BY <1>4, <2>3, <2>4
<1> HIDE DEF l, policy, process, network
<1>6. SandboxSatisfied([e EXCEPT !.base = TRUE], process, network, policy, l)
  BY <1>1, <1>2, <1>3, <1>4 DEF SandboxSatisfied
<1> QED BY <1>2, <1>5, <1>6 DEF l, policy, process, network

(***************************************************************************)
(* What was observed of the mounts is the table of some host, and what the  *)
(* policy said of that.                                                     *)
(***************************************************************************)
TableInv ==
    /\ host \in Hosts /\ "base" \in DOMAIN env
    /\ phase \notin Before("cgroup") => \E h \in Hosts : seen.mounts = Mounts(h)

LEMMA TableInit == Init => TableInv
BY PreflightAssumption DEF Init, TableInv, Before

LEMMA TableStep == PreflightInv /\ TableInv /\ [Next]_vars => TableInv'
<1> SUFFICES ASSUME PreflightInv, TableInv, [Next]_vars PROVE TableInv'
  OBVIOUS
<1>1. host' \in Hosts /\ env' = env
  BY DEF TableInv, Next, vars, Inspect, Observe, Change, ReadEnvironment, ReadSource, ReadProcess,
         ReadNetwork, ReadMounts, ReadCgroup, ReadMemory, QueryDevice, SkipDevice, Seal
<1>2. ASSUME NEW from, NEW to, NEW what \in DOMAIN seen \ {"mounts"}, NEW value, NEW wrong,
             Observe(from, to, what, value, wrong),
             to \notin Before("cgroup") => from \notin Before("cgroup")
      PROVE  phase' \notin Before("cgroup") => \E h \in Hosts : seen'.mounts = Mounts(h)
  <2>1. phase = from /\ phase' = to /\ seen'.mounts = seen.mounts
    BY <1>2 DEF Observe, PreflightInv, ShapeInv
  <2> QED BY <1>2, <2>1 DEF TableInv
<1>3. phase' \notin Before("cgroup") => \E h \in Hosts : seen'.mounts = Mounts(h)
  <2> USE DEF PreflightInv, ShapeInv
  <2>1. CASE ReadMounts
    <3>1. seen'.mounts = Mounts(host)
      BY <2>1 DEF ReadMounts, Observe
    <3> QED BY <3>1 DEF TableInv
  <2>2. CASE ReadSource
    BY <1>2, <2>2 DEF ReadSource, Before
  <2>3. CASE ReadProcess
    BY <1>2, <2>3 DEF ReadProcess, Before
  <2>4. CASE ReadNetwork
    BY <1>2, <2>4 DEF ReadNetwork, Before
  <2>5. CASE ReadCgroup
    BY <1>2, <2>5 DEF ReadCgroup, Before
  <2>6. CASE ReadMemory
    BY <1>2, <2>6 DEF ReadMemory, Before
  <2>7. CASE QueryDevice
    BY <1>2, <2>7 DEF QueryDevice, Before
  <2>8. CASE ReadEnvironment \/ SkipDevice \/ Seal
    BY <2>8 DEF ReadEnvironment, SkipDevice, Seal, Before, TableInv
  <2>9. CASE Change \/ UNCHANGED vars
    BY <2>9 DEF Change, vars, TableInv
  <2> QED BY <2>1, <2>2, <2>3, <2>4, <2>5, <2>6, <2>7, <2>8, <2>9 DEF Next, Inspect
<1> QED BY <1>1, <1>3 DEF TableInv

(***************************************************************************)
(* A READY container could not write, when its mounts were read, anywhere   *)
(* but below its output and where the runtime mounts for itself: whatever   *)
(* the table of mounts, and for any set of paths                            *)
(* (model_forge.py, lines 2015 to 2096).                                    *)
(***************************************************************************)
THEOREM ReadyIsReadOnly == Spec => []InputsUnwritable
<1>1. PreflightInv /\ TableInv => InputsUnwritable
  <2> SUFFICES ASSUME PreflightInv, TableInv, phase = "sealed", errors = {}
               PROVE  /\ ~Visible(seen.mounts.table, OutputPath).ro
                      /\ \A path \in Paths :
                             Protected(path) /\ Mounted(seen.mounts.table, path)
                                => Visible(seen.mounts.table, path).ro
    BY DEF InputsUnwritable
  <2>1. phase \notin Before("cgroup")
    BY DEF Before
  <2>2. Failed(seen.mounts.policy) = {}
    BY <2>1 DEF PreflightInv, FoundInv, Clean, Found, MountsGood
  <2>3. PICK h \in Hosts : seen.mounts = Mounts(h)
    BY <2>1 DEF TableInv
  <2>4. seen.mounts.table = h.mounts /\ Failed(ForgeMountPolicy(h)) = {}
    BY <2>2, <2>3 DEF Mounts
  <2>5. h.mounts \in Seq(Mount) /\ Paths \subseteq Seq(STRING)
    BY PreflightAssumption
  <2> QED BY <2>4, <2>5, PolicyProtects, PolicyOpensOutput
<1> QED BY <1>1, PreflightInvInit, PreflightInvStep, TableInit, TableStep, PTL DEF Spec

(***************************************************************************)
(* Where simulate would emit evidence, nothing the preflight requires of    *)
(* the isolation of the container is missing, for every plan, host and      *)
(* environment (model_forge.py, lines 2173 to 2243 and 2282 to 2540).       *)
(***************************************************************************)
THEOREM LanesAgree == Spec => []SimulationLaneIsStricter
<1>1. PreflightInv /\ TableInv => SimulationLaneIsStricter
  BY StricterLane DEF PreflightInv, ShapeInv, TableInv, SimulationLaneIsStricter
<1> QED BY <1>1, PreflightInvInit, PreflightInvStep, TableInit, TableStep, PTL DEF Spec
=============================================================================
