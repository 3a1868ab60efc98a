--------------------------- MODULE CtaParse_proofs ---------------------------
(***************************************************************************)
(* Proofs about the extension block controller, for every choice of the   *)
(* offered byte values and of the allocator's behaviour.                   *)
(***************************************************************************)
EXTENDS CtaParse, TLAPS

\* What a data block decoder can report: complaints it adds never include
\* the offset mismatch, which only the controller adds.
OutcomeSet == [res : {"accept", "skip", "error"}, allocs : Nat,
               cmpl : SUBSET {"InfoFrameOverrun"}]

\* The inductive invariant.  The bounds on i, dtd_start and the counts are
\* what the capacity asserts and the offset check rest on: every stored
\* block consumed at least one byte of [4, dtd_start), and every stored DTD
\* 18 bytes of [dtd_start, 127).
IInv ==
    /\ TypeOK
    /\ "OffsetMismatch" \notin log
    /\ phase = "Header" => nblocks = 0 /\ ndtds = 0 /\ hiRead = -1
    /\ phase = "DataBlocks" =>
         /\ CtaHeaderSize <= i /\ i <= dtdStart /\ dtdStart < BufferSize
         /\ nblocks <= i - CtaHeaderSize
         /\ ndtds = 0
         /\ hiRead < i
    /\ phase = "TimingDefs" =>
         /\ CtaHeaderSize <= dtdStart /\ dtdStart <= i /\ i <= CtaDtdEnd
         /\ nblocks <= dtdStart - CtaHeaderSize
         /\ ndtds * DescriptorSize <= i - dtdStart
         /\ hiRead < BufferSize
    /\ phase \in {"Done", "Failed"} => CapacityBounds /\ hiRead < BufferSize
    /\ phase \in {"Header", "Failed"} =>
         heap.blocks = 0 /\ heap.subs = 0 /\ heap.dtds = 0

-----------------------------------------------------------------------------
(* Every outcome of a decoder is well formed.                              *)

LEMMA OutcomeBuilders ==
    ASSUME NEW s \in Nat, NEW t \in Nat
    PROVE  /\ Accept(s) \in OutcomeSet
           /\ Skip(t, {}) \in OutcomeSet
           /\ Skip(t, {"InfoFrameOverrun"}) \in OutcomeSet
           /\ Error(t) \in OutcomeSet
BY DEF Accept, Skip, Error, Outcome, OutcomeSet

LEMMA ExtendedTyped ==
    ASSUME NEW e \in 0..255, NEW n \in 0..30
    PROVE  ExtendedBlock(e, n) \subseteq OutcomeSet
<1>1. /\ VideoCapBlock(n) \subseteq OutcomeSet
      /\ ColorimetryBlock(n) \subseteq OutcomeSet
      /\ HdrStaticBlock(n) \subseteq OutcomeSet
      /\ CapMapBlock(n) \subseteq OutcomeSet
      /\ VesaDddbBlock(n) \subseteq OutcomeSet
      /\ HdrDynamicBlock(n) \subseteq OutcomeSet
      /\ SvdBlock(n) \subseteq OutcomeSet
      /\ {Accept(0)} \subseteq OutcomeSet
      /\ {Skip(0, {})} \subseteq OutcomeSet
  BY OutcomeBuilders DEF VideoCapBlock, ColorimetryBlock, HdrStaticBlock,
     CapMapBlock, VesaDddbBlock, HdrDynamicBlock, SvdBlock
<1>2. InfoFrameBlock(n) \subseteq OutcomeSet
  BY OutcomeBuilders DEF InfoFrameBlock
<1>3. QED
  BY <1>1, <1>2 DEF ExtendedBlock

LEMMA OutcomeTyped ==
    ASSUME NEW t \in 0..7, NEW n \in 0..31
    PROVE  ParseDataBlock(t, n) \subseteq OutcomeSet
<1>1. /\ AudioBlock(n) \subseteq OutcomeSet
      /\ SvdBlock(n) \subseteq OutcomeSet
      /\ SpeakerAllocBlock(n) \subseteq OutcomeSet
      /\ VtcBlock(n) \subseteq OutcomeSet
      /\ {Accept(0)} \subseteq OutcomeSet
      /\ {Skip(0, {})} \subseteq OutcomeSet
      /\ {Error(0)} \subseteq OutcomeSet
  BY OutcomeBuilders DEF AudioBlock, SvdBlock, SpeakerAllocBlock, VtcBlock
<1>2. n >= 1 => UNION {ExtendedBlock(e, n - 1) : e \in ExtTagValues}
                  \subseteq OutcomeSet
  BY ExtendedTyped, ConstAssumption
<1>3. QED
  BY <1>1, <1>2 DEF ParseDataBlock

\* The sub-records an exit of parse_data_block leaks are a count.
LEMMA LeakedNat ==
    ASSUME NEW o \in OutcomeSet
    PROVE  Leaked(o) \in Nat
BY DEF Leaked, DestroyDataBlock, UnsetTag, Tag, OutcomeSet

\* Freeing the stored records keeps the heap well formed.
LEMMA FinishTyped ==
    ASSUME heap \in [blocks : Nat, subs : Nat, dtds : Nat, strays : Nat],
           Finish
    PROVE  /\ heap' \in [blocks : Nat, subs : Nat, dtds : Nat, strays : Nat]
           /\ heap'.blocks = 0 /\ heap'.subs = 0 /\ heap'.dtds = 0
BY DEF Finish

\* Storing a data block with its sub-records keeps the heap well formed.
LEMMA HeapStore ==
    ASSUME NEW h \in [blocks : Nat, subs : Nat, dtds : Nat, strays : Nat],
           NEW k \in Nat
    PROVE  [h EXCEPT !.blocks = @ + 1, !.subs = @ + k]
             \in [blocks : Nat, subs : Nat, dtds : Nat, strays : Nat]
<1> DEFINE r == [h EXCEPT !.blocks = @ + 1, !.subs = @ + k]
<1>1. r = [f \in DOMAIN h |-> r[f]] /\ DOMAIN h = {"blocks", "subs", "dtds", "strays"}
  OBVIOUS
<1>2. r.blocks \in Nat /\ r.subs \in Nat /\ r.dtds \in Nat /\ r.strays \in Nat
  OBVIOUS
<1>3. QED
  BY <1>1, <1>2

\* Recording leaked sub-records keeps the heap well formed.
LEMMA HeapLeak ==
    ASSUME NEW h \in [blocks : Nat, subs : Nat, dtds : Nat, strays : Nat],
           NEW k \in Nat
    PROVE  [h EXCEPT !.strays = @ + k]
             \in [blocks : Nat, subs : Nat, dtds : Nat, strays : Nat]
<1> DEFINE r == [h EXCEPT !.strays = @ + k]
<1>1. r = [f \in DOMAIN h |-> r[f]] /\ DOMAIN h = {"blocks", "subs", "dtds", "strays"}
  OBVIOUS
<1>2. r.blocks \in Nat /\ r.subs \in Nat /\ r.dtds \in Nat /\ r.strays \in Nat
  OBVIOUS
<1>3. QED
  BY <1>1, <1>2

\* The DTDs stored between dtd_start and byte 127 are at most six.
LEMMA DtdBound ==
    ASSUME NEW n \in Nat, NEW d \in Int, NEW j \in Int,
           CtaHeaderSize <= d, j <= CtaDtdEnd, n * DescriptorSize <= j - d
    PROVE  n <= MaxDtds /\ d - CtaHeaderSize <= MaxDataBlocks
BY DEF CtaHeaderSize, CtaDtdEnd, DescriptorSize, MaxDtds, MaxDataBlocks

-----------------------------------------------------------------------------
(* The invariant is inductive.                                             *)

LEMMA InitIInv == Init => IInv
BY DEF Init, IInv, TypeOK, Phases, BufferSize, Complaints

LEMMA NextIInv == IInv /\ [Next]_vars => IInv'
<1> SUFFICES ASSUME IInv, [Next]_vars PROVE IInv'
  OBVIOUS
<1> USE ConstAssumption DEF IInv, TypeOK, Phases, CapacityBounds, MaxOf,
        BufferSize, CtaHeaderSize, CtaDtdEnd, DescriptorSize, MaxDataBlocks,
        MaxDtds, Complaints
<1>1. CASE Header
  BY <1>1 DEF Header, DtdStartInvalid
<1>2. CASE DataBlockOverrun
  <2>1. /\ phase = "DataBlocks" /\ i < dtdStart /\ Finish
        /\ phase' = "Failed" /\ hiRead' = MaxOf(hiRead, i)
        /\ UNCHANGED <<dtdStart, i, nblocks, ndtds, log>>
    BY <1>2 DEF DataBlockOverrun
  <2>2. heap' \in [blocks : Nat, subs : Nat, dtds : Nat, strays : Nat]
    BY <2>1, FinishTyped
  <2>3. CapacityBounds' /\ hiRead' < BufferSize
        /\ hiRead' \in -1..(BufferSize + 255)
    BY <2>1
  <2>5. heap'.blocks = 0 /\ heap'.subs = 0 /\ heap'.dtds = 0
    BY <2>1, FinishTyped
  <2>4. QED
    BY <2>1, <2>2, <2>3, <2>5
<1>3. CASE DataBlock
  <2>1. PICK tag \in 0..7, size \in BlockSizes :
          /\ BlockFits(size)
          /\ hiRead' = MaxOf(hiRead, i + size)
          /\ \E o \in ParseDataBlock(tag, size) :
               /\ log' = log \cup o.cmpl
               /\ \/ /\ o.res = "accept"
                     /\ nblocks' = nblocks + 1
                     /\ heap' = [heap EXCEPT !.blocks = @ + 1,
                                             !.subs = @ + o.allocs]
                     /\ i' = i + 1 + size
                     /\ UNCHANGED phase
                  \/ /\ o.res = "skip"
                     /\ heap' = [heap EXCEPT !.strays = @ + Leaked(o)]
                     /\ i' = i + 1 + size
                     /\ UNCHANGED <<phase, nblocks>>
                  \/ /\ o.res = "error"
                     /\ heap' = [blocks |-> 0, subs |-> 0, dtds |-> 0,
                                 strays |-> heap.strays + Leaked(o)]
                     /\ phase' = "Failed"
                     /\ UNCHANGED <<i, nblocks>>
    BY <1>3 DEF DataBlock
  <2>2. PICK o \in ParseDataBlock(tag, size) :
               /\ log' = log \cup o.cmpl
               /\ \/ /\ o.res = "accept"
                     /\ nblocks' = nblocks + 1
                     /\ heap' = [heap EXCEPT !.blocks = @ + 1,
                                             !.subs = @ + o.allocs]
                     /\ i' = i + 1 + size
                     /\ UNCHANGED phase
                  \/ /\ o.res = "skip"
                     /\ heap' = [heap EXCEPT !.strays = @ + Leaked(o)]
                     /\ i' = i + 1 + size
                     /\ UNCHANGED <<phase, nblocks>>
                  \/ /\ o.res = "error"
                     /\ heap' = [blocks |-> 0, subs |-> 0, dtds |-> 0,
                                 strays |-> heap.strays + Leaked(o)]
                     /\ phase' = "Failed"
                     /\ UNCHANGED <<i, nblocks>>
    BY <2>1
  <2>3. o \in OutcomeSet
    BY OutcomeTyped, <2>2
  <2>4. /\ phase = "DataBlocks"
        /\ UNCHANGED <<dtdStart, ndtds>>
        /\ size \in 0..31
        /\ i + 1 + size <= dtdStart
    BY <1>3, <2>1 DEF DataBlock, BlockFits
  <2>5. "OffsetMismatch" \notin log'
    BY <2>2, <2>3 DEF OutcomeSet
  <2>13. hiRead' = MaxOf(hiRead, i + size)
    BY <2>1
  <2>14. hiRead < i /\ i \in 0..BufferSize /\ hiRead \in -1..(BufferSize + 255)
    BY <2>4
  <2>11. hiRead' < i + 1 + size /\ hiRead' \in -1..(BufferSize + 255)
    BY <2>4, <2>13, <2>14
  <2>12. log' \subseteq Complaints
    BY <2>2, <2>3 DEF OutcomeSet
  <2>6. /\ hiRead' < i + 1 + size /\ hiRead' \in -1..(BufferSize + 255)
        /\ log' \subseteq Complaints
    BY <2>11, <2>12
  <2>7. CASE o.res = "accept"
    <3>1. /\ nblocks' = nblocks + 1 /\ i' = i + 1 + size /\ phase' = phase
          /\ heap' = [heap EXCEPT !.blocks = @ + 1, !.subs = @ + o.allocs]
      BY <2>2, <2>7
    <3>4. o.allocs \in Nat
      BY <2>3 DEF OutcomeSet
    <3>2. heap' \in [blocks : Nat, subs : Nat, dtds : Nat, strays : Nat]
      BY <3>1, <3>4, HeapStore
    <3>3. QED
      BY <2>4, <2>5, <2>6, <3>1, <3>2
  <2>8. CASE o.res = "skip"
    <3>1. /\ nblocks' = nblocks /\ i' = i + 1 + size /\ phase' = phase
          /\ heap' = [heap EXCEPT !.strays = @ + Leaked(o)]
      BY <2>2, <2>8
    <3>4. Leaked(o) \in Nat
      BY <2>3, LeakedNat
    <3>2. heap' \in [blocks : Nat, subs : Nat, dtds : Nat, strays : Nat]
      BY <3>1, <3>4, HeapLeak
    <3>5. nblocks' <= i' - CtaHeaderSize /\ i' <= dtdStart'
      BY <2>4, <3>1
    <3>3. QED
      BY <2>4, <2>5, <2>6, <3>1, <3>2, <3>5
  <2>9. CASE o.res = "error"
    <3>1. /\ nblocks' = nblocks /\ i' = i /\ phase' = "Failed"
          /\ heap' = [blocks |-> 0, subs |-> 0, dtds |-> 0,
                       strays |-> heap.strays + Leaked(o)]
      BY <2>2, <2>9
    <3>2. heap' \in [blocks : Nat, subs : Nat, dtds : Nat, strays : Nat]
      BY <3>1, <2>3, LeakedNat
    <3>3. QED
      BY <2>4, <2>5, <2>6, <3>1, <3>2
  <2>10. QED
    BY <2>3, <2>7, <2>8, <2>9 DEF OutcomeSet
<1>4. CASE DataBlocksEnd
  BY <1>4 DEF DataBlocksEnd
<1>5. CASE TimingDef
  <2>1. /\ phase = "TimingDefs"
        /\ i + DescriptorSize <= CtaDtdEnd
        /\ hiRead' = MaxOf(hiRead, i + DescriptorSize - 1)
        /\ UNCHANGED <<dtdStart, nblocks, log>>
    BY <1>5 DEF TimingDef, DtdFits
  <2>2. CASE /\ ndtds' = ndtds + 1
             /\ heap' = [heap EXCEPT !.dtds = @ + 1]
             /\ i' = i + DescriptorSize
             /\ UNCHANGED phase
    <3>1. heap' \in [blocks : Nat, subs : Nat, dtds : Nat, strays : Nat]
      BY <2>2
    <3>5. ndtds \in Nat /\ ndtds * 18 <= i - dtdStart
      BY <2>1
    <3>6. ndtds' * 18 = ndtds * 18 + 18
      BY <2>2, <3>5
    <3>7. dtdStart' = dtdStart /\ i' = i + 18
      BY <2>1, <2>2
    <3>2. ndtds' * DescriptorSize <= i' - dtdStart'
      BY <3>5, <3>6, <3>7
    <3>3. hiRead' < BufferSize /\ hiRead' \in -1..(BufferSize + 255)
      BY <2>1
    <3>10. phase' = "TimingDefs"
      BY <2>1, <2>2
    <3>11. ndtds' \in Nat /\ i' \in 0..BufferSize
      BY <2>1, <2>2, <3>5, <3>7
    <3>12. CtaHeaderSize <= dtdStart' /\ dtdStart' <= i' /\ i' <= CtaDtdEnd
      BY <2>1, <3>7
    <3>13. nblocks' <= dtdStart' - CtaHeaderSize
      BY <2>1, <3>7
    <3>8. phase' = "TimingDefs" /\ ndtds' \in Nat /\ i' \in 0..BufferSize
          /\ CtaHeaderSize <= dtdStart' /\ dtdStart' <= i' /\ i' <= CtaDtdEnd
          /\ nblocks' <= dtdStart' - CtaHeaderSize
      BY <3>10, <3>11, <3>12, <3>13
    <3>9. TypeOK'
      BY <2>1, <3>1, <3>3, <3>8
    <3>4. QED
      BY <2>1, <3>2, <3>3, <3>8, <3>9
  <2>3. CASE /\ Finish
             /\ phase' = "Failed"
             /\ UNCHANGED <<i, ndtds>>
    <3>1. heap' \in [blocks : Nat, subs : Nat, dtds : Nat, strays : Nat]
      BY <2>3, FinishTyped
    <3>2. phase' = "Failed" /\ i' = i /\ ndtds' = ndtds /\ nblocks' = nblocks
          /\ dtdStart' = dtdStart /\ log' = log
      BY <2>1, <2>3
    <3>3. CapacityBounds'
      BY <2>1, <3>2, DtdBound
    <3>4. hiRead' < BufferSize /\ hiRead' \in -1..(BufferSize + 255)
      BY <2>1
    <3>6. heap'.blocks = 0 /\ heap'.subs = 0 /\ heap'.dtds = 0
      BY <2>3, FinishTyped
    <3>5. QED
      BY <3>1, <3>2, <3>3, <3>4, <3>6
  <2>4. QED
    BY <1>5, <2>2, <2>3 DEF TimingDef
<1>6. CASE TimingDefsEnd
  <2>1. /\ phase = "TimingDefs"
        /\ phase' = "Done"
        /\ UNCHANGED <<dtdStart, i, nblocks, ndtds, heap, log>>
        /\ hiRead' < BufferSize
        /\ hiRead' \in -1..(BufferSize + 255)
    BY <1>6 DEF TimingDefsEnd
  <2>2. QED
    BY <2>1
<1>7. CASE UNCHANGED vars
  BY <1>7 DEF vars
<1>8. QED
  BY <1>1, <1>2, <1>3, <1>4, <1>5, <1>6, <1>7 DEF Next

LEMMA IInvSafe ==
    IInv => /\ TypeOK /\ ReadsWithinRegions /\ NoOffsetMismatch
            /\ CapacityBounds /\ FailureReleasesRecords
BY DEF IInv, TypeOK, Phases, ReadsWithinRegions, NoOffsetMismatch,
       FailureReleasesRecords,
       CapacityBounds, MaxDataBlocks, MaxDtds, BufferSize, CtaHeaderSize, CtaDtdEnd,
       DescriptorSize

-----------------------------------------------------------------------------
(* The theorems.                                                           *)

\* Every state of the parse is well typed.
THEOREM TypeCorrect == Spec => []TypeOK
BY InitIInv, NextIInv, IInvSafe, PTL DEF Spec

\* The parse reads only inside the 128-byte buffer, and the data block loop
\* never reads into the DTD region (cta.c:1455, cta.c:1466).
THEOREM ReadsStayInRegions == Spec => []ReadsWithinRegions
BY InitIInv, NextIInv, IInvSafe, PTL DEF Spec

\* The offset mismatch complaint of cta.c:1481 is dead code.
THEOREM OffsetAlwaysMatches == Spec => []NoOffsetMismatch
BY InitIInv, NextIInv, IInvSafe, PTL DEF Spec

\* The asserts of cta.c:1411 and cta.c:1495 never fail.
THEOREM CapacityNeverExceeded == Spec => []CapacityBounds
BY InitIInv, NextIInv, IInvSafe, PTL DEF Spec

\* A parse that fails holds no data block, sub-record or DTD: every exit to
\* failure (cta.c:1467, 1474, 1420, 1492) frees what was stored.
THEOREM FailureFreesAll == Spec => []FailureReleasesRecords
BY InitIInv, NextIInv, IInvSafe, PTL DEF Spec

-----------------------------------------------------------------------------
(* The records are released only by a failing exit.                       *)

\* Every step either keeps the stored records or frees all of them and
\* fails; it needs only the heap to be well formed.
LEMMA StepReleases ==
    ASSUME TypeOK, [Next]_vars
    PROVE  \/ RecordsKept
           \/ /\ phase' = "Failed"
              /\ heap'.blocks = 0 /\ heap'.subs = 0 /\ heap'.dtds = 0
<1>0. heap \in [blocks : Nat, subs : Nat, dtds : Nat, strays : Nat]
  BY DEF TypeOK
<1>1. CASE Header \/ DataBlocksEnd \/ TimingDefsEnd \/ UNCHANGED vars
  <2>1. heap' = heap
    BY <1>1 DEF Header, DataBlocksEnd, TimingDefsEnd, vars
  <2> QED BY <2>1, <1>0 DEF RecordsKept
<1>2. CASE DataBlockOverrun
  BY <1>2, <1>0, FinishTyped DEF DataBlockOverrun
<1>3. CASE DataBlock
  <2>1. PICK tag \in 0..7, size \in BlockSizes :
          \E o \in ParseDataBlock(tag, size) :
             \/ /\ heap' = [heap EXCEPT !.blocks = @ + 1, !.subs = @ + o.allocs]
             \/ /\ heap' = [heap EXCEPT !.strays = @ + Leaked(o)]
             \/ /\ heap' = [blocks |-> 0, subs |-> 0, dtds |-> 0,
                            strays |-> heap.strays + Leaked(o)]
                /\ phase' = "Failed"
    BY <1>3 DEF DataBlock
  <2>2. PICK o \in ParseDataBlock(tag, size) :
             \/ /\ heap' = [heap EXCEPT !.blocks = @ + 1, !.subs = @ + o.allocs]
             \/ /\ heap' = [heap EXCEPT !.strays = @ + Leaked(o)]
             \/ /\ heap' = [blocks |-> 0, subs |-> 0, dtds |-> 0,
                            strays |-> heap.strays + Leaked(o)]
                /\ phase' = "Failed"
    BY <2>1
  <2>3. o.allocs \in Nat
    BY ConstAssumption, OutcomeTyped DEF OutcomeSet
  <2>4. CASE heap' = [heap EXCEPT !.blocks = @ + 1, !.subs = @ + o.allocs]
    <3>1. heap'.blocks = heap.blocks + 1 /\ heap'.subs = heap.subs + o.allocs
          /\ heap'.dtds = heap.dtds
      BY <2>4, <1>0
    <3> QED BY <3>1, <2>3, <1>0 DEF RecordsKept
  <2>5. CASE heap' = [heap EXCEPT !.strays = @ + Leaked(o)]
    <3>1. heap'.blocks = heap.blocks /\ heap'.subs = heap.subs
          /\ heap'.dtds = heap.dtds
      BY <2>5, <1>0
    <3> QED BY <3>1, <1>0 DEF RecordsKept
  <2>6. CASE /\ heap' = [blocks |-> 0, subs |-> 0, dtds |-> 0,
                         strays |-> heap.strays + Leaked(o)]
             /\ phase' = "Failed"
    BY <2>6
  <2> QED BY <2>2, <2>4, <2>5, <2>6
<1>4. CASE TimingDef
  <2>1. \/ heap' = [heap EXCEPT !.dtds = @ + 1]
        \/ Finish /\ phase' = "Failed"
    BY <1>4 DEF TimingDef
  <2> QED BY <2>1, <1>0, FinishTyped DEF RecordsKept
<1> QED BY <1>1, <1>2, <1>3, <1>4 DEF Next

\* No step frees part of the parse result, and none frees it and goes on:
\* the records are released only by an exit that returns false
\* (cta.c:1467, 1474, 1492), so the loops never touch freed records.
THEOREM ReleasedOnlyOnFailure == Spec => ReleaseOnlyOnFailure
<1>1. Spec => []TypeOK
  BY TypeCorrect
<1>2. TypeOK /\ [Next]_vars
        => \/ RecordsKept
           \/ /\ phase' = "Failed"
              /\ heap'.blocks = 0 /\ heap'.subs = 0 /\ heap'.dtds = 0
  BY StepReleases
<1> QED BY <1>1, <1>2, PTL DEF Spec, ReleaseOnlyOnFailure

-----------------------------------------------------------------------------
(* The parse implements ParseOnce.                                         *)

\* The mapped status of the phases the parse can be in.
LEMMA StatusOfPhase ==
    /\ phase \in {"Header", "DataBlocks", "TimingDefs"} => ParseStatus = "running"
    /\ phase' = "Done" => ParseStatus' = "true"
    /\ phase' = "Failed" => ParseStatus' = "false"
    /\ phase' \in {"DataBlocks", "TimingDefs"} => ParseStatus' = "running"
BY DEF ParseStatus

\* Every step of the parse is a step of ParseOnce or leaves the mapped
\* status and holding unchanged.
LEMMA StepRefinesParse ==
    IInv /\ [Next]_vars => [Parse!Next]_<<ParseStatus, Held>>
<1> SUFFICES ASSUME IInv, [Next]_vars
             PROVE  [Parse!Next]_<<ParseStatus, Held>>
  OBVIOUS
<1>0. heap \in [blocks : Nat, subs : Nat, dtds : Nat, strays : Nat]
      /\ phase \in Phases
  BY DEF IInv, TypeOK
<1>1. CASE Header
  <2>1. phase = "Header" /\ heap' = heap
        /\ phase' \in {"Done", "Failed", "DataBlocks"}
    BY <1>1 DEF Header
  <2>2. ~Held /\ ~Held'
    BY <2>1, <1>0 DEF IInv, Held
  <2>3. ParseStatus = "running" /\ Held' = Held
    <3>1. ParseStatus = "running"
      BY <2>1, StatusOfPhase
    <3>2. Held' = Held
      BY <2>1 DEF Held
    <3> QED BY <3>1, <3>2
  <2>4. CASE phase' = "Done"
    <3>1. ParseStatus' = "true"
      BY <2>4, StatusOfPhase
    <3> QED BY <2>3, <3>1 DEF Parse!Next, Parse!ReturnTrue
  <2>5. CASE phase' = "Failed"
    BY <2>2, <2>3, <2>5, StatusOfPhase DEF Parse!Next, Parse!ReturnFalse
  <2>6. CASE phase' = "DataBlocks"
    <3>1. ParseStatus' = "running"
      BY <2>6, StatusOfPhase
    <3> QED BY <2>3, <3>1
  <2> QED BY <2>1, <2>4, <2>5, <2>6
<1>2. CASE DataBlockOverrun
  <2>1. phase = "DataBlocks" /\ phase' = "Failed" /\ Finish
    BY <1>2 DEF DataBlockOverrun
  <2>2. ~Held'
    BY <2>1, <1>0, FinishTyped DEF Held
  <2> QED BY <2>1, <2>2, StatusOfPhase DEF Parse!Next, Parse!ReturnFalse
<1>3. CASE DataBlock
  <2>1. PICK tag \in 0..7, size \in BlockSizes :
          \E o \in ParseDataBlock(tag, size) :
             \/ /\ heap' = [heap EXCEPT !.blocks = @ + 1, !.subs = @ + o.allocs]
                /\ UNCHANGED phase
             \/ /\ heap' = [heap EXCEPT !.strays = @ + Leaked(o)]
                /\ UNCHANGED phase
             \/ /\ heap' = [blocks |-> 0, subs |-> 0, dtds |-> 0,
                            strays |-> heap.strays + Leaked(o)]
                /\ phase' = "Failed"
    BY <1>3 DEF DataBlock
  <2>2. PICK o \in ParseDataBlock(tag, size) :
             \/ /\ heap' = [heap EXCEPT !.blocks = @ + 1, !.subs = @ + o.allocs]
                /\ UNCHANGED phase
             \/ /\ heap' = [heap EXCEPT !.strays = @ + Leaked(o)]
                /\ UNCHANGED phase
             \/ /\ heap' = [blocks |-> 0, subs |-> 0, dtds |-> 0,
                            strays |-> heap.strays + Leaked(o)]
                /\ phase' = "Failed"
    BY <2>1
  <2>3. o.allocs \in Nat
    BY ConstAssumption, OutcomeTyped DEF OutcomeSet
  <2>4. phase = "DataBlocks" /\ ParseStatus = "running"
    BY <1>3, StatusOfPhase DEF DataBlock
  <2>5. CASE heap' = [heap EXCEPT !.blocks = @ + 1, !.subs = @ + o.allocs]
             /\ UNCHANGED phase
    <3>1. Held' /\ ParseStatus' = "running"
      BY <2>5, <2>3, <2>4, <1>0, StatusOfPhase DEF Held
    <3> QED BY <3>1, <2>4 DEF Parse!Next, Parse!Store
  <2>6. CASE heap' = [heap EXCEPT !.strays = @ + Leaked(o)] /\ UNCHANGED phase
    <3>1. Held' = Held
      BY <2>6, <1>0 DEF Held
    <3> QED BY <3>1, <2>6 DEF ParseStatus
  <2>7. CASE /\ heap' = [blocks |-> 0, subs |-> 0, dtds |-> 0,
                         strays |-> heap.strays + Leaked(o)]
             /\ phase' = "Failed"
    <3>1. ~Held' /\ ParseStatus' = "false"
      BY <2>7, StatusOfPhase DEF Held
    <3> QED BY <3>1, <2>4 DEF Parse!Next, Parse!ReturnFalse
  <2> QED BY <2>2, <2>5, <2>6, <2>7
<1>4. CASE DataBlocksEnd
  <2>1. phase = "DataBlocks" /\ phase' = "TimingDefs" /\ heap' = heap
    BY <1>4 DEF DataBlocksEnd
  <2> QED BY <2>1, StatusOfPhase DEF Held
<1>5. CASE TimingDef
  <2>1. phase = "TimingDefs" /\ ParseStatus = "running"
    BY <1>5, StatusOfPhase DEF TimingDef
  <2>2. CASE heap' = [heap EXCEPT !.dtds = @ + 1] /\ UNCHANGED phase
    <3>1. Held' /\ ParseStatus' = "running"
      BY <2>1, <2>2, <1>0, StatusOfPhase DEF Held
    <3> QED BY <3>1, <2>1 DEF Parse!Next, Parse!Store
  <2>3. CASE Finish /\ phase' = "Failed"
    <3>1. ~Held' /\ ParseStatus' = "false"
      BY <2>3, <1>0, FinishTyped, StatusOfPhase DEF Held
    <3> QED BY <3>1, <2>1 DEF Parse!Next, Parse!ReturnFalse
  <2> QED BY <1>5, <2>2, <2>3 DEF TimingDef
<1>6. CASE TimingDefsEnd
  <2>1. phase = "TimingDefs" /\ phase' = "Done" /\ heap' = heap
    BY <1>6 DEF TimingDefsEnd
  <2>2. Held' = Held /\ ParseStatus = "running" /\ ParseStatus' = "true"
    BY <2>1, StatusOfPhase DEF Held
  <2> QED BY <2>2 DEF Parse!Next, Parse!ReturnTrue
<1>7. CASE UNCHANGED vars
  BY <1>7 DEF vars, ParseStatus, Held
<1> QED BY <1>1, <1>2, <1>3, <1>4, <1>5, <1>6, <1>7 DEF Next

\* _di_edid_cta_parse implements the safety part of ParseOnce (the
\* liveness part, that it returns, is Termination, checked by TLC): it
\* starts running with nothing held, stores records without freeing any
\* until it returns, returns once, and returns false only with the result
\* released.
THEOREM ParseImplementsParseOnce ==
    Spec => Parse!Init /\ [][Parse!Next]_<<ParseStatus, Held>>
<1>1. Init => Parse!Init
  BY DEF Init, Parse!Init, ParseStatus, Held
<1>2. Spec => []IInv
  BY InitIInv, NextIInv, PTL DEF Spec
<1> QED BY <1>1, <1>2, StepRefinesParse, PTL DEF Spec

=============================================================================
