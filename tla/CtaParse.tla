------------------------------ MODULE CtaParse ------------------------------
(***************************************************************************)
(* The CTA-861 extension block controller of libdisplay-info (cta.c,       *)
(* _di_edid_cta_parse and _di_edid_cta_finish), which hands every data    *)
(* block to the dispatcher of CtaBlocks (parse_data_block).                *)
(*                                                                         *)
(* The 128-byte input is not a variable: every byte the controller reads  *)
(* is read once, by exactly one consumer, so each step chooses the bytes  *)
(* it reads (header byte, extended tag, payload shape) from the values the *)
(* MC module offers.  The payload decoders are abstracted to the set of   *)
(* outcomes a payload of the given size can produce: accepted with some   *)
(* number of owned sub-records, skipped (with the sub-records it had      *)
(* already allocated, which the skip path does not free), or a hard       *)
(* error.  The heap is kept as counts of live allocations by owner.       *)
(***************************************************************************)
EXTENDS CtaBlocks

CONSTANTS
    DtdStartValues,   \* values offered for byte 2 (DTD start offset)
    BlockSizes        \* values offered for the 5-bit data block size field

ASSUME ConstAssumption ==
    /\ DtdStartValues \subseteq 0..255
    /\ BlockSizes \subseteq 0..31
    /\ ExtTagValues \subseteq 0..255
    /\ AllocMayFail \in BOOLEAN

\* cta.c:16-24, cta.h:20-28, the 128-byte size asserted at cta.c:1433.
BufferSize      == 128
CtaHeaderSize   == 4
CtaDtdEnd       == 127
DescriptorSize  == 18
MaxDataBlocks   == 123
MaxDtds         == 6

\* The complaints of the diagnostics log that a property is about.
Complaints == {"OffsetMismatch", "InfoFrameOverrun"}

Phases == {"Header", "DataBlocks", "TimingDefs", "Done", "Failed"}

VARIABLES
    phase,     \* where _di_edid_cta_parse is, or how it returned
    dtdStart,  \* dtd_start, byte 2 of the block
    i,         \* the offset i of the data block and DTD loops
    nblocks,   \* cta->data_blocks_len
    ndtds,     \* cta->detailed_timing_defs_len
    heap,      \* live allocations: stored blocks, their sub-records, DTDs,
               \* and strays (allocated, no longer reachable, never freed)
    hiRead,    \* highest offset of the input read so far (-1: none)
    log        \* complaints added to the logger

vars == <<phase, dtdStart, i, nblocks, ndtds, heap, hiRead, log>>

MaxOf(a, b) == IF a >= b THEN a ELSE b

-----------------------------------------------------------------------------
(* The controller.                                                         *)

\* A plausible bug: _di_edid_cta_finish forgets the DTDs.
FinishKeepsDtds == heap' = [heap EXCEPT !.blocks = 0, !.subs = 0]

\* _di_edid_cta_finish: frees every stored data block (with the
\* sub-records its tag owns) and every DTD; the lengths are left as they are.
Finish == heap' = [heap EXCEPT !.blocks = 0, !.subs = 0, !.dtds = 0]

\* A plausible bug: dtd_start is checked against the header size only.
DtdStartBelowHeader(d) == d < CtaHeaderSize

\* dtd_start is rejected when it points into the header or past the block.
DtdStartInvalid(d) == d < CtaHeaderSize \/ d >= BufferSize

\* A plausible bug: the extent check forgets the block's header byte.
BlockFitsNoHeader(size) == i + size <= dtdStart

\* The data block at i, of the given size, ends at or before dtd_start.
BlockFits(size) == i + 1 + size <= dtdStart

\* A plausible bug: only the first byte of a DTD is checked against the end.
DtdStartsInRegion == i < CtaDtdEnd

\* Another DTD fits before offset 127.
DtdFits == i + DescriptorSize <= CtaDtdEnd

Init ==
    /\ phase = "Header"
    /\ dtdStart = 0
    /\ i = 0
    /\ nblocks = 0
    /\ ndtds = 0
    /\ heap = [blocks |-> 0, subs |-> 0, dtds |-> 0, strays |-> 0]
    /\ hiRead = -1
    /\ log = {}

\* Bytes 0..3: tag, revision, dtd_start, flags; then the dtd_start checks.
Header ==
    /\ phase = "Header"
    /\ \E d \in DtdStartValues :
         /\ dtdStart' = d
         /\ \/ /\ d = 0
               /\ phase' = "Done"
               /\ UNCHANGED i
            \/ /\ d # 0
               /\ DtdStartInvalid(d)
               /\ phase' = "Failed"
               /\ UNCHANGED i
            \/ /\ d # 0
               /\ ~DtdStartInvalid(d)
               /\ phase' = "DataBlocks"
               /\ i' = CtaHeaderSize
    /\ hiRead' = CtaHeaderSize - 1
    /\ UNCHANGED <<nblocks, ndtds, heap, log>>

\* One iteration of the data block loop whose block would end past
\* dtd_start: the whole parse fails.
DataBlockOverrun ==
    /\ phase = "DataBlocks"
    /\ i < dtdStart
    /\ \E size \in BlockSizes : ~BlockFits(size)
    /\ Finish
    /\ phase' = "Failed"
    /\ hiRead' = MaxOf(hiRead, i)
    /\ UNCHANGED <<dtdStart, i, nblocks, ndtds, log>>

\* One iteration of the data block loop that dispatches the block; the
\* outcome decides whether it is stored, dropped, or fails the parse.
DataBlock ==
    /\ phase = "DataBlocks"
    /\ i < dtdStart
    /\ \E tag \in 0..7, size \in BlockSizes :
         /\ BlockFits(size)
         /\ hiRead' = MaxOf(hiRead, i + size)
         /\ \E o \in ParseDataBlock(tag, size) :
              /\ log' = log \cup o.cmpl
              /\ \/ /\ o.res = "accept"
                    /\ nblocks' = nblocks + 1
                    /\ heap' = [heap EXCEPT !.blocks = @ + 1,
                                            !.subs = @ + o.allocs]
                    /\ i' = i + 1 + size
                    /\ UNCHANGED phase
                 \/ /\ o.res = "skip"
                    /\ heap' = [heap EXCEPT !.strays = @ + Leaked(o)]
                    /\ i' = i + 1 + size
                    /\ UNCHANGED <<phase, nblocks>>
                 \/ /\ o.res = "error"
                    /\ heap' = [blocks |-> 0, subs |-> 0, dtds |-> 0,
                                strays |-> heap.strays + Leaked(o)]
                    /\ phase' = "Failed"
                    /\ UNCHANGED <<i, nblocks>>
    /\ UNCHANGED <<dtdStart, ndtds>>

\* A plausible bug: the loop is left only once i is past dtd_start.
DataBlocksEndLate ==
    /\ phase = "DataBlocks"
    /\ i > dtdStart
    /\ log' = IF i # dtdStart THEN log \cup {"OffsetMismatch"} ELSE log
    /\ i' = dtdStart
    /\ phase' = "TimingDefs"
    /\ UNCHANGED <<dtdStart, nblocks, ndtds, heap, hiRead>>

\* The data block loop ends; the offset is compared with dtd_start and the
\* DTD loop starts from dtd_start.
DataBlocksEnd ==
    /\ phase = "DataBlocks"
    /\ i >= dtdStart
    /\ log' = IF i # dtdStart THEN log \cup {"OffsetMismatch"} ELSE log
    /\ i' = dtdStart
    /\ phase' = "TimingDefs"
    /\ UNCHANGED <<dtdStart, nblocks, ndtds, heap, hiRead>>

\* A plausible bug: the DTD loop goes on after _di_edid_cta_finish, its
\* return false forgotten.
TimingDefNoReturn ==
    /\ phase = "TimingDefs"
    /\ DtdFits
    /\ hiRead' = MaxOf(hiRead, i + DescriptorSize - 1)
    /\ \/ /\ ndtds' = ndtds + 1
          /\ heap' = [heap EXCEPT !.dtds = @ + 1]
          /\ i' = i + DescriptorSize
          /\ UNCHANGED phase
       \/ /\ Finish
          /\ i' = i + DescriptorSize
          /\ UNCHANGED <<phase, ndtds>>
    /\ UNCHANGED <<dtdStart, nblocks, log>>

\* One iteration of the DTD loop on a non-zero first byte: the external
\* _di_edid_parse_detailed_timing_def decodes 18 bytes or fails.
TimingDef ==
    /\ phase = "TimingDefs"
    /\ DtdFits
    /\ hiRead' = MaxOf(hiRead, i + DescriptorSize - 1)
    /\ \/ /\ ndtds' = ndtds + 1
          /\ heap' = [heap EXCEPT !.dtds = @ + 1]
          /\ i' = i + DescriptorSize
          /\ UNCHANGED phase
       \/ /\ Finish
          /\ phase' = "Failed"
          /\ UNCHANGED <<i, ndtds>>
    /\ UNCHANGED <<dtdStart, nblocks, log>>

\* The DTD loop ends, because there is no room for another DTD or because
\* data[i] is zero (which it may be whenever the loop tests it), and the
\* padding up to offset 127 is scanned until its first non-zero byte.
TimingDefsEnd ==
    /\ phase = "TimingDefs"
    /\ IF i < CtaDtdEnd
         THEN \E stop \in i..(CtaDtdEnd - 1) : hiRead' = MaxOf(hiRead, stop)
         ELSE UNCHANGED hiRead
    /\ phase' = "Done"
    /\ UNCHANGED <<dtdStart, i, nblocks, ndtds, heap, log>>

Next ==
    \/ Header
    \/ DataBlockOverrun
    \/ DataBlock
    \/ DataBlocksEnd
    \/ TimingDef
    \/ TimingDefsEnd

\* The parse runs on one thread without suspension points: every step it
\* can take, it takes.
Spec == Init /\ [][Next]_vars /\ WF_vars(Next)

-----------------------------------------------------------------------------
(* Properties.                                                             *)

TypeOK ==
    /\ phase \in Phases
    /\ dtdStart \in 0..255
    /\ i \in 0..BufferSize
    /\ nblocks \in Nat
    /\ ndtds \in Nat
    /\ heap \in [blocks : Nat, subs : Nat, dtds : Nat, strays : Nat]
    /\ hiRead \in -1..(BufferSize + 255)
    /\ log \subseteq Complaints

\* Every byte the parse reads lies in the 128-byte buffer, and while the
\* data block loop runs it reads nothing at or after dtd_start (the region
\* of the detailed timing definitions): cta.c:1455 and cta.c:1466.
ReadsWithinRegions ==
    /\ hiRead < BufferSize
    /\ phase = "DataBlocks" => hiRead < dtdStart

\* The "Offset is ..., but should be ..." complaint (cta.c:1481) is never
\* added: the data block loop always ends exactly at dtd_start.
NoOffsetMismatch == "OffsetMismatch" \notin log

\* The asserts on cta->data_blocks_len (cta.c:1411) and on
\* cta->detailed_timing_defs_len (cta.c:1495) never fail: at most 123 data
\* blocks and at most 6 DTDs are ever stored.
CapacityBounds ==
    /\ nblocks <= MaxDataBlocks
    /\ ndtds <= MaxDtds

\* A parse that fails has released every data block, every sub-record owned
\* by one, and every DTD it had stored (cta.c:1467, 1474, 1492).
FailureReleasesRecords ==
    phase = "Failed" => heap.blocks = 0 /\ heap.subs = 0 /\ heap.dtds = 0

\* A step frees none of the records stored in the result.
RecordsKept ==
    /\ heap'.blocks >= heap.blocks
    /\ heap'.subs >= heap.subs
    /\ heap'.dtds >= heap.dtds

\* Records are released only on the way out of a failure: every step keeps
\* every stored data block, sub-record and DTD, or frees all of them and
\* returns false (cta.c:1467, 1474, 1492).  A loop that went on after
\* _di_edid_cta_finish would work on freed records, and the lengths it
\* leaves (cta.c:1513) would make a later finish free them twice.
ReleaseOnlyOnFailure ==
    [][RecordsKept
       \/ /\ phase' = "Failed"
          /\ heap'.blocks = 0 /\ heap'.subs = 0 /\ heap'.dtds = 0]_vars

\* Nothing the parse allocated is ever lost: every live allocation is owned
\* by the parse result (cta.c:1415-1421 free only the data block itself).
NoStrayAllocation == heap.strays = 0

\* The spec (section 8): an InfoFrame Data Block whose descriptor overruns
\* its payload is a hard failure that aborts the whole parse (cta.c:1375
\* skips the block instead).
InfoFrameOverrunAborts == "InfoFrameOverrun" \in log => phase # "Done"

\* The refinement mapping to ParseOnce: the value returned, once the parse
\* has returned, and whether the result holds a live record.
ParseStatus ==
    IF phase = "Done" THEN "true"
    ELSE IF phase = "Failed" THEN "false"
    ELSE "running"

Held == heap.blocks + heap.subs + heap.dtds > 0

Parse == INSTANCE ParseOnce WITH status <- ParseStatus, held <- Held

\* The parse returns: the loops over data blocks and DTDs terminate.
Termination == <>(phase \in {"Done", "Failed"})

=============================================================================
