---------------------------- MODULE InfoFrameWalk ----------------------------
(***************************************************************************)
(* parse_infoframe_block and parse_infoframe (cta.c:1105-1217): the walk   *)
(* over the Short InfoFrame Descriptors of an InfoFrame Data Block, one    *)
(* descriptor per step.  The payload is the data after the extended tag   *)
(* byte; each step chooses the header byte it reads.  The walk is shown to *)
(* implement DecodeOnce with InfoFrameBlock as its outcome set, which is  *)
(* what CtaParse assumes of this decoder.                                  *)
(***************************************************************************)
EXTENDS CtaBlocks

CONSTANT MaxPayload   \* the largest payload after the extended tag byte

\* The 5-bit size field of a data block leaves at most 30 bytes after the
\* extended tag byte (cta.c:1461-1465, 1297).
ASSUME WalkAssumption == MaxPayload \in 0..30 /\ AllocMayFail \in BOOLEAN

\* A plausible bug: the array sized one short of the 28 one-byte descriptors
\* a 30-byte payload can hold after its 2-byte header.
MaxInfoFramesOffByOne == 27

\* EDID_CTA_INFOFRAME_BLOCK_ENTRIES (include/cta.h:59).
MaxInfoFrames == 61

VARIABLES
    size,     \* the payload size the decoder was called with
    pc,       \* "start", "loop", or how parse_infoframe_block returned
    index,    \* index into the payload
    stored,   \* ifb->infoframes_len
    cmpl      \* the complaints a property is about

vars == <<size, pc, index, stored, cmpl>>

\* A plausible bug: the descriptor offset forgets the 2-byte header.
FirstDescriptorNoHeader(h) == h + 1

\* The first descriptor follows the 2-byte processing descriptor header and
\* the number of bytes its bits 7..5 give.
FirstDescriptor(h) == h + 2

\* A plausible bug: the descriptor's own header byte is not counted.
DescriptorLengthNoHeader(len, type) == IF type = 1 THEN len + 3 ELSE len

\* A descriptor of type 1 (vendor specific) is length + 4 bytes long, any
\* other length + 1.
DescriptorLength(len, type) == IF type = 1 THEN len + 4 ELSE len + 1

\* parse_infoframe returns a record for types 2..7 when calloc succeeds;
\* type 1 and the reserved types 8..31 give NULL.
ParseInfoframe(type) ==
    IF type \in 2..7
      THEN IF AllocMayFail THEN {TRUE, FALSE} ELSE {TRUE}
      ELSE {FALSE}

Init ==
    /\ size \in 0..MaxPayload
    /\ pc = "start"
    /\ index = 0
    /\ stored = 0
    /\ cmpl = {}

\* The size check and the processing descriptor header.
Start ==
    /\ pc = "start"
    /\ \/ /\ size < 2
          /\ pc' = "skip"
          /\ UNCHANGED index
       \/ /\ size >= 2
          /\ \E h \in 0..7 : index' = FirstDescriptor(h)
          /\ pc' = "loop"
    /\ UNCHANGED <<size, stored, cmpl>>

\* index == size: the walk ends exactly at the payload end.
LoopEnd ==
    /\ pc = "loop"
    /\ index = size
    /\ pc' = "accept"
    /\ UNCHANGED <<size, index, stored, cmpl>>

\* index > size: the header pointed past the payload.
LoopOverrun ==
    /\ pc = "loop"
    /\ index > size
    /\ pc' = "skip"
    /\ cmpl' = {"InfoFrameOverrun"}
    /\ UNCHANGED <<size, index, stored>>

\* One Short InfoFrame Descriptor at index.
Descriptor ==
    /\ pc = "loop"
    /\ index < size
    /\ \E len \in 0..7, type \in 0..31 :
         \/ /\ type = 0
            /\ pc' = "skip"
            /\ UNCHANGED <<index, stored, cmpl>>
         \/ /\ type # 0
            /\ index + DescriptorLength(len, type) > size
            /\ pc' = "skip"
            /\ cmpl' = {"InfoFrameOverrun"}
            /\ UNCHANGED <<index, stored>>
         \/ /\ type # 0
            /\ index + DescriptorLength(len, type) <= size
            /\ \E made \in ParseInfoframe(type) :
                 stored' = IF made THEN stored + 1 ELSE stored
            /\ index' = index + DescriptorLength(len, type)
            /\ UNCHANGED <<pc, cmpl>>
    /\ UNCHANGED size

Next == Start \/ LoopEnd \/ LoopOverrun \/ Descriptor

\* The decoder runs to its return on the parser's thread.
Spec == Init /\ [][Next]_vars /\ WF_vars(Next)

\* What the walk has returned, as an outcome of CtaBlocks.
WalkResult ==
    CASE pc = "accept" -> Accept(stored)
      [] pc = "skip"   -> Skip(stored, cmpl)
      [] OTHER         -> Outcome("pending", 0, {})

Abstract == INSTANCE DecodeOnce
    WITH Sizes <- 0..MaxPayload, Decoder <- InfoFrameBlock, result <- WalkResult

-----------------------------------------------------------------------------
(* Properties.                                                             *)

TypeOK ==
    /\ size \in 0..MaxPayload
    /\ pc \in {"start", "loop", "accept", "skip"}
    /\ index \in 0..(MaxPayload + 9)
    /\ stored \in Nat
    /\ cmpl \subseteq {"InfoFrameOverrun"}

\* The assert of cta.c:1207 never fails: at most 61 descriptors are stored
\* in ifb->infoframes, whatever the headers of the descriptors say.
InfoFramesFit == stored <= MaxInfoFrames

\* The walk implements the outcome set CtaParse uses for InfoFrame Data
\* Blocks: it returns, it stores at most size - 2 descriptors, and when it
\* fails part-way the descriptors already stored are the ones the skip
\* path of parse_data_block leaks.
DecodeRefined == Abstract!Spec

=============================================================================
