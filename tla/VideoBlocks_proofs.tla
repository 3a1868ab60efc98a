--------------------------- MODULE VideoBlocks_proofs --------------------------
(***************************************************************************)
(* Proofs about the Video and YCbCr 4:2:0 Video Data Blocks: every SVD     *)
(* parse_svd stores carries the VIC and native flag the spec gives for its *)
(* byte, and the tag-checked accessors answer exactly the tags cta.h       *)
(* documents, for every set of tags, SVD bytes and block counts.           *)
(***************************************************************************)
EXTENDS VideoBlocks, SequenceTheorems, TLAPS

\* The SVDs the blocks may hold: decoded as the spec decodes their byte.
SvdRec == {s \in [vic : Int, native : BOOLEAN, raw : 0..255, pos : Nat] :
             SpecSvd(s.raw) = {[vic |-> s.vic, native |-> s.native]}}

\* The data blocks parse_data_block and the SVD loops can build.
BlockRec == [tag : Nat, size : Nat, svds : Seq(SvdRec), all : BOOLEAN,
             bitmap : Seq(Nat)]

\* The inductive invariant: SvdDecodeAgrees for every block, carried by a
\* type that says which SVD records a block holds; the SVD position
\* counter is a natural, so a kept SVD's record is of SvdRec.
IInv ==
    /\ blocks \in Seq(BlockRec)
    /\ vpos \in Nat

\* The SVDs one iteration of the SVD loop may keep for byte raw at
\* position p (SvdByte's kept).
Kept(raw, p) == {[vic |-> svd.vic, native |-> svd.native, raw |-> raw,
                   pos |-> p] : svd \in ParseSvd(raw)}

\* The last block after that iteration (SvdByte's update of blocks).
Bumped(b, raw, p, ok) ==
    [b EXCEPT !.size = b.size + 1,
              !.svds = IF Kept(raw, p) # {} /\ ok
                         THEN Append(b.svds, CHOOSE r \in Kept(raw, p) : TRUE)
                         ELSE b.svds]

-----------------------------------------------------------------------------
(* parse_svd and the accessor table.                                       *)

\* Bits 6..0 of a native SVD byte are the byte less 128.

LEMMA NativeVic ==
    ASSUME NEW raw \in 129..192 PROVE GetBitRange(raw, 6, 0) = raw - 128
BY DEF GetBitRange

\* parse_svd (cta.c:59-87) decodes every byte as spec section 4.4 does.
LEMMA ParseSvdAgrees ==
    ASSUME NEW raw \in 0..255, NEW svd \in ParseSvd(raw)
    PROVE  /\ svd \in [vic : Int, native : BOOLEAN]
           /\ SpecSvd(raw) = {[vic |-> svd.vic, native |-> svd.native]}
<1>1. CASE raw = 0 \/ raw = 128 \/ raw >= 254
  <2>1. ParseSvd(raw) = {}
    BY <1>1 DEF ParseSvd
  <2> QED BY <2>1
<1>2. CASE ~(raw = 0 \/ raw = 128 \/ raw >= 254) /\ (raw <= 127 \/ raw >= 193)
  <2>1. ParseSvd(raw) = {[vic |-> raw, native |-> FALSE]}
    BY <1>2 DEF ParseSvd
  <2>2. SpecSvd(raw) = {[vic |-> raw, native |-> FALSE]}
    BY <1>2 DEF SpecSvd
  <2>3. svd = [vic |-> raw, native |-> FALSE]
    BY <2>1
  <2> QED BY <2>2, <2>3
<1>3. CASE ~(raw = 0 \/ raw = 128 \/ raw >= 254) /\ ~(raw <= 127 \/ raw >= 193)
  <2>1. raw \in 129..192
    BY <1>3
  <2>2. ParseSvd(raw) = {[vic |-> raw - 128, native |-> TRUE]}
    BY <1>3, <2>1, NativeVic DEF ParseSvd
  <2>3. SpecSvd(raw) = {[vic |-> raw - 128, native |-> TRUE]}
    BY <2>1 DEF SpecSvd
  <2>4. svd = [vic |-> raw - 128, native |-> TRUE]
    BY <2>2
  <2> QED BY <2>3, <2>4
<1> QED BY <1>1, <1>2, <1>3

\* The tags the accessors check (cta.c:1548-1680) are those cta.h
\* documents.
LEMMA AccessorTagDocumented == AccessorTag = DocumentedAccessorTag
BY DEF AccessorTag, DocumentedAccessorTag, Tag

-----------------------------------------------------------------------------
(* The invariant.                                                          *)

\* Tags are enumerator values.
LEMMA TagsNat == BlockTags \subseteq Nat
BY VideoAssumption DEF Tag

\* A kept SVD is of SvdRec.
LEMMA KeptAgrees ==
    ASSUME NEW raw \in 0..255, NEW p \in Nat, NEW r \in Kept(raw, p)
    PROVE  r \in SvdRec
<1>1. PICK svd \in ParseSvd(raw) :
        r = [vic |-> svd.vic, native |-> svd.native, raw |-> raw, pos |-> p]
  BY DEF Kept
<1>2. svd \in [vic : Int, native : BOOLEAN]
      /\ SpecSvd(raw) = {[vic |-> svd.vic, native |-> svd.native]}
  BY ParseSvdAgrees
<1> QED BY <1>1, <1>2 DEF SvdRec

\* One SVD byte keeps the last block of BlockRec, whether parse_svd
\* returned an SVD, NULL for a reserved value or NULL from calloc.
LEMMA SvdByteKeepsBlock ==
    ASSUME NEW b \in BlockRec, NEW raw \in 0..255, NEW p \in Nat, NEW ok
    PROVE  Bumped(b, raw, p, ok) \in BlockRec
<1> DEFINE svds2 == IF Kept(raw, p) # {} /\ ok
                      THEN Append(b.svds, CHOOSE r \in Kept(raw, p) : TRUE)
                      ELSE b.svds
<1>1. svds2 \in Seq(SvdRec)
  <2>1. CASE Kept(raw, p) # {} /\ ok
    <3>1. (CHOOSE r \in Kept(raw, p) : TRUE) \in SvdRec
      BY <2>1, KeptAgrees
    <3> QED BY <2>1, <3>1, AppendProperties DEF BlockRec
  <2>2. CASE ~(Kept(raw, p) # {} /\ ok)
    BY <2>2 DEF BlockRec
  <2> QED BY <2>1, <2>2
<1>2. b.size + 1 \in Nat
  BY DEF BlockRec
<1> QED BY <1>1, <1>2 DEF BlockRec, Bumped

\* The invariant holds initially and is kept by every step.
LEMMA InitIInv == Init => IInv
BY DEF Init, IInv

LEMMA NextIInv == IInv /\ [Next]_vars => IInv'
<1> SUFFICES ASSUME IInv, [Next]_vars PROVE IInv'
  OBVIOUS
<1>0. blocks \in Seq(BlockRec) /\ vpos \in Nat
  BY DEF IInv
<1>1. CASE NewBlock
  <2>1. PICK t \in BlockTags :
          \/ blocks' = Append(blocks, [tag |-> t, size |-> 0, svds |-> << >>,
                                       all |-> FALSE, bitmap |-> << >>])
          \/ \E n \in 0..MaxMapBytes : \E bytes \in [1..n -> MapByteValues] :
               blocks' = Append(blocks, [tag |-> t, size |-> n, svds |-> << >>,
                                         all |-> n = 0, bitmap |-> bytes])
    BY <1>1 DEF NewBlock
  <2>2. t \in Nat
    BY TagsNat
  <2>3. CASE blocks' = Append(blocks, [tag |-> t, size |-> 0, svds |-> << >>,
                                       all |-> FALSE, bitmap |-> << >>])
    <3>1. [tag |-> t, size |-> 0, svds |-> << >>, all |-> FALSE,
           bitmap |-> << >>] \in BlockRec
      BY <2>2 DEF BlockRec
    <3> QED BY <3>1, <2>3, <1>0, <1>1, AppendProperties DEF IInv, NewBlock
  <2>4. CASE \E n \in 0..MaxMapBytes : \E bytes \in [1..n -> MapByteValues] :
               blocks' = Append(blocks, [tag |-> t, size |-> n, svds |-> << >>,
                                         all |-> n = 0, bitmap |-> bytes])
    <3>0. PICK n \in 0..MaxMapBytes : \E bytes \in [1..n -> MapByteValues] :
            blocks' = Append(blocks, [tag |-> t, size |-> n, svds |-> << >>,
                                      all |-> n = 0, bitmap |-> bytes])
      BY <2>4
    <3>1. PICK bytes \in [1..n -> MapByteValues] :
            blocks' = Append(blocks, [tag |-> t, size |-> n, svds |-> << >>,
                                      all |-> n = 0, bitmap |-> bytes])
      BY <3>0
    <3>2. n \in Nat /\ bytes \in Seq(Nat)
      <4>1. MapByteValues \subseteq Nat /\ MaxMapBytes \in Nat
        BY VideoAssumption
      <4>2. n \in Nat
        BY <4>1
      <4>3. DOMAIN bytes = 1..n /\ \A k \in 1..n : bytes[k] \in Nat
        BY <4>1, Zenon
      <4> QED BY <4>2, <4>3, IsASeq
    <3>3. [tag |-> t, size |-> n, svds |-> << >>, all |-> n = 0,
           bitmap |-> bytes] \in BlockRec
      BY <2>2, <3>2 DEF BlockRec
    <3> QED BY <3>1, <3>3, <1>0, <1>1, AppendProperties DEF IInv, NewBlock
  <2> QED BY <2>1, <2>3, <2>4
<1>2. CASE SvdByte
  <2>1. Len(blocks) \in 1..Len(blocks)
    BY <1>0, <1>2 DEF SvdByte
  <2>2. PICK raw \in RawValues, allocOk \in {TRUE, ~AllocMayFail} :
          blocks' = [blocks EXCEPT ![Len(blocks)] =
                       Bumped(blocks[Len(blocks)], raw, vpos, allocOk)]
    BY <1>2 DEF SvdByte, Bumped, Kept
  <2>3. raw \in 0..255
    BY VideoAssumption
  <2>4. Bumped(blocks[Len(blocks)], raw, vpos, allocOk) \in BlockRec
    <3>1. blocks[Len(blocks)] \in BlockRec
      BY <2>1, <1>0
    <3> QED BY <3>1, <2>3, <1>0, SvdByteKeepsBlock
  <2>5. blocks' \in Seq(BlockRec)
    BY <2>1, <2>2, <2>4, <1>0, ExceptSeq
  <2>6. vpos' \in Nat
    BY <1>0, <1>2 DEF SvdByte
  <2> QED BY <2>5, <2>6 DEF IInv
<1>3. CASE ParseEnd \/ PrintBlock \/ PrintEnd \/ UNCHANGED vars
  BY <1>0, <1>3 DEF ParseEnd, PrintBlock, PrintEnd, vars, IInv
<1> QED BY <1>1, <1>2, <1>3 DEF Next

\* The invariant gives the property.
LEMMA IInvAgrees == IInv => SvdDecodeAgrees
<1> SUFFICES ASSUME IInv, NEW k \in 1..Len(blocks),
                    NEW j \in 1..Len(blocks[k].svds)
             PROVE  LET s == blocks[k].svds[j]
                    IN  SpecSvd(s.raw) = {[vic |-> s.vic, native |-> s.native]}
  BY DEF SvdDecodeAgrees
<1>1. blocks[k] \in BlockRec
  BY DEF IInv
<1>2. blocks[k].svds[j] \in SvdRec
  BY <1>1 DEF BlockRec
<1> QED BY <1>2 DEF SvdRec

\* Every SVD that parse_video_block or parse_ycbcr420_block stores has the
\* VIC and native flag spec section 4.4 gives for its byte: 129..192 are
\* native with VIC byte - 128, the rest of 1..253 but 128 the byte itself.
THEOREM SvdsAlwaysAgree == Spec => []SvdDecodeAgrees
<1>1. Spec => []IInv
  BY InitIInv, NextIInv, PTL DEF Spec
<1> QED BY <1>1, IInvAgrees, PTL

\* For every block, the di_cta_data_block_get_* accessors that return a
\* payload are exactly those cta.h documents for its tag.  The property is
\* one of the accessor table, so it holds in every state.
THEOREM AccessorsAlwaysExclusive == Spec => []AccessorsExclusive
<1>1. AccessorsExclusive
  BY AccessorTagDocumented DEF AccessorsExclusive, Accessor
<1> QED BY <1>1, PTL
=============================================================================
