----------------------------- MODULE VideoBlocks -----------------------------
(***************************************************************************)
(* The video side of a CTA parse result and its consumer: Video and YCbCr  *)
(* 4:2:0 Video Data Blocks decoded SVD by SVD (cta.c, parse_svd,           *)
(* parse_video_block, parse_ycbcr420_block), the YCbCr 4:2:0 Capability   *)
(* Map (parse_ycbcr420_cap_map, di_cta_ycbcr420_cap_map_supported), the    *)
(* tag-checked accessors of a data block (cta.c:1527-1680), the VIC table *)
(* lookup (di_cta_video_format_from_vic), and the loop of di-edid-decode   *)
(* (print_cta, printf_cta_svds, print_ycbcr420_cap_map, print_vic) that    *)
(* reads all of them back.                                                 *)
(*                                                                         *)
(* The dispatcher that creates a block is CtaParse's; here a block of a   *)
(* tag is created in one step and the SVD bytes of a video block are then  *)
(* read one per step.  The VIC table is generated code not under src/: it *)
(* is given by its length and the set of VICs that have a row.             *)
(***************************************************************************)
EXTENDS CtaBlocks, Sequences

CONSTANTS
    BlockTags,       \* tags offered for a new data block
    RawValues,       \* values offered for an SVD byte
    MapByteValues,   \* values offered for a capability map byte
    MaxBlocks,       \* bound on the number of data blocks
    MaxSvdBytes,     \* bound on the payload of a video block
    MaxMapBytes,     \* bound on the payload of a capability map block
    VicTableLen,     \* _di_cta_video_formats_len
    VicTableRows     \* the VICs whose row in _di_cta_video_formats is set

ASSUME VideoAssumption ==
    /\ BlockTags \subseteq {Tag[t] : t \in DOMAIN Tag}
    /\ RawValues \subseteq 0..255 /\ MapByteValues \subseteq 0..255
    /\ MaxBlocks \in Nat /\ MaxSvdBytes \in 0..31 /\ MaxMapBytes \in 0..30
    /\ VicTableLen \in 1..256 /\ VicTableRows \subseteq 1..(VicTableLen - 1)
    /\ AllocMayFail \in BOOLEAN

\* EDID_CTA_MAX_YCBCR420_CAP_MAP_BLOCK_ENTRIES (include/cta.h).
MaxCapMapBytes == 63

VARIABLES
    phase,     \* "parse", "print" or "done"
    blocks,    \* cta->data_blocks: [tag, size, svds, all, bitmap]
    vpos,      \* history: SVD bytes read so far in Video Data Blocks
    bi,        \* the data block print_cta is at
    capListed, \* the SVDs print_ycbcr420_cap_map listed, with the index
               \* of the capability map block that listed them
    vicReads   \* the indices of _di_cta_video_formats read

vars == <<phase, blocks, vpos, bi, capListed, vicReads>>

-----------------------------------------------------------------------------
(* The library.                                                            *)

\* A plausible bug: the native range ends one value early (192 is read
\* as a non-native VIC).
ParseSvdNativeEndsEarly(raw) ==
    IF raw = 0 \/ raw = 128 \/ raw >= 254 THEN {}
    ELSE IF raw <= 128 \/ raw >= 192 THEN {[vic |-> raw, native |-> FALSE]}
    ELSE {[vic |-> GetBitRange(raw, 6, 0), native |-> TRUE]}

\* parse_svd, before its calloc, as the set of SVDs it returns (empty for
\* NULL): reserved values give NULL; 1..127 and 193..253 are the VIC
\* itself; 129..192 are native, VIC in bits 6..0.
ParseSvd(raw) ==
    IF raw = 0 \/ raw = 128 \/ raw >= 254 THEN {}
    ELSE IF raw <= 127 \/ raw >= 193 THEN {[vic |-> raw, native |-> FALSE]}
    ELSE {[vic |-> GetBitRange(raw, 6, 0), native |-> TRUE]}

\* A plausible bug: di_cta_data_block_get_ycbcr420_svds checks the tag of
\* the regular Video Data Block.
AccessorTagCopied ==
    [get_svds |-> Tag.VIDEO, get_ycbcr420_svds |-> Tag.VIDEO,
     get_sads |-> Tag.AUDIO, get_speaker_alloc |-> Tag.SPEAKER_ALLOC,
     get_colorimetry |-> Tag.COLORIMETRY,
     get_hdr_static_metadata |-> Tag.HDR_STATIC_METADATA,
     get_hdr_dynamic_metadata |-> Tag.HDR_DYNAMIC_METADATA,
     get_video_cap |-> Tag.VIDEO_CAP,
     get_vesa_dddb |-> Tag.VESA_DISPLAY_DEVICE,
     get_ycbcr420_cap_map |-> Tag.YCBCR420_CAP_MAP,
     get_infoframe |-> Tag.INFOFRAME,
     get_vesa_transfer_characteristics |->
        Tag.VESA_DISPLAY_TRANSFER_CHARACTERISTIC]

\* The tag each di_cta_data_block_get_* accessor checks (cta.c:1548-1680).
AccessorTag ==
    [get_svds |-> Tag.VIDEO, get_ycbcr420_svds |-> Tag.YCBCR420,
     get_sads |-> Tag.AUDIO, get_speaker_alloc |-> Tag.SPEAKER_ALLOC,
     get_colorimetry |-> Tag.COLORIMETRY,
     get_hdr_static_metadata |-> Tag.HDR_STATIC_METADATA,
     get_hdr_dynamic_metadata |-> Tag.HDR_DYNAMIC_METADATA,
     get_video_cap |-> Tag.VIDEO_CAP,
     get_vesa_dddb |-> Tag.VESA_DISPLAY_DEVICE,
     get_ycbcr420_cap_map |-> Tag.YCBCR420_CAP_MAP,
     get_infoframe |-> Tag.INFOFRAME,
     get_vesa_transfer_characteristics |->
        Tag.VESA_DISPLAY_TRANSFER_CHARACTERISTIC]

\* An accessor returns the block's payload when the tag matches, NULL
\* otherwise: the set of payloads it returns, the block itself or none.
Accessor(g, b) == IF b.tag = AccessorTag[g] THEN {b} ELSE {}

\* di_cta_ycbcr420_cap_map_supported: every SVD when the map was empty;
\* otherwise bit (index % 8) of byte (index / 8) of the 63-byte bitmap,
\* whose bytes past the payload stayed zero from calloc.
CapMapSupported(m, idx) ==
    \/ m.all
    \/ /\ idx \div 8 < MaxCapMapBytes
       /\ idx \div 8 < Len(m.bitmap)
       /\ HasBit(m.bitmap[idx \div 8 + 1], idx % 8)

\* di_cta_video_format_from_vic: the indices of _di_cta_video_formats it
\* reads for a VIC, and whether it returns a format.
VicIndicesRead(vic) == IF vic > VicTableLen THEN {} ELSE {vic}
VicFound(vic) == ~(vic > VicTableLen) /\ vic \in VicTableRows

-----------------------------------------------------------------------------
(* The consumer: di-edid-decode.                                           *)

\* The SVDs of all Video Data Blocks, in the order print_ycbcr420_cap_map
\* walks them; svd_index counts along this sequence.
VideoSvds ==
    LET svdsOf(k) == IF blocks[k].tag = Tag.VIDEO
                          /\ Accessor("get_svds", blocks[k]) # {}
                       THEN blocks[k].svds ELSE << >>
        upTo[n \in 0..Len(blocks)] ==
            IF n = 0 THEN << >> ELSE upTo[n - 1] \o svdsOf(n)
    IN  upTo[Len(blocks)]

\* The VIC table indices print_vic reads for the SVDs of the blocks an
\* accessor returned.
ReadsOf(payloads) ==
    UNION {UNION {VicIndicesRead(p.svds[k].vic) : k \in 1..Len(p.svds)} :
             p \in payloads}

-----------------------------------------------------------------------------

Init ==
    /\ phase = "parse"
    /\ blocks = << >>
    /\ vpos = 0
    /\ bi = 1
    /\ capListed = {}
    /\ vicReads = {}

\* parse_data_block creates a block of some tag and hands the payload to its
\* decoder; a YCbCr 4:2:0 Capability Map is copied in the same call.
NewBlock ==
    /\ phase = "parse"
    /\ Len(blocks) < MaxBlocks
    /\ \E t \in BlockTags :
         \/ /\ t # Tag.YCBCR420_CAP_MAP
            /\ blocks' = Append(blocks, [tag |-> t, size |-> 0, svds |-> << >>,
                                         all |-> FALSE, bitmap |-> << >>])
         \/ /\ t = Tag.YCBCR420_CAP_MAP
            /\ \E n \in 0..MaxMapBytes : \E bytes \in [1..n -> MapByteValues] :
                 blocks' = Append(blocks, [tag |-> t, size |-> n, svds |-> << >>,
                                           all |-> n = 0, bitmap |-> bytes])
    /\ UNCHANGED <<phase, vpos, bi, capListed, vicReads>>

\* One iteration of parse_video_block or parse_ycbcr420_block: parse_svd on
\* the next byte; a reserved value or a failing calloc gives NULL and the
\* loop continues without it.
SvdByte ==
    /\ phase = "parse"
    /\ blocks # << >>
    /\ blocks[Len(blocks)].tag \in {Tag.VIDEO, Tag.YCBCR420}
    /\ blocks[Len(blocks)].size < MaxSvdBytes
    /\ \E raw \in RawValues, allocOk \in {TRUE, ~AllocMayFail} :
         LET b    == blocks[Len(blocks)]
             kept == {[vic |-> svd.vic, native |-> svd.native, raw |-> raw,
                       pos |-> vpos] : svd \in ParseSvd(raw)}
         IN  blocks' = [blocks EXCEPT ![Len(blocks)] =
                          [b EXCEPT !.size = b.size + 1,
                                    !.svds = IF kept # {} /\ allocOk
                                               THEN Append(b.svds, CHOOSE r \in kept : TRUE)
                                               ELSE b.svds]]
    /\ vpos' = IF blocks[Len(blocks)].tag = Tag.VIDEO THEN vpos + 1 ELSE vpos
    /\ UNCHANGED <<phase, bi, capListed, vicReads>>

\* The parse returns and the result is handed to the printer.
ParseEnd ==
    /\ phase = "parse"
    /\ phase' = "print"
    /\ UNCHANGED <<blocks, vpos, bi, capListed, vicReads>>

\* One iteration of the data block loop of print_cta: the SVDs of a video
\* block are printed with their VICs; a capability map lists the SVDs of
\* all Video Data Blocks it marks; other blocks read nothing modelled.
PrintBlock ==
    /\ phase = "print"
    /\ bi <= Len(blocks)
    /\ LET b == blocks[bi] IN
         CASE b.tag = Tag.VIDEO ->
                /\ vicReads' = vicReads \cup ReadsOf(Accessor("get_svds", b))
                /\ UNCHANGED capListed
           [] b.tag = Tag.YCBCR420 ->
                /\ vicReads' = vicReads
                                 \cup ReadsOf(Accessor("get_ycbcr420_svds", b))
                /\ UNCHANGED capListed
           [] b.tag = Tag.YCBCR420_CAP_MAP ->
                LET listed == {k \in 1..Len(VideoSvds) :
                                 \E m \in Accessor("get_ycbcr420_cap_map", b) :
                                   CapMapSupported(m, k - 1)}
                IN  /\ capListed' = capListed \cup {[svd |-> VideoSvds[k], map |-> bi] :
                                                    k \in listed}
                    /\ vicReads' = vicReads
                                     \cup UNION {VicIndicesRead(VideoSvds[k].vic) :
                                                   k \in listed}
           [] OTHER -> UNCHANGED <<capListed, vicReads>>
    /\ bi' = bi + 1
    /\ UNCHANGED <<phase, blocks, vpos>>

\* print_cta has printed every data block.
PrintEnd ==
    /\ phase = "print"
    /\ bi > Len(blocks)
    /\ phase' = "done"
    /\ UNCHANGED <<blocks, vpos, bi, capListed, vicReads>>

Next == NewBlock \/ SvdByte \/ ParseEnd \/ PrintBlock \/ PrintEnd

Spec == Init /\ [][Next]_vars

-----------------------------------------------------------------------------
(* Properties.                                                             *)

\* The SVD decoding of the spec (section 4.4): 0, 128 and 254..255 are
\* reserved and dropped; 1..127 and 193..253 are non-native with the raw
\* value as VIC; 129..192 are native with VIC = raw - 128.
SpecSvd(raw) ==
    IF raw \in {0, 128, 254, 255} THEN {}
    ELSE IF raw \in 129..192 THEN {[vic |-> raw - 128, native |-> TRUE]}
    ELSE {[vic |-> raw, native |-> FALSE]}

\* Every SVD stored in a Video or YCbCr 4:2:0 Video Data Block has the VIC
\* and native flag the spec gives for its byte.
SvdDecodeAgrees ==
    \A k \in 1..Len(blocks) : \A j \in 1..Len(blocks[k].svds) :
        LET s == blocks[k].svds[j]
        IN  SpecSvd(s.raw) = {[vic |-> s.vic, native |-> s.native]}

\* The accessors a block of each tag answers, as include/libdisplay-info/
\* cta.h documents them ("Returns NULL if the data block tag is not ...").
DocumentedAccessorTag ==
    [get_svds |-> 2, get_ycbcr420_svds |-> 13, get_sads |-> 1,
     get_speaker_alloc |-> 3, get_colorimetry |-> 8,
     get_hdr_static_metadata |-> 9, get_hdr_dynamic_metadata |-> 10,
     get_video_cap |-> 6, get_vesa_dddb |-> 7, get_ycbcr420_cap_map |-> 14,
     get_infoframe |-> 18, get_vesa_transfer_characteristics |-> 4]

\* The data block is a tagged variant (spec sections 3 and 8): for every
\* stored block, the accessors that return a payload are exactly those
\* documented for its tag, so at most one does, and none returns a stale
\* payload for another tag.
AccessorsExclusive ==
    \A k \in 1..Len(blocks) :
        {g \in DOMAIN AccessorTag : Accessor(g, blocks[k]) # {}}
          = {g \in DOMAIN DocumentedAccessorTag :
               DocumentedAccessorTag[g] = blocks[k].tag}

\* di_cta_video_format_from_vic reads only rows of _di_cta_video_formats:
\* every index it reads is below _di_cta_video_formats_len (cta.c:29).
VicLookupInBounds == \A v \in vicReads : v < VicTableLen

\* The capability map is read by SVD position (CTA-861 section 7.5.11, as
\* cta.h:865 documents svd_index): every SVD print_ycbcr420_cap_map lists
\* as 4:2:0 capable has the bit of its own position among the bytes of
\* the Video Data Blocks set.
CapMapByPosition ==
    \A l \in capListed : CapMapSupported(blocks[l.map], l.svd.pos)

=============================================================================
