------------------------------ MODULE CtaBlocks ------------------------------
(***************************************************************************)
(* The data block dispatcher of libdisplay-info's CTA-861 parser           *)
(* (cta.c, parse_data_block and destroy_data_block) and what each payload  *)
(* decoder it calls can return, for a payload of a given size.             *)
(*                                                                         *)
(* A decoder's result is an outcome: whether parse_data_block stores the   *)
(* block ("accept"), frees it ("skip") or destroys it and fails the parse  *)
(* ("error"), the number of sub-records (SADs, SVDs, InfoFrame             *)
(* descriptors) the block's union points to at that moment, and the       *)
(* complaints a property is about.  The walks over SADs and InfoFrame      *)
(* descriptors are modelled step by step in AudioWalk and InfoFrameWalk,   *)
(* which refine AudioBlock and InfoFrameBlock.                             *)
(***************************************************************************)
EXTENDS Integers

CONSTANTS
    ExtTagValues,     \* values offered for the extended tag byte
    AllocMayFail      \* whether calloc may return NULL

\* enum di_cta_data_block_tag (include/libdisplay-info/cta.h:120-168).
Tag == [AUDIO |-> 1, VIDEO |-> 2, SPEAKER_ALLOC |-> 3,
        VESA_DISPLAY_TRANSFER_CHARACTERISTIC |-> 4, VIDEO_FORMAT |-> 5,
        VIDEO_CAP |-> 6, VESA_DISPLAY_DEVICE |-> 7, COLORIMETRY |-> 8,
        HDR_STATIC_METADATA |-> 9, HDR_DYNAMIC_METADATA |-> 10,
        NATIVE_VIDEO_RESOLUTION |-> 11, VIDEO_FORMAT_PREF |-> 12,
        YCBCR420 |-> 13, YCBCR420_CAP_MAP |-> 14, HDMI_AUDIO |-> 15,
        ROOM_CONFIG |-> 16, SPEAKER_LOCATION |-> 17, INFOFRAME |-> 18,
        DISPLAYID_VIDEO_TIMING_VII |-> 19, DISPLAYID_VIDEO_TIMING_VIII |-> 20,
        DISPLAYID_VIDEO_TIMING_X |-> 21, HDMI_EDID_EXT_OVERRIDE |-> 22,
        HDMI_SINK_CAP |-> 23]

\* has_bit and get_bit_range (bits.c), on a byte value.
HasBit(b, k) == (b \div 2^k) % 2 = 1
GetBitRange(b, hi, lo) == (b \div 2^lo) % 2^(hi - lo + 1)

\* The tag of a data block fresh from calloc (cta.c:1262): no enumerator.
UnsetTag == 0

\* destroy_data_block: the number of the n sub-records of a block with the
\* given tag that it frees; only these four kinds own sub-records.
DestroyDataBlock(tag, n) ==
    IF tag \in {Tag.VIDEO, Tag.YCBCR420, Tag.AUDIO, Tag.INFOFRAME} THEN n ELSE 0

-----------------------------------------------------------------------------
(* Outcomes of decoding one data block payload.                            *)

Outcome(r, a, c) == [res |-> r, allocs |-> a, cmpl |-> c]
Accept(s)   == Outcome("accept", s, {})
Skip(t, c)  == Outcome("skip", t, c)
Error(t)    == Outcome("error", t, {})

\* parse_audio_block/parse_sad: one SAD per whole triplet whose format is
\* known; a failing calloc of a SAD makes the block fail with the SADs
\* allocated so far still in audio->sads.
AudioBlock(n) ==
    LET k == n \div 3 IN
    {Accept(s) : s \in 0..k}
      \cup (IF AllocMayFail THEN {Error(s) : s \in 0..(k - 1)} ELSE {})

\* parse_video_block/parse_ycbcr420_block: one SVD per byte that is not a
\* reserved VIC (and whose calloc succeeds); never fails.
SvdBlock(n) == {Accept(s) : s \in 0..n}

\* parse_speaker_alloc_block: fewer than 3 bytes is a failure.
SpeakerAllocBlock(n) == IF n < 3 THEN {Error(0)} ELSE {Accept(0)}

\* parse_vesa_transfer_characteristics_block: size must be 7, 15 or 31.
VtcBlock(n) == IF n \in {7, 15, 31} THEN {Accept(0)} ELSE {Error(0)}

\* parse_video_cap_block: an empty payload fails.
VideoCapBlock(n) == IF n < 1 THEN {Skip(0, {})} ELSE {Accept(0)}

\* parse_colorimetry_block: fewer than 2 bytes fails.
ColorimetryBlock(n) == IF n < 2 THEN {Skip(0, {})} ELSE {Accept(0)}

\* parse_hdr_static_metadata_block: fewer than 2 bytes fails.
HdrStaticBlock(n) == IF n < 2 THEN {Skip(0, {})} ELSE {Accept(0)}

\* parse_ycbcr420_cap_map: the bitmap is copied into the block; no failure.
CapMapBlock(n) == {Accept(0)}

\* parse_vesa_dddb: the length must be 30; an unknown interface type fails.
VesaDddbBlock(n) == IF n + 2 # 32 THEN {Skip(0, {})}
                    ELSE {Accept(0), Skip(0, {})}

\* parse_hdr_dynamic_metadata_block: fewer than 3 bytes fails; otherwise
\* a sub-block length that overruns or is below 2 fails.
HdrDynamicBlock(n) == IF n < 3 THEN {Skip(0, {})}
                      ELSE {Accept(0), Skip(0, {})}

\* parse_infoframe_block: fewer than 2 bytes fails.  Otherwise the walk
\* over Short InfoFrame Descriptors starts at index 2 or later and either
\* ends exactly at the payload end (each descriptor of type 2..7 allocating
\* one record), overruns the payload, or meets a descriptor of type 0; a
\* failing walk leaves the records it already allocated in ifb->infoframes.
InfoFrameBlock(n) ==
    IF n < 2 THEN {Skip(0, {})}
    ELSE {Accept(s) : s \in 0..(n - 2)}
           \cup {Skip(t, {"InfoFrameOverrun"}) : t \in {0} \cup 0..(n - 3)}
           \cup {Skip(t, {}) : t \in 0..(n - 3)}

\* The inner switch of parse_data_block on the extended tag, for a payload
\* of n bytes after the extended tag byte.
ExtendedBlock(e, n) ==
    CASE e = 0  -> VideoCapBlock(n)
      [] e = 2  -> VesaDddbBlock(n)
      [] e = 5  -> ColorimetryBlock(n)
      [] e = 6  -> HdrStaticBlock(n)
      [] e = 7  -> HdrDynamicBlock(n)
      [] e = 14 -> SvdBlock(n)
      [] e = 15 -> CapMapBlock(n)
      [] e = 32 -> InfoFrameBlock(n)
      [] e \in {8, 13, 18, 19, 20, 34, 35, 42, 120, 121} -> {Accept(0)}
      [] OTHER  -> {Skip(0, {})}

\* parse_data_block: the outcomes of one data block of tag t and size n; a
\* failing calloc of the block itself returns false with nothing allocated.
ParseDataBlock(t, n) ==
    (IF AllocMayFail THEN {Error(0)} ELSE {})
      \cup CASE t = 1 -> AudioBlock(n)
             [] t = 2 -> SvdBlock(n)
             [] t = 4 -> SpeakerAllocBlock(n)
             [] t = 5 -> VtcBlock(n)
             [] t = 6 -> {Accept(0)}
             [] t = 7 -> IF n < 1 THEN {Skip(0, {})}
                         ELSE UNION {ExtendedBlock(e, n - 1) : e \in ExtTagValues}
             [] OTHER -> {Skip(0, {})}

\* The sub-records left allocated and unreachable by the exit of
\* parse_data_block an outcome takes: skip frees only the block
\* (cta.c:1415-1417); error destroys it while its tag is still the one
\* calloc left, because the tag is set only at cta.c:1410 (cta.c:1419-1421).
Leaked(o) ==
    CASE o.res = "accept" -> 0
      [] o.res = "skip"   -> o.allocs
      [] o.res = "error"  -> o.allocs - DestroyDataBlock(UnsetTag, o.allocs)

=============================================================================
