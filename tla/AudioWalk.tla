------------------------------ MODULE AudioWalk ------------------------------
(***************************************************************************)
(* parse_audio_block and parse_sad (cta.c:233-521): the walk over the      *)
(* 3-byte Short Audio Descriptors of an Audio Data Block, one SAD per      *)
(* step, each decoded by SadDecode and appended to audio->sads.  Each step *)
(* chooses the three bytes it reads from the sets the configuration       *)
(* offers.  The walk is shown to implement DecodeOnce with AudioBlock as   *)
(* its outcome set, which is what CtaParse assumes of this decoder.        *)
(***************************************************************************)
EXTENDS CtaBlocks, SadDecode, Sequences

CONSTANTS
    MaxPayload,   \* the largest payload of the block
    B0Values,     \* values offered for byte 0 of a SAD
    B1Values,     \* values offered for byte 1 of a SAD
    B2Values      \* values offered for byte 2 of a SAD

\* The 5-bit size field of a data block allows at most 31 payload bytes
\* (cta.c:1461-1465).
ASSUME AudioAssumption ==
    /\ MaxPayload \in 0..31
    /\ AllocMayFail \in BOOLEAN
    /\ B0Values \subseteq 0..255 /\ B1Values \subseteq 0..255
    /\ B2Values \subseteq 0..255

\* A plausible bug: the array sized one short of the 10 SADs a 31-byte
\* payload can hold.
MaxAudioEntriesOffByOne == 9

\* EDID_CTA_MAX_AUDIO_BLOCK_ENTRIES (include/cta.h:42).
MaxAudioEntries == 21

VARIABLES
    size,   \* the payload size parse_audio_block was called with
    pc,     \* "loop", or how parse_audio_block returned
    i,      \* the offset of the next SAD
    sads,   \* audio->sads[0 .. sads_len - 1], as decoded records
    raw     \* history: the three bytes each stored SAD was decoded from

vars == <<size, pc, i, sads, raw>>

\* A plausible bug: the loop advances one byte per SAD.
NextSadByte(k) == k + 1

\* The loop advances by the 3 bytes of a SAD.
NextSad(k) == k + 3

\* A plausible bug: the loop runs while a SAD starts inside the payload.
SadStartsInPayload == i < size

\* The loop runs while a whole SAD fits in the payload.
SadFits == i + 3 <= size

Init ==
    /\ size \in 0..MaxPayload
    /\ pc = "loop"
    /\ i = 0
    /\ sads = << >>
    /\ raw = << >>

\* One iteration: parse_sad on the three bytes at i.  An unknown format is
\* skipped; otherwise a failing calloc makes the block fail, and a record
\* is decoded and appended (with the assert of cta.c:500 before it).
Sad ==
    /\ pc = "loop"
    /\ SadFits
    /\ \E b0 \in B0Values, b1 \in B1Values, b2 \in B2Values :
         LET f == SadFormat(b0, b2) IN
         \/ /\ f = NoFormat
            /\ i' = NextSad(i)
            /\ UNCHANGED <<pc, sads, raw>>
         \/ /\ f # NoFormat
            /\ AllocMayFail
            /\ pc' = "error"
            /\ UNCHANGED <<i, sads, raw>>
         \/ /\ f # NoFormat
            /\ sads' = Append(sads, ParseSad(f, b0, b1, b2))
            /\ raw' = Append(raw, <<b0, b1, b2>>)
            /\ i' = NextSad(i)
            /\ UNCHANGED pc
    /\ UNCHANGED size

\* The loop ends when no whole SAD is left; a trailing partial SAD is only
\* complained about (cta.c:512-513).
LoopEnd ==
    /\ pc = "loop"
    /\ ~SadFits
    /\ pc' = "accept"
    /\ UNCHANGED <<size, i, sads, raw>>

Next == Sad \/ LoopEnd

\* The decoder runs to its return on the parser's thread.
Spec == Init /\ [][Next]_vars /\ WF_vars(Next)

\* What the walk has returned, as an outcome of CtaBlocks.
WalkResult ==
    CASE pc = "accept" -> Accept(Len(sads))
      [] pc = "error"  -> Error(Len(sads))
      [] OTHER         -> Outcome("pending", 0, {})

Abstract == INSTANCE DecodeOnce
    WITH Sizes <- 0..MaxPayload, Decoder <- AudioBlock, result <- WalkResult

-----------------------------------------------------------------------------
(* Properties.                                                             *)

\* The assert of cta.c:500 never fails: an Audio Data Block never holds
\* more than EDID_CTA_MAX_AUDIO_BLOCK_ENTRIES SADs.
SadsFit == Len(sads) <= MaxAudioEntries

\* The SAD walk implements the outcome set CtaParse uses for Audio Data
\* Blocks: it returns, with one SAD per whole triplet of a known format at
\* most, and fails only on a calloc failure before the last whole triplet.
AudioRefined == Abstract!Spec

\* The table of include/libdisplay-info/cta.h:325-344: each optional
\* sub-record of a SAD is "NULL unless format is" the formats it lists.
DocumentedSubRecords(f) ==
    {s \in {"lpcm"} : f \in {"LPCM", "LPCM_3D"}}
      \cup {s \in {"mpeg_aac"} : f \in {"MPEG4_HE_AAC", "MPEG4_HE_AAC_V2",
              "MPEG4_AAC_LC", "MPEG4_HE_AAC_MPEG_SURROUND",
              "MPEG4_AAC_LC_MPEG_SURROUND"}}
      \cup {s \in {"mpeg_surround"} : f \in {"MPEG4_HE_AAC_MPEG_SURROUND",
              "MPEG4_AAC_LC_MPEG_SURROUND"}}
      \cup {s \in {"mpeg_aac_le"} : f = "MPEG4_AAC_LC"}
      \cup {s \in {"mpegh_3d"} : f = "MPEGH_3D"}
      \cup {s \in {"enhanced_ac3"} : f = "ENHANCED_AC3"}
      \cup {s \in {"mat"} : f = "MAT"}
      \cup {s \in {"wma_pro"} : f = "WMA_PRO"}

\* Every stored SAD has exactly the optional sub-records the header table
\* gives for its format (spec section 3: present if and only if the format
\* selects it), whatever the other bits of its three bytes.
SubRecordsDocumented ==
    \A k \in 1..Len(sads) :
        sads[k].subs = DocumentedSubRecords(sads[k].format)

\* Byte 1 bits 6 and 5 (192 and 176.4 kHz) are reserved for the MPEG-4
\* AAC family and bits 5, 3 and 0 for AC-4 (CTA-861 table of SAD byte 2);
\* no stored SAD reports a sample rate its format cannot carry.
SampleRatesOfFormat ==
    \A k \in 1..Len(sads) :
        /\ sads[k].format \in Mpeg4Aac => sads[k].rates \cap {"176.4", "192"} = {}
        /\ sads[k].format = "AC4" => sads[k].rates \cap {"32", "88.2", "176.4"} = {}

\* The MAT flags as CTA-861 defines them (and as edid-decode prints them):
\* byte 3 bit 0 says object audio and channel-based PCM are supported, and
\* then bit 1 clear says hash calculation is required.  The spec (section
\* 9) flags cta.c:427 as driving both flags from bit 0.
MatHashFlagFromBit1 ==
    \A k \in 1..Len(sads) :
        sads[k].format = "MAT" =>
            sads[k].mat.requires = (HasBit(raw[k][3], 0) /\ ~HasBit(raw[k][3], 1))

=============================================================================
