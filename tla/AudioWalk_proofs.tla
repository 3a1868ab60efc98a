--------------------------- MODULE AudioWalk_proofs ---------------------------
(***************************************************************************)
(* Proofs about the SAD walk of parse_audio_block: the assert on           *)
(* audio->sads_len never fails, and the walk implements the safety part of *)
(* DecodeOnce with AudioBlock as its outcome set, for every payload the    *)
(* 5-bit size field allows and every set of byte values; and every SAD it *)
(* stores decodes its three bytes as the header documents.                *)
(***************************************************************************)
EXTENDS AudioWalk, SequenceTheorems, TLAPS

\* The records parse_sad can store.
SadSet == {ParseSad(SadFormat(b0, b2), b0, b1, b2) :
              b0 \in Int, b1 \in Int, b2 \in Int}

\* The inductive invariant.  Every stored SAD used three bytes before i,
\* and i never passes the payload end, so 3 * sads_len <= i <= size while
\* the loop runs; a returned walk's result is an outcome AudioBlock allows.
IInv ==
    /\ size \in 0..MaxPayload
    /\ pc \in {"loop", "accept", "error"}
    /\ i \in Nat
    /\ sads \in Seq(SadSet)
    /\ 3 * Len(sads) <= size
    /\ pc = "loop" => 3 * Len(sads) <= i /\ i <= size
    /\ pc \in {"accept", "error"} => WalkResult \in AudioBlock(size)

LEMMA InitIInv == Init => IInv
BY AudioAssumption DEF Init, IInv

\* The results of the two exits of the walk are in AudioBlock(n).
LEMMA ExitsAllowed ==
    ASSUME NEW n \in Nat, NEW t \in Nat
    PROVE  /\ 3 * t <= n => Accept(t) \in AudioBlock(n)
           /\ AllocMayFail /\ 3 * t + 3 <= n => Error(t) \in AudioBlock(n)
<1>1. 3 * t <= n => t \in 0..(n \div 3)
  OBVIOUS
<1>2. 3 * t + 3 <= n => t \in 0..(n \div 3 - 1)
  OBVIOUS
<1> QED BY <1>1, <1>2 DEF AudioBlock

LEMMA NextIInv == IInv /\ [Next]_vars => IInv'
<1> SUFFICES ASSUME IInv, [Next]_vars PROVE IInv'
  OBVIOUS
<1>0. /\ size \in 0..MaxPayload /\ i \in Nat /\ sads \in Seq(SadSet)
      /\ Len(sads) \in Nat /\ MaxPayload \in 0..31
  BY AudioAssumption DEF IInv
<1>1. CASE Sad
  <2>0. pc = "loop" /\ i + 3 <= size /\ size' = size
    BY <1>1 DEF Sad, SadFits
  <2>1. 3 * Len(sads) <= i
    BY <2>0 DEF IInv
  <2>2. PICK b0 \in B0Values, b1 \in B1Values, b2 \in B2Values :
          LET f == SadFormat(b0, b2) IN
          \/ /\ f = NoFormat
             /\ i' = NextSad(i)
             /\ UNCHANGED <<pc, sads, raw>>
          \/ /\ f # NoFormat
             /\ AllocMayFail
             /\ pc' = "error"
             /\ UNCHANGED <<i, sads, raw>>
          \/ /\ f # NoFormat
             /\ sads' = Append(sads, ParseSad(f, b0, b1, b2))
             /\ raw' = Append(raw, <<b0, b1, b2>>)
             /\ i' = NextSad(i)
             /\ UNCHANGED pc
    BY <1>1 DEF Sad
  <2> DEFINE f == SadFormat(b0, b2)
  <2>3. b0 \in Int /\ b1 \in Int /\ b2 \in Int
    BY AudioAssumption
  <2>4. CASE f = NoFormat /\ i' = NextSad(i) /\ UNCHANGED <<pc, sads, raw>>
    <3>1. i' = i + 3 /\ i' <= size
      BY <2>4, <2>0, <1>0 DEF NextSad
    <3>2. 3 * Len(sads') <= i'
      BY <2>4, <2>1, <3>1, <1>0
    <3> QED BY <2>0, <2>4, <3>1, <3>2, <1>0 DEF IInv
  <2>5. CASE f # NoFormat /\ AllocMayFail /\ pc' = "error"
             /\ UNCHANGED <<i, sads, raw>>
    <3>1. WalkResult' = Error(Len(sads))
      BY <2>5 DEF WalkResult
    <3>2. 3 * Len(sads) + 3 <= size
      BY <2>0, <2>1, <1>0
    <3>3. WalkResult' \in AudioBlock(size')
      BY <3>1, <3>2, <2>0, <2>5, <1>0, ExitsAllowed
    <3> QED BY <2>0, <2>5, <3>3, <1>0 DEF IInv
  <2>6. CASE /\ f # NoFormat
             /\ sads' = Append(sads, ParseSad(f, b0, b1, b2))
             /\ raw' = Append(raw, <<b0, b1, b2>>)
             /\ i' = NextSad(i)
             /\ UNCHANGED pc
    <3>1. ParseSad(f, b0, b1, b2) \in SadSet
      BY <2>3 DEF SadSet
    <3>2. sads' \in Seq(SadSet) /\ Len(sads') = Len(sads) + 1
      BY <2>6, <3>1, <1>0, AppendProperties
    <3>3. i' = i + 3 /\ i' <= size
      BY <2>6, <2>0, <1>0 DEF NextSad
    <3>4. 3 * Len(sads') <= i'
      BY <3>2, <3>3, <2>1, <1>0
    <3> QED BY <2>0, <2>6, <3>2, <3>3, <3>4, <1>0 DEF IInv
  <2> QED BY <2>2, <2>4, <2>5, <2>6
<1>2. CASE LoopEnd
  <2>1. pc' = "accept" /\ UNCHANGED <<size, i, sads, raw>> /\ pc = "loop"
    BY <1>2 DEF LoopEnd
  <2>2. WalkResult' = Accept(Len(sads))
    BY <2>1 DEF WalkResult
  <2>3. WalkResult' \in AudioBlock(size')
    BY <2>1, <2>2, <1>0, ExitsAllowed DEF IInv
  <2> QED BY <2>1, <2>3, <1>0 DEF IInv
<1>3. CASE UNCHANGED vars
  BY <1>3 DEF vars, IInv, WalkResult
<1> QED BY <1>1, <1>2, <1>3 DEF Next

LEMMA IInvFit == IInv => SadsFit
BY AudioAssumption DEF IInv, SadsFit, MaxAudioEntries

\* The assert of cta.c:500 holds for every payload the 5-bit size field
\* allows, whatever the bytes of the SADs and whether or not calloc fails:
\* audio->sads_len stays at or below EDID_CTA_MAX_AUDIO_BLOCK_ENTRIES.
THEOREM SadsNeverOverflow == Spec => []SadsFit
<1>1. Spec => []IInv
  BY InitIInv, NextIInv, PTL DEF Spec
<1> QED BY <1>1, IInvFit, PTL

\* A step of the walk either leaves its result pending or returns one of
\* the outcomes AudioBlock allows, once.
LEMMA StepRefines ==
    IInv /\ IInv' /\ [Next]_vars
      => [Abstract!Decode]_<<size, WalkResult>>
<1> SUFFICES ASSUME IInv, IInv', [Next]_vars
             PROVE  [Abstract!Decode]_<<size, WalkResult>>
  OBVIOUS
<1>1. size' = size
  BY DEF Next, vars, Sad, LoopEnd
<1>2. CASE pc = "loop" /\ pc' \in {"accept", "error"}
  <2>1. WalkResult = Abstract!Pending
    BY <1>2 DEF WalkResult, Abstract!Pending, Outcome
  <2>2. WalkResult' \in AudioBlock(size)
    BY <1>1, <1>2 DEF IInv
  <2> QED BY <1>1, <2>1, <2>2 DEF Abstract!Decode
<1>3. CASE pc = "loop" /\ pc' = "loop"
  BY <1>1, <1>3 DEF WalkResult
<1>4. CASE pc \in {"accept", "error"}
  BY <1>4 DEF Next, vars, Sad, LoopEnd, WalkResult
<1> QED BY <1>2, <1>3, <1>4 DEF IInv

(***************************************************************************)
(* What parse_sad stores, for every three bytes: the decoded fields of a   *)
(* SAD depend on its format the way the header and CTA-861 say.            *)
(***************************************************************************)

\* The fourteen formats of the 4-bit code field (cta.c:138-185).
LEMMA ClassicFormats ==
    Classic = {"LPCM", "AC3", "MPEG1", "MP3", "MPEG2", "AAC_LC", "DTS",
               "ATRAC", "ONE_BIT_AUDIO", "ENHANCED_AC3", "DTS_HD", "MAT",
               "DST", "WMA_PRO"}
BY DEF Classic, CodeFormat

\* The sample rate bits parse_sad reads for the MPEG-4 AAC family and for
\* AC-4 (cta.c:302-345).
LEMMA RateBits ==
    /\ \A f \in Mpeg4Aac : SampleRateBits(f) = 0..4
    /\ SampleRateBits("AC4") = {1, 2, 4, 6}
<1>1. ASSUME NEW f \in Mpeg4Aac PROVE SampleRateBits(f) = 0..4
  <2>1. f \notin Classic \cup {"DRA", "MPEGH_3D", "LPCM_3D"}
    BY ClassicFormats DEF Mpeg4Aac, MpegSurround
  <2>2. f \in Mpeg4Aac /\ f # "AC4"
    BY DEF Mpeg4Aac, MpegSurround
  <2> QED BY <2>1, <2>2, Zenon DEF SampleRateBits
<1>2. SampleRateBits("AC4") = {1, 2, 4, 6}
  <2>1. "AC4" \notin Classic \cup {"DRA", "MPEGH_3D", "LPCM_3D"} \cup Mpeg4Aac
    BY ClassicFormats DEF Mpeg4Aac, MpegSurround
  <2> QED BY <2>1, Zenon DEF SampleRateBits
<1> QED BY <1>1, <1>2

\* A stored SAD has the documented sub-records and no sample rate its
\* format cannot carry.
LEMMA SadDecoded ==
    ASSUME NEW s \in SadSet
    PROVE  /\ s.subs = DocumentedSubRecords(s.format)
           /\ s.format \in Mpeg4Aac => s.rates \cap {"176.4", "192"} = {}
           /\ s.format = "AC4" => s.rates \cap {"32", "88.2", "176.4"} = {}
<1>1. PICK b0 \in Int, b1 \in Int, b2 \in Int :
        s = ParseSad(SadFormat(b0, b2), b0, b1, b2)
  BY DEF SadSet
<1> DEFINE f == SadFormat(b0, b2)
<1>2. s.format = f /\ s.subs = SubRecords(f) /\ s.rates = SampleRates(f, b1)
  BY <1>1 DEF ParseSad
<1>3. s.subs = DocumentedSubRecords(s.format)
  BY <1>2 DEF SubRecords, DocumentedSubRecords, Mpeg4Aac, MpegSurround
<1>4. s.format \in Mpeg4Aac => s.rates \subseteq {"32", "44.1", "48", "88.2", "96"}
  BY <1>2, RateBits DEF SampleRates, RateOfBit
<1>5. s.format = "AC4" => s.rates \subseteq {"44.1", "48", "96", "192"}
  BY <1>2, RateBits DEF SampleRates, RateOfBit
<1> QED BY <1>3, <1>4, <1>5
\* What holds of each SAD holds of every SAD the walk has stored.
LEMMA IInvDecoded ==
    IInv => SubRecordsDocumented /\ SampleRatesOfFormat
<1> SUFFICES ASSUME IInv, NEW k \in 1..Len(sads)
             PROVE  /\ sads[k].subs = DocumentedSubRecords(sads[k].format)
                    /\ sads[k].format \in Mpeg4Aac
                         => sads[k].rates \cap {"176.4", "192"} = {}
                    /\ sads[k].format = "AC4"
                         => sads[k].rates \cap {"32", "88.2", "176.4"} = {}
  BY DEF SubRecordsDocumented, SampleRatesOfFormat
<1>1. sads[k] \in SadSet
  BY DEF IInv
<1> QED BY <1>1, SadDecoded

\* Every SAD parse_audio_block stores has exactly the optional sub-records
\* that include/libdisplay-info/cta.h documents for its format.
THEOREM SubRecordsAlwaysDocumented == Spec => []SubRecordsDocumented
<1>1. Spec => []IInv
  BY InitIInv, NextIInv, PTL DEF Spec
<1> QED BY <1>1, IInvDecoded, PTL

\* No SAD parse_audio_block stores reports a sample rate that its format's
\* layout of byte 1 reserves (176.4 and 192 kHz for MPEG-4 AAC; 32, 88.2
\* and 176.4 kHz for AC-4).
THEOREM RatesAlwaysOfFormat == Spec => []SampleRatesOfFormat
<1>1. Spec => []IInv
  BY InitIInv, NextIInv, PTL DEF Spec
<1> QED BY <1>1, IInvDecoded, PTL

\* The SAD walk refines the safety part of DecodeOnce: it starts pending on
\* a payload size the block allows and returns at most once, an outcome of
\* AudioBlock (the liveness part, AudioRefined, is checked by TLC).
THEOREM WalkImplementsDecode ==
    Spec => Abstract!Init /\ [][Abstract!Decode]_<<size, WalkResult>>
<1>1. Init => Abstract!Init
  BY DEF Init, Abstract!Init, WalkResult, Abstract!Pending, Outcome
<1>2. Spec => []IInv
  BY InitIInv, NextIInv, PTL DEF Spec
<1> QED BY <1>1, <1>2, StepRefines, PTL DEF Spec

=============================================================================
