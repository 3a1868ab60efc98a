# Verification of the libdisplay-info CTA-861 parser

This directory holds TLA+ models of the CTA-861 extension block parser of
libdisplay-info 0.1.1 (`src/HyprSource/libdisplay-info-0.1.1/cta.c`). They come
with TLC configurations that model-check them, and with TLAPS proofs of their
main safety properties. `PROJECT.json` is the machine-readable manifest. It
lists:

- the components;
- the runs;
- the mutants;
- the map from each definition to the source lines it translates;
- the findings;
- the hazards;
- the theorems.

## 1. The system

The CTA extension block is a fixed 128-byte buffer. `_di_edid_cta_parse` reads
it in one sequential pass on the caller's thread. It has no callbacks, locks or
suspension points. Its parts are these.

| Part | Code | State it changes |
|---|---|---|
| Controller | `_di_edid_cta_parse` (cta.c:1425-1510) | `cta->revision`, `flags`, `data_blocks[]`/`data_blocks_len`, `detailed_timing_defs[]`/`detailed_timing_defs_len`, `logger`, `errno` |
| Cleanup | `_di_edid_cta_finish` (cta.c:1513-1524) | frees every stored block (with its sub-records) and DTD; leaves the lengths |
| Dispatcher | `parse_data_block` (cta.c:1256-1422) | allocates a `di_cta_data_block`, then stores it, frees it (`skip`) or destroys it (`error`) |
| Payload decoders | `parse_sad`/`parse_audio_block`, `parse_video_block`, `parse_speaker_alloc_block`, `parse_video_cap_block`, `parse_vesa_dddb`, `parse_colorimetry_block`, HDR static/dynamic, VESA transfer characteristics, YCbCr 4:2:0 cap map, `parse_infoframe_block` | fill the block's union and allocate sub-records (SADs, SVDs, InfoFrame descriptors) |
| Failure log | `add_failure`, `add_failure_until` (cta.c:36-57) | appends text to the logger |
| Lookups and accessors | `di_cta_video_format_from_vic` (cta.c:25-33), the `di_*_get_*` getters (cta.c:1527-1680) | none |

**How the parts interact.** The controller first reads a 4-byte header. Byte 2
is `dtd_start`.

- `dtd_start` = 0: the block has no data and the parse stops.
- `dtd_start` inside the header or past the buffer: the block is rejected.
- Otherwise the controller walks the data blocks in `[4, dtd_start)`, then the
  18-byte DTDs in `[dtd_start, 127)`, then the zero padding.

For each data block the dispatcher returns one of three exits:

- it stores the block;
- it skips it, leaving a complaint;
- it fails, and the controller calls `_di_edid_cta_finish` and returns false.

**What is hard.** The control is sequential. The difficulty lies in the exits
taken part-way through a decode, in the arithmetic at the region boundaries,
and in capacity asserts that rest on arithmetic rather than on checks:

- what the three exits free when a decoder has already allocated sub-records;
- the off-by-one arithmetic at the `dtd_start` and `CTA_DTD_END` boundaries;
- the capacity asserts (123 blocks, 6 DTDs, 21 SADs, 61 InfoFrames), which hold
  only because of that arithmetic;
- the cleanup that follows a failure in the middle of a loop.

**What makes the parser correct:**

- it reads only inside the buffer, and each loop stays inside its region;
- the capacity asserts never fire;
- on failure every stored record is released, and records are released
  only by an exit that returns false;
- no allocation becomes unreachable;
- the parse terminates.

## 2. Modules

### CtaParse: the controller and the dispatcher

**The input buffer.** The buffer is not a variable: each byte is read once, by
one consumer. Each step chooses the bytes it reads from constant sets instead:

- `DtdStartValues` for byte 2;
- `BlockSizes` for the 5-bit size field;
- `ExtTagValues` for the extended tag.

`AllocMayFail` says whether `calloc` may return NULL.

**The variables:**

| Variable | Stands for |
|---|---|
| `phase` | where the controller is, or how it returned |
| `dtdStart` | `dtd_start` |
| `i` | the loop offset |
| `nblocks` | `data_blocks_len` |
| `ndtds` | `detailed_timing_defs_len` |
| `heap` | counts of live allocations: stored blocks, their sub-records, DTDs, and strays (allocated, unreachable, never freed) |
| `hiRead` | the highest byte read |
| `log` | the complaints a property is about |

**The actions** map to the code like this:

| Action | Code |
|---|---|
| `Header` | cta.c:1438-1460 (accept, early return, or `EINVAL`) |
| `DataBlockOverrun` | the extent check and finish, 1466-1470 |
| `DataBlock` | one loop iteration with the whole of `parse_data_block`, 1461-1479 |
| `DataBlocksEnd` | the loop exit and offset check, 1481-1483 |
| `TimingDef` | one DTD stored, or the finish path, 1485-1497 |
| `TimingDefsEnd` | the `data[i] == 0` break or the loop bound, plus the padding scan, 1487-1509 |
| `Finish` | `_di_edid_cta_finish` |

**The decoders.** `CtaBlocks` holds the dispatcher and, for each payload
decoder, an operator that returns the set of outcomes a payload of a given
size can produce. An outcome (`Outcome(res, allocs, cmpl)`) records:

- `res`: accept, skip or error;
- `allocs`: the sub-records the block's union points to at that exit;
- `cmpl`: the complaints a property is about.

`ParseDataBlock` is the tag switch of `parse_data_block` (cta.c:1256-1296), and
`ExtendedBlock` is the extended-tag switch (1297-1407). Every exit of those
switches is kept, including the `calloc` failure at 1262-1264.
`DestroyDataBlock` and `Leaked` say which of the `allocs` each exit frees.

**The MC module.** `MC_CtaParse` gives the constant sets for each run.

### ParseOnce: what the parse promises

The abstract contract of `_di_edid_cta_parse`: `status` is `running` until
the parse returns `true` or `false`; `held` says whether the result holds a
record. `Store` may set `held` while running, `ReturnTrue` keeps it, and
`ReturnFalse` clears it; weak fairness on the returns says a parse that is
called returns. `CtaParse` maps to it by `ParseStatus` (`Done` is `true`,
`Failed` is `false`, every other phase `running`) and `Held` (a live data
block, sub-record or DTD). `CtaParse_proofs` proves the safety part of
the refinement (`ParseImplementsParseOnce`); its liveness part, that the
parse returns, is `Termination`. No run checks `Parse!Spec` as a property:
it would say no more than `FailureReleasesRecords`, `ReleaseOnlyOnFailure`
and `Termination` together.

### DecodeOnce: what a decoder promises

The abstract specification of one decoder call: a payload size from `Sizes`,
a result that is `Pending` until one `Decode` step sets it to an element of
`Decoder(size)`, and weak fairness, so the call returns. `CtaParse` relies on
exactly this of every decoder when its `DataBlock` step picks an outcome.

### InfoFrameWalk: `parse_infoframe_block`

The descriptor loop of cta.c:1159-1217, with `parse_infoframe` (1104-1157).
Variables: `size`, `pc` (start, loop, accept, skip), `index`, `stored`
(`infoframes_len`) and `cmpl`.

| Action | Code |
|---|---|
| `Start` | the `size < 2` exit and the processing descriptor header, 1168-1180 |
| `LoopEnd` | `index == size`, 1183-1184 |
| `LoopOverrun` | `index > size`, 1185-1188 |
| `Descriptor` | one descriptor: type 0, the length overrun, or `parse_infoframe` and the store, 1190-1213 |

Each step chooses the header bits (0..7) and the length and type of a
descriptor (0..7, 0..31): all values the bit fields can hold. `WalkResult`
maps the state to an outcome, and `Abstract == INSTANCE DecodeOnce WITH
Decoder <- InfoFrameBlock, result <- WalkResult` is the refinement.

### SadDecode and AudioWalk: `parse_sad_format`, `parse_sad`, `parse_audio_block`

`SadDecode` is the pure decoding of one SAD: `SadFormat` (cta.c:133-231) gives
the format from bits 6..3 of byte 0 and bits 7..3 of byte 2; `ParseSad`
builds the record: `max_channels`, the set of sample rates, the bit rate, the
set of non-NULL sub-records, the MAT flags, the MPEG-H level and the WMA
profile, each from its switch in `parse_sad`. The single-bit copies inside
the other sub-records and the reserved-bit complaints are left out. `HasBit`
and `GetBitRange` (in `CtaBlocks`) stand for `bits.c`, which is not in the
repository, and are modelled from their documented meaning.

`AudioWalk` is the loop of cta.c:507-521. One `Sad` step reads three bytes
from `B0Values`, `B1Values` and `B2Values` and takes one of three paths: an
unknown format is skipped (250-251); a failing `calloc` fails the block
(253-255); otherwise the record is appended. `LoopEnd` is the loop bound.
The history variable `raw` keeps the bytes of each stored SAD for the MAT
property. `Abstract` instantiates `DecodeOnce` with `Decoder <- AudioBlock`.

### VideoBlocks: SVDs, the capability map, the accessors and the printer

A parse result's data blocks and their consumer, di-edid-decode's `print_cta`.

- `NewBlock` appends a block of a tag from `BlockTags`; a YCbCr 4:2:0
  Capability Map copies 0..`MaxMapBytes` bytes (`parse_ycbcr420_cap_map`,
  1091-1102; an empty map sets `all`).
- `SvdByte` is one iteration of `parse_video_block` or `parse_ycbcr420_block`
  (89-130): `ParseSvd` (59-87, the same `if / else if / else` chain) on a
  byte of `RawValues`, with a `calloc` that may fail; a NULL result is
  skipped. The history variable `vpos` is the
  byte's position among the Video Data Block bytes.
- `ParseEnd`, then `PrintBlock` is one iteration of the data block loop of
  `print_cta` (di-edid-decode/cta.c:815-941): Video and YCbCr 4:2:0 blocks
  print their SVDs through `print_vic`, which calls
  `di_cta_video_format_from_vic` (`VicIndicesRead` records the table index it
  reads); a capability map walks the SVDs of all Video Data Blocks with
  `svd_index` (`VideoSvds`, 643-667, the concatenation of the blocks' SVD
  lists written as a recursive function over prefixes) and lists those
  `di_cta_ycbcr420_cap_map_supported` (`CapMapSupported`, 1631-1647) accepts.
- `AccessorTag` is the tag every `di_cta_data_block_get_*` checks
  (1550-1680), and `Accessor` its NULL-on-mismatch result.

The VIC table `_di_cta_video_formats` is generated and not under `src/`; it
is the constants `VicTableLen` and `VicTableRows`. `MC_VideoBlocks` gives them
the values of the CTA-861-H table libdisplay-info 0.1.1 generates: rows for
VICs 1..127 and 193..219, length 220.

## 3. Runs

| Run | Module | Checks | Result |
|---|---|---|---|
| `parse_core` | MC_CtaParse | `TypeOK`, `ReadsWithinRegions`, `NoOffsetMismatch`, `FailureReleasesRecords`, `Termination`, `ReleaseOnlyOnFailure` | pass (~630k states) |
| `parse_capacity` | MC_CtaParse | `CapacityBounds` | pass (~16k states) |
| `infoframe_overrun_not_fatal` | MC_CtaParse | `InfoFrameOverrunAborts` | violation: a spec/code divergence |
| `infoframe_descriptor_leak` | MC_CtaParse | `NoStrayAllocation` | violation: code bug |
| `audio_oom_leak` | MC_CtaParse | `NoStrayAllocation` | violation: code bug |
| `infoframe_walk` | InfoFrameWalk | `InfoFramesFit`, `DecodeRefined` (= `Abstract!Spec`) | pass (~12k states) |
| `audio_walk` | AudioWalk | `SadsFit`, `AudioRefined` (= `Abstract!Spec`) | pass |
| `sad_table` | MC_AudioWalk | `SubRecordsDocumented`, `SampleRatesOfFormat` | pass (~470k states) |
| `mat_hash_flag` | MC_AudioWalk | `MatHashFlagFromBit1` | violation: code bug |
| `video_blocks` | MC_VideoBlocks | `SvdDecodeAgrees`, `AccessorsExclusive` | pass (~1.5M states) |
| `vic_lookup_off_by_one` | MC_VideoBlocks | `VicLookupInBounds` | violation: code bug |
| `cap_map_oom_shift` | MC_VideoBlocks | `CapMapByPosition` | violation: code bug |

**What the properties say.**

- `FailureReleasesRecords` and the action property `ReleaseOnlyOnFailure`:
  a failed parse holds no record, and no step frees part of the result or
  frees it and goes on looping (each `_di_edid_cta_finish` at 1467, 1474
  and 1492 is followed by `return false`).
- `DecodeRefined` and `AudioRefined`: the byte loops of the two decoders
  return once, with an outcome of the set `CtaParse` assumes, so the outcome
  abstraction of `CtaParse` is sound for them.
- `InfoFramesFit` and `SadsFit`: the asserts at cta.c:1209 and cta.c:501.
- `SubRecordsDocumented`: the sub-record table of cta.h:325-344;
  `SampleRatesOfFormat`: the rates each format family reserves. (The
  MPEG-H level's range check, cta.c:406-411, is modelled in `MpeghLevel`
  but not given a property of its own: it would restate that one check.)
- `SvdDecodeAgrees`: the SVD rule of the spec (section 4.4) for every stored
  SVD; `AccessorsExclusive`: the tagged-variant rule (spec section 8), each
  block answers exactly the accessors documented for its tag.
- `VicLookupInBounds`, `CapMapByPosition`, `MatHashFlagFromBit1`: see the
  findings.

**Why the bounds are enough.** The values in `parse_core` cover:

- both rejected ranges of `dtd_start` (2 and 200);
- an empty data region (4);
- a region filled exactly by one maximal block (36 = 4 + 1 + 31);
- regions that blocks overrun (10 with size 31);
- every primary tag;
- extended tags that store, skip and abort.

`parse_capacity` reaches the extreme counts themselves: 123 one-byte blocks
(dtd_start 127), and six DTDs (dtd_start 4). The walks run every payload size
the 5-bit size field allows (InfoFrame payloads lose the extended tag byte, so
30) with every value of the bit fields they read. `sad_table` runs every value
of bytes 0 and 2 (all formats and extended formats) with four patterns of byte
1. `video_blocks` offers the SVD bytes at every boundary of `parse_svd` (0,
127, 128, 129, 192, 193, 254), three blocks, so a capability map can follow
and precede video blocks, and calloc failures.

**Mutants.** Each property of a passing run is broken by a mutant of the code
it is about, listed in `PROJECT.json`: for example a `dtd_start` check that
omits the upper bound, an extent check that forgets the header byte, a first
descriptor index without the 2-byte header, a SAD loop that steps one byte, a
sample-rate switch where the MPEG-4 AAC family falls into the full layout, a
native SVD range ending one value early, a DTD loop that goes on after
the cleanup, and an accessor whose tag check was
copied from its neighbour. The capacity invariants are broken by an array
sized one entry short of what a full payload holds (27 InfoFrames, 9 SADs):
any mutant that stores more entries per byte breaks the refinement first.

**Fairness.** `CtaParse`, `InfoFrameWalk`, `AudioWalk` and `DecodeOnce`
assume `WF_vars(Next)`. The parse and each decoder run to completion on one
thread once called, so some step is always taken while they run.
`VideoBlocks` assumes no fairness and checks only invariants.
`CHECK_DEADLOCK FALSE` is used because the final states are the functions'
returns, where the system really stops.

## 4. Findings

1. **InfoFrame descriptor leak** (cta.c:1416). `parse_infoframe_block` can
   fail after storing descriptors, either on type 0 (1193) or on an overrun
   (1202). `parse_data_block` then jumps to `skip`, which calls only
   `free(data_block)`, so the descriptors leak. Malformed input alone triggers
   it.
2. **Audio SAD leak on OOM** (cta.c:1420). An allocation failure in
   `parse_sad` takes the `error` exit. That exit calls `destroy_data_block`
   while `tag` is still 0, because the tag is set only at 1410. No SAD is freed.
3. **InfoFrame overrun is not fatal** (cta.c:1375). The specification says the
   parse aborts. The code skips the block, and the parse succeeds.

4. **MAT hash flag is always false** (cta.c:427). `requires_hash_calculation`
   is assigned `!has_bit(data[2], 0)` under `if (supports_...)`, which is the
   same bit, so it is false for every input. CTA-861 reads it from bit 1.
5. **VIC lookup off by one** (cta.c:29). `vic > _di_cta_video_formats_len`
   lets `vic == len` through; with the 220-entry table, the non-native SVD byte
   220 makes di-edid-decode read one element past the table.
6. **Capability map applied to the wrong SVD** (cta.c:102). A dropped SVD (a
   reserved byte, or `calloc` failing at cta.c:84) is not stored, and every
   later SVD moves down an index; the capability map counts SVDs by their
   position in the data block, so `print_ycbcr420_cap_map` attributes each
   bit to the wrong SVD.

`OffsetAlwaysMatches` also proves that the offset-mismatch complaint at
cta.c:1481 is dead code.

## 5. Proofs

### CtaParse_proofs

**The invariant.** `IInv` strengthens `TypeOK` with a few facts for each phase:

- in `DataBlocks`: `4 ≤ i ≤ dtdStart < 128`, `nblocks ≤ i − 4`, and `hiRead < i`;
- in `TimingDefs`: `4 ≤ dtdStart ≤ i ≤ 127`, `nblocks ≤ dtdStart − 4`, and
  `18·ndtds ≤ i − dtdStart`;
- after the return: the capacity bounds.

**Why it is needed.** The capacity asserts are not inductive as they stand.
They hold because every stored block used at least one byte of
`[4, dtd_start)` and every DTD used 18 bytes of `[dtd_start, 127)`, and that is
exactly what `IInv` says. The lemma `DtdBound` turns it into `ndtds ≤ 6` and
`nblocks ≤ 123`.

**The argument.** The proof has three parts:

- `InitIInv`: the initial state satisfies `IInv`;
- `NextIInv`: every step preserves `IInv`, with one case per action and one
  case per decoder outcome;
- `IInvSafe`: `IInv` implies the properties.

**Helper lemmas:**

- `OutcomeTyped` and `ExtendedTyped`: every decoder outcome is well formed;
- `FinishTyped`, `HeapStore` and `HeapLeak`: the heap stays well formed.

**Theorems**, each of the form `Spec => []P`, for every value of the constants
allowed by `ConstAssumption`:

- `TypeCorrect` (P = `TypeOK`);
- `ReadsStayInRegions` (P = `ReadsWithinRegions`);
- `OffsetAlwaysMatches` (P = `NoOffsetMismatch`);
- `CapacityNeverExceeded` (P = `CapacityBounds`);
- `FailureFreesAll` (P = `FailureReleasesRecords`). For this theorem `IInv`
  also records that the heap holds no records in `Header` and `Failed`, and
  the lemma `FinishTyped` shows that `Finish` leaves none.

**The action property.** `ReleasedOnlyOnFailure` proves
`Spec => ReleaseOnlyOnFailure`. It needs no strengthening: `StepReleases`
shows, one case per action and per exit of `DataBlock`, that a step from a
well-typed state either grows or keeps each record count or is a failing
exit that zeroes all three; `TypeCorrect` supplies the typing.

**The refinement.** `ParseImplementsParseOnce` proves
`Spec => Parse!Init /\ [][Parse!Next]_<<ParseStatus, Held>>`. `StepRefinesParse`
takes each action in turn: a stored block or DTD is `Store`, a skip, the end
of the data block loop and a stay in the header are stutters, the exits to
`Done` are `ReturnTrue` and the exits to `Failed` are `ReturnFalse`. It uses
the conjunct of `IInv` that the heap is empty in `Header`, so that a return
from the header holds nothing.

**Left to TLC.** `Termination`, which is also the liveness half of the
refinement to `ParseOnce` (the parse returns), is a liveness property, which TLAPS cannot check, so they
is only model-checked.

### InfoFrameWalk_proofs and AudioWalk_proofs

For every `MaxPayload` the 5-bit size field allows (`WalkAssumption`,
`AudioAssumption`) and every set of offered byte values:

- `InfoFramesNeverOverflow`: `Spec => []InfoFramesFit`;
- `SadsNeverOverflow`: `Spec => []SadsFit`;
- `WalkImplementsDecode` (in each module): `Spec => Abstract!Init /\
  [][Abstract!Decode]_<<size, WalkResult>>`, the safety part of the
  refinement.

The inductive invariants say why the asserts hold. For InfoFrames, every
descriptor stored used at least one byte past the 2-byte header, so
`stored + 2 <= index` while `index <= size`, and an `index` past the payload
is only ever set by the header, before any descriptor. For SADs,
`3 * Len(sads) <= i <= size`. Both invariants also carry "a returned walk's
`WalkResult` is in the outcome set", which is what the refinement step
(`StepRefines`) needs: every step either leaves the mapped result unchanged
or takes it from `Pending` to an allowed outcome. `ExitsAllowed` shows each
exit's outcome is in the set.

**What a stored SAD holds.** `AudioWalk_proofs` also proves, for every three
bytes, `SubRecordsAlwaysDocumented` (`Spec => []SubRecordsDocumented`),
and `RatesAlwaysOfFormat` (`[]SampleRatesOfFormat`). The invariant already says `sads \in Seq(SadSet)`,
where `SadSet` is every record `ParseSad` can build from three integers; the
lemma `SadDecoded` shows each such record satisfies both properties.
It rests on `ClassicFormats` (the 4-bit code table, so the MPEG-4 AAC family
and AC-4 are not among the classic formats) and `RateBits` (the sample rate
bits each family reads: 0..4 for MPEG-4 AAC, 1, 2, 4, 6 for AC-4).

### VideoBlocks_proofs

For every set of tags, SVD bytes and block counts `VideoAssumption` allows:

- `SvdsAlwaysAgree`: `Spec => []SvdDecodeAgrees`. The inductive invariant
  `IInv` types `blocks` as a sequence of `BlockRec` whose SVD lists hold only
  records of `SvdRec`, the records whose VIC and native flag are the spec's
  for their byte. `ParseSvdAgrees` shows `parse_svd` decodes every byte
  0..255 as spec section 4.4 does (with `NativeVic`: bits 6..0 of 129..192
  are the byte less 128); `SvdByteKeepsBlock` shows an SVD byte keeps the
  last block in `BlockRec` whether an SVD is kept or NULL is skipped.
- `AccessorsAlwaysExclusive`: `Spec => []AccessorsExclusive`. The property
  depends only on the accessor table: `AccessorTagDocumented` shows the tags
  the accessors check equal those cta.h documents, so it holds in every
  state.

**Left to TLC.** `Termination`, and the liveness half of `DecodeRefined` and
`AudioRefined` (that the walk returns), are temporal properties under
fairness, which TLAPS cannot check. The properties of the violation runs
are false of the code and have no theorem. `VideoBlocks` avoids
`SequencesExt` (whose `Folds` declares RECURSIVE operators) so that it can
be reasoned about: `VideoSvds` is written as a recursive function. The
lemmas about `HasBit` and `GetBitRange` are stated for the literal bit
positions the code uses (`GetBitRange(b, 2, 0) \in 0..7`, bits 6..0 of a
native SVD); a version for a symbolic position needs `2^(k+1) = 2 * 2^k`,
an induction over `Nat` that the installed provers cannot instantiate.

## 6. Not modelled

- **Field decoding of the other blocks.** Speaker allocation, video
  capability, colorimetry, HDR static/dynamic metadata, VESA DDDB and
  transfer characteristics copy bits into enums and floats. `CtaParse` keeps
  their exits; their fields are not modelled.
- **`_di_edid_cta_finish` leaving the lengths** (cta.c:1513). A second call
  would free twice. Inside the parse, `ReleaseOnlyOnFailure` shows the
  cleanup runs once, at an exit that returns false; the caller that could
  call it again after a failed parse is not under `src/`, so no hazard is
  listed for it.
- **The logger pointer** left set on early returns (cta.c:1454). Nothing
  under `src/` reads it after the parse, so it is not a hazard here.
- **Other files.** `cvt.c` is a floating-point formula. The rest of
  `di-edid-decode/cta.c` only formats text. The public headers are
  declarations. The Hyprland protocol header is unrelated generated code.

## 7. Plan

1. Model `parse_hdr_dynamic_metadata_block` and `parse_speaker_alloc_block`
   as walks refining their outcome sets, as for InfoFrames and SADs.
2. Compose `CtaParse` with the walks: an instance whose `DataBlock` step runs
   a walk to completion, showing the outcome abstraction end to end.
3. Compose `ParseOnce` with `DecodeOnce`: the controller's `DataBlock`
   step as a call of an abstract decoder.
