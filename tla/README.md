# A verification of the SZ lossy compressor

SZ compresses arrays of numbers within an error bound the user chooses. This
directory holds TLA+ models of the parts of the library where its correctness is
decided, TLC configurations that check them on small instances, and proofs, checked
by TLAPS, of what holds for every value of the constants. Paths are relative to
`src/sz/src/` unless they say otherwise.

## 1. The system

SZ is a C library driven through `sz.c`; a call runs to its end before its caller goes
on. With one exception, the 3D coder of `sz_omp.c`, which works with a team of OpenMP
threads, nothing in it is concurrent. What makes it hard is state that outlives a call (two
global records of parameters, the set of registered variables, the data of the previous time
step), and the stream, which is written by one process and read by another that has to go
through the same motions: most of the code exists twice, in a `sz_*.c` and an `szd_*.c`.

| Component | State | Operations | Talks to |
|---|---|---|---|
| Session (`sz.c`, `conf.c`) | `confparams_cpr`, `confparams_dec`, `exe_params` | `SZ_Init`, `SZ_Init_Params`, `SZ_compress*`, `SZ_decompress*`, `SZ_Finalize` | every codec reads and writes the records |
| Variable registry (`VarSet.c`) | a linked list, `lastVar`, `count` | `SZ_registerVar`, `SZ_deregisterVar(_ID)`, `SZ_freeVarSet` | walked by the time-series calls |
| Time series (`sz.c`, `sz_float_ts.c`, `szd_float_ts.c`) | `hist_data` and `compressionType` of each variable, `sz_tsc->currentStep` | `SZ_compress_ts`, `SZ_decompress_ts`, both `_select_var` | the registry, the quantizer |
| Quantizer (`sz_float.c`, `szd_float.c` and their `_ts` variants) | the block: type codes, exact entries, rebuilt values | `SZ_compress_float_*D_MDQ`, `decompressDataSeries_float_*D` | the entropy stage, exact-value storage |
| Regression coder (`sz_float.c`, `szd_float.c`) | two strip buffers, plane coefficients, four streams | `*_nonblocked_with_blocked_regression` | the entropy stage |
| Integer coders (`sz_int*.c`, `sz_uint*.c`) | codes, exact bytes | `SZ_compress_args_int32` and seven siblings | Huffman |
| Exact-value storage (`CompressElement.c`, `TypeManager.c`, `Dynamic*Array.c`) | leading bytes, middle bytes, residual bits | `compressSingleFloatValue`, `addExactData` | the quantizer |
| Entropy stage (`transcode.c`, `Huffman.c`, Zstandard) | the code array, a bit stream | `encode_with_fse`, `decode_with_fse`, Huffman, Zstandard | the container |
| Container (`TightDataPointStorageF.c`) | the flag byte and the fields of the stream | `convertTDPStoFlatBytes_float`, `new_TightDataPointStorageF_fromFlatBytes` | shares `SZ_SIZE_TYPE` with the session |
| OpenMP blocks (`sz_omp.c`) | one allocation each of row buffers, codes, results; counts per block | `SZ_compress_float_3D_MDQ_openmp` and its decompressor, in two precisions | Huffman |
| Other codecs: double, point-wise relative (`*_pwr.c`), random access, `exafelSZ.c`, `pastri.c` | as the float codec | as the float codec | |
| Shells: HDF5 filter, Fortran and Python bindings, ADIOS and NetCDF readers | none | argument conversion, I/O | the session |
| zlib, Zstandard | third party | | |

`PROJECT.json` lists all of them with their status.

### The hard behaviours, and what correctness means

* **Quantizer.** Encoder and decoder run the same prediction on the same rebuilt numbers,
  and meet only through two streams. A code 0 must have exactly one exact entry, codes must
  fit the alphabet, float rounding must not break the bound, and the decoder must rebuild
  exactly what the encoder predicted from, since the encoder keeps these as the history of
  the next time step without ever decompressing.
* **Time series.** Nothing in a frame says what it was made from. A reader must get the right
  data from a snapshot on, after restarts of either side, with frames skipped or repeated, with
  constant frames, and with frames whose codes were dropped for the raw numbers; and a writer
  that reads frames of its own overwrites what it predicts from.
* **Registry.** The links, the pointer to the last node and the count are maintained
  separately; no variable may be lost or left behind, and a sequence of variables is what
  callers think they have.
* **Entropy stage.** Codes must survive the coder at every magnitude; the offsets of ADT-FSE
  are written forwards and read backwards, so a single wrong width ruins all of them. The
  Huffman tree is stored with indices of three widths and read on machines of either byte
  order, and codes are written a `long` at a time into bytes that are partly used.
* **Exact values.** One value is spread over three streams, each with a cursor of its own, and
  what is left out is what the value before it, as the *decoder* knows it, has in common with it.
* **Integers.** The bound is a real number and the values are not: rebuilt values are truncated,
  clamped for narrow types and converted with an open outcome for wide ones.
* **Regression.** The compressor never has the array its decompressor predicts from: it keeps
  the surfaces of blocks in two buffers that change places.
* **OpenMP blocks.** The threads share every array; only offsets keep them apart, each
  works on the block of its thread number, whatever the iteration it was given, and the coder of
  a block takes its first two values for granted, however short the block is.
* **Container.** A reader knows only the flag byte; writer and reader lay out the fields in
  two functions of their own and share a global that says how wide a size is.
* **Session.** Whatever calls went before, a compression works with the bound and the number
  of intervals its caller asked for, and does not bring the process down.

## 2. The modules

| Module | Models | Abstract specification |
|---|---|---|
| `Quantizer` | one block through the coder and its decoder | `ErrorBounded`, by `PromiseKept` |
| `VarSet` | the linked list on a heap | `VarRegistry`, by `RegistryImplemented` |
| `TimeSeries` | a writer, its frames and a reader in another process | |
| `TypeStream` | the code array through Huffman, Zstandard or ADT-FSE | |
| `Container` | flag byte and field layout, writer and reader | |
| `Session` | the calls of the interface on the global records | |
| `OmpBlocks` | seven parallel loops over shared arrays | |
| `ExactData` | exact values through their three streams | `ExactStore`, by `StoreImplemented` |
| `Huffman` | tree, storage, bit writer, both decoders | |
| `IntegerCodec` | the coder of 8-, 16- and 32-bit integers | |
| `Regression` | the blockwise 2D coder with planes | |
| `QuantizerProofs`, `SessionProofs`, `TimeSeriesProofs`, `IntegerCodecProofs`, `VarSetProofs`, `RegressionProofs`, `OmpBlocksProofs` | the proofs of one module each | |
| `StreamProofs` | the proofs of the three parts of a stream: `Container`, `ExactData`, `TypeStream` | |
| `MC*` | the small instances for TLC | |

They compose along their abstractions: `Quantizer` and `Regression` take of exact storage what
`ExactData` shows (a value comes back in its place, within the precision), `TypeStream` takes
Huffman for the lossless code that `Huffman` shows it to be, and `TimeSeries` takes from
`InSync` that encoder and decoder end a frame with the same history.

`StreamProofs` extends three specifications at once. So that their names do not meet, those of
`Container` are `CInit`, `CNext`, `CSpec` and `CTypeOK`, those of `TypeStream` `TSInit`, `TSNext`,
`TSSpec` and `TSTypeOK`; `ExactData` keeps the plain ones.

Definitions marked "Mutant of" in their comment are variants with a plausible bug. They take
part in no specification; each shows that a property would notice the bug.

### Quantizer

`data` and `hist` are the values read so far and what the previous step left at their
positions; `types`, `exact` and `recon` are `type[]`, the entries added by `addExactData`,
and the rebuilt values (`P0`/`P1`, `last3CmprsData`, `hist_data`); `out` and `next` are the
decoder's output and its cursor in the exact stream. One turn of the coding loop is one of
four actions: the first values are stored exactly (`EncodeForced`), a value out of range is
stored exactly (`EncodeUnpredictable`), a value in range is quantized (`EncodeQuantized`),
or quantized, found outside the bound by the double-check and stored exactly
(`EncodeRoundingFailed`). `DecodeExact` and `DecodeQuantized` are the turns of the decoder.

Numbers are integers on a grid like that of floating point: exact up to `Mantissa`,
multiples of `Ulp` above. So rounding really happens and the double-check has something to
reject. `compressSingleFloatValue` is abstracted to what its callers rely on: some
representable number within the bound. Three predictors are modelled: the previous value
(1D), 2D Lorenzo, and the previous time step (1D temporal).

The range test is where the coders differ. The 2D coders compute a number of intervals, test it
and take the code from it (`OneQuotient`). The 1D coders compare the distance with `checkRadius` and
take the code from another quotient (`sz_float.c:574-597`), and both of these are floats: each
may be off by up to `RoundOff` where distances are too large to be exact (`Seen`). `Codes` is the
set of codes a value can get. `Inclusive` is the test of `sz_float_ts.c:144`, which says `<=` where
the others say `<`. Either way a distance at the edge of the range can get a code it should not
have, 0 or one behind the alphabet; `EdgeFree` says that a block has no such distance.

### VarSet

`heap` is what every address holds, live or not; `live` is what `malloc` handed out and
`free` did not take; `List` is what a walk from the header finds. `Unlink` is the body the
two deregistrations share. By id, whether the node was the last is read from it after it was
freed, so that the answer can be either; by name, `lastVar` is left alone. An id is any `int`,
stored as a byte and compared as it was given; `count` has `CountValues` values and wraps. Two
history variables say when things have gone wrong: `stale`, when `lastVar` may not be the last
variable any more, and `lost`, when a variable was added since.

### TimeSeries

An array is represented by the number of the frame it was compressed for. `encHist`,
`encType` and `currentStep` belong to the writer, `decHist` and `data` to the reader. A
frame holds an entry for each selected variable: its form (constant, coded, or stored raw)
and whether it is a snapshot or temporal. What is not in the stream is history: `base`, the
array an entry was made from, `asked`, the `cmprType` of the call, the frame's `step`, and
`log`, the frames a reader has used. `Decompress` takes any frame in any order, with any
selection, and `RestartDecoder` loses the reader's state. The writer may be restarted
(`RestartEncoder`), register a variable anew (`RegisterAnew`), and read frames in its own
process (`DecompressHere`), where reading moves `hist_data`, `compressionType` and
`currentStep` that writing goes on with. Each of the three is a *break*; entries note the
numbers of the last ones (`started`, `born`, `readAt`), so that properties can say which frames
they are about.

### TypeStream

`EncodeType` is one turn of the encoding loop, `EncodeEnd` the call of FSE, which may return
0 (not compressible) or 1 (a single symbol); `DecodeFse` is one turn of the decoding loop,
from the last code to the first. `bits` is the bit stream as a sequence of values with
widths; reading with a width other than the one written returns anything. `decoded` is the array
the decoder fills. The class tables
are those of `include/transcode.h`. Huffman carries the codes as they are; Zstandard gets
16-bit words and they come back through a `short`.

### Container

A byte is the set of its bits, a field its name and its width. `Written` and `Expected` are
the field sequences of the writer and of the reader, `Flags` and `Parsed` the two sides of
the flag byte. `Receive` brings in a stream from a machine with 4-byte sizes. A
field nobody sets holds any of `Leftover`, what `malloc`ed memory can have in it.

### Session

One action per call. `asked`, `since` and `last` are history: what the last initialisation
asked for, what kinds of calls came since that brought bounds or intervals of their own, and
what the last compression did. Data are one-dimensional floats known by the size of their
value range; `RealPrecision` is `getRealPrecision_float`. Every compression writes its bound
and mode back into `confparams_cpr` (`AfterCompression`), decompression clears `exe_params`
(`SZ_decompress`), and `SZ_compress_args` repairs a capacity of zero (`Repaired`). Calls that
need an initialised library are only made on one. All calls, modes and streams are in one
specification; `since` lets a property speak of the histories it holds for. There are two ways for
the process to go down: a plain compression after a time step, and a time step when the capacity
is 0, since only `SZ_compress_args` repairs it (`sz.c:304-309`) and the temporal coder builds
its Huffman tree for that many codes (`sz_float_ts.c:79-84`).

### OmpBlocks

A value of the array is known by its position, and so is its code. `stage` is the parallel
loop at work, `left` the iterations each thread has still to do; `Open` takes a team, which
may be smaller than asked for, and a distribution of iterations, even (`Static`) or any. A turn
of a loop body is one action, except quantization, which begins and ends, so that two threads
can be in each other's row buffers (`rows`). The serial code between two loops is `Join*`;
`Crash` is the use of an index or length nobody wrote, or a code written outside the array.
`Offset`, `Before` and `ChunkLength` are the sums and divisions in which the threads' parts are
computed. A block with one value in a row, or none, is *thin*: its first two values are coded all the
same (`sz_float.c:5623-5643`), which are values of its neighbours. `Strays` are the values taken
so, with the places of code and result they are written to (`StrayCodes`, `StrayCells`); there the
code is `Wrong`, and what the block's thread rebuilds is open. The second value of a row of one
also lies in the row buffer of the next thread (`OneValueRooms`).

### ExactData

`given` are the values to store, as bytes; `leadNum`, `exactMidBytes` and `resiBits` the
growing arrays; `Finish` packs the first and the last (`PackLead`, `PackResidual`, which is the
recursive function `Packing`, one turn of its loop after the other); `RecoverExact`
is a turn of the decoder with its cursors `k`, `p` and `curByteIndex`. Required bits are what
`reqLength` computes from range and precision, clamped at both ends. Both precisions are
modelled; they differ in three constants.

### Huffman

`Insert` and `Merge` are the heap (`qinsert`, `qremove`; which of two equal children is taken
depends on evaluation order in C, so both are tried), `StoreTree` numbers the tree in preorder
and lays it out at the width its node count asks for, `EncodeNext` writes one code through a
`long`, with the free bits of the byte before (`lackBits`), `Reconstruct` reads the arrays on a
machine of the same or the other byte order, and `DecodeBit` and `DecodeTable` are `decode` and
`decode_MSST19`. The thresholds 256 and 65536 are constants of the model.

### IntegerCodec

`WithinRange` and `Begin` choose between a constant and a coded block, `EncodePredicted` and
`EncodeExact` are the turns of the loop, `DecodeExact`, `DecodePredicted` and `DecodeUncoded` those
of the reader. A reader that meets more codes 0 than there are exact values goes on reading the
memory behind them (`ExactAt`). A block that does not get smaller is stored as it is; in one
dimension two values from behind the array go with it (`stored`, `Behind`; `sz_int32.c:365`).
The type, its bytes and its sign are part of the input; `Word` is assignment to the type,
`Clamp` what the coders of 8 and 16 bits do, and `Convert` what C makes of a double that does
not fit, which is open: writer and reader each wrap or saturate.

### Regression

A cell is coded at a time. `cur` and `next` are the two strip buffers, `recon` (history) what the
compressor takes the decompressor to rebuild. `BeginLorenzo` and `BeginPlane` open a block;
a plane's coefficients are quantized against those of the last one (`Coded`). `Visible` and
`Below` say what a block leaves in the buffers for its neighbours, `Step` moves to the next
cell, block or strip. `OpenLorenzo`, `OpenPlane` and `DecodeValue` are the decompressor on its
whole array. Which predictor a block gets, and its plane, are any: the sampling and the fit
decide how well a block is coded, not whether it is coded rightly. The variant with a mean
value is dead code (`sz_float.c:6985` sets `use_mean` to 0) and is left out.

## 3. What the runs check

`tlc -workers 2 -config X.cfg M` for each row; `PROJECT.json` names modules and properties.

| Run | Shows | Bounds, and why they are enough | States |
|---|---|---|---|
| `quant_2d` | streams aligned, codes in the alphabet, decoder in sync, bound kept, `ErrorBounded` implemented | five values in rows of three: first row, first column and full Lorenzo all occur; values in range, out of range, exactly at the edge, and that fail the double-check; distances off by one | 526 153 |
| `quant_temporal` | with two roundings and the inclusive test, bound and alignment hold unless a prediction error is within rounding of the radius | four values, history on both sides; distances inside, outside and at the edge, off by one | 232 275 |
| `var_set` | every walk is safe; count, last pointer and reachability until a removal spoils the end of the list and something is added; `VarRegistry` implemented | three addresses, duplicate names, ids at both ends of a byte and one beyond, a count that wraps at three; reads after free give anything; addresses are symmetric, since the code only compares them | 34 913 |
| `time_series` | a chain of coded frames gives the data of its step; a reader of periodic frames recovers within a period | three frames, three reads, two breaks, a period of two: a snapshot, a temporal frame and one after a break between them; one variable, as each has its own history, and a frame without it stands for a selection | 4 520 136 |
| `type_stream` | codes survive all three coders, offsets fit, the bit stream is used up | three codes out of the edges of every class and both ends of the alphabet, 32768 intervals, the largest number that works for all three | 716 673 |
| `container` | every stream is read as it was laid out unless `protectValueRange` or an unset `entropyType` sets a bit of another field | all settings and kinds, any leftovers in memory; one stream at a time, since streams meet only in `exe_params` | 53 172 |
| `session` | bound, intervals and survival, in the histories the properties name | all modes; bounds below, between and above the relative ones; a constant data set; streams of own and foreign settings; no bound on the number of calls | 125 142 |
| `omp_blocks` | with full teams and no thin block the array comes back in place, each code is counted once; every call returns or dies of unwritten memory | four blocks, sides that the grid divides and does not, teams of two and four, blocks with and without exact values; all interleavings | 12 472 |
| `exact_data` | both sides agree bit for bit, streams used up, `ExactStore` implemented | up to five values with none, some and all leading bytes equal, every number of required bits and one beyond both ends, both precisions | 1 186 071 |
| `huffman` | optimal code, right sizes, within the buffer, round trip but for one case | trees of one to five leaves of every shape, so all three widths (at 4 and 8 nodes), codes across several bytes, both byte orders, both decoders | 28 360 |
| `integers` | codes in the alphabet and 0 exactly for the values without a prediction in range, reader in sync, bound kept up to truncation | bytes of two bits, so all 8-bit blocks of four values; wider types at their ends and around powers of two, with an error of 32 bits that wraps; bounds that are fractions, and not | 3 715 868 |
| `regression` | strip buffers agree with the whole array, bound kept, four streams used up | blocks of two in arrays of two and three strips and of one, early and late block sizes, a spike at six places on four slopes, three planes | 258 792 |

**Fairness.** Only `OmpBlocks` runs by itself. `FairSpec` has weak fairness for each thread and
for the thread that goes on after a loop: the operating system runs every thread of a team,
and none waits for anything but the barrier. Under it `Returns` holds, whatever teams are
given. Everywhere else a behaviour is a sequence of calls, nothing waits or retries, and whether
a call is made is up to the caller: no fairness is assumed and no liveness claimed.
`CHECK_DEADLOCK FALSE` stands where a behaviour really ends (a block is decoded, the registry
is released, the process is dead). `Huffman` has no such exemption: its one final state loops
(`Terminated`), so that a coder stuck anywhere else is a deadlock.

### Where the code and its documentation disagree

Each of these has a property that states the expectation and fails. Where a configuration
is named, it is a file of its own (`tlc -config X.cfg M`); *in* a configuration means that the
property fails when it stands there in place of the configuration's own. The passing runs
exclude the case through a constant or in the property, so that they check everything else.

| Configuration | Fails | Because |
|---|---|---|
| in `VarSet` | `AlwaysReachable` | `SZ_batchDelVar` does not move `lastVar` (`VarSet.c:146-168`), and `SZ_batchDelVar_ID` reads `q->next` after `free(q)` (`VarSet.c:131-135`); the next registration is appended to the wrong node; excluded by `lost` |
| `TimeSeriesEntropy` | `ChainSufficesUnlessStored` | temporal frames are always decoded as Huffman (`szd_float_ts.c:36-38`); excluded by `EntropyType` |
| `TimeSeriesUnknown` | `SurvivesUnknownVariable` | the lookup is used before it is tested (`sz.c:1168`, `1244-1250`); excluded by `DecoderVars` |
| in `TimeSeries` | `ChainSuffices` | storing raw numbers is decided after the history has been overwritten (`sz_float.c:751`), and a writer's own readings move its history; excluded in the property |
| in `TimeSeries` | `RightWithinPeriodAlways` | a variable registered anew starts from zero in the middle of a period (`VarSet.c:86`), and a reading sets `currentStep` back (`sz.c:1156`); excluded by `Unbroken` |
| in `QuantizerTemporal` | `BoundKept` | `<=` where all other coders say `<` (`sz_float_ts.c:144`); excluded by `EdgeFree` |
| `Quantizer1D` | `StreamsAligned` | `checkRadius` and `recip_precision` are rounded each for itself, so that a value in range can get the code 0 (`sz_float.c:574-597`); excluded by `EdgeFree` |
| `TypeStreamZstd` | `RoundTrip` | codes from 32768 come back negative (`szd_float.c:244`); excluded by `Intervals` |
| `TypeStreamWide` | `RoundTripIfCoded` | classes run past the table (`transcode.c:68`); excluded by `Intervals` |
| in `TypeStream` | `RoundTrip` | sizes 0 and 1 of FSE mean "all 0" to the decoder (`transcode.c:155`); excluded in the property |
| `ContainerConstant` | `ReadAsWritten` | `entropyType` of a constant stream is never set (`TightDataPointStorageF.c:829`); excluded by `LeftoverHarmless` |
| in `Container` | `ReadAsWritten` | bit 4 of the flags is `entropy_type`'s and `protectValueRange`'s (`TightDataPointStorageF.c:838`); excluded by `ProtectHarmless` |
| in `Session` | `BoundNeverLooser` | a call's bound is stored in the settings (`sz_float.c:3545-3596`); excluded by `since` |
| in `Session` | `BoundNotLooserAnyMode` | written back, a bound only grows under `ABS_OR_REL`, and PSNR becomes ABS (`sz_float.c:3583`); excluded by `PlainModes` |
| in `Session` | `OwnIntervalsAlways`, `OwnIntervalsAlone` | decompression takes `optQuantMode` from the stream (`ByteToolkit.c:977`), and `SZ_Init_Params` does not pass `quantization_intervals` on (`sz.c:75-94`); excluded by `since` and `Searching` |
| in `Session` | `NeverCrashes` | `szMode` stays temporal (`sz.c:1064`, `sz_float.c:716-741`), and a time step repairs no capacity of 0 that a decompression left (`sz_float_ts.c:79-84`); excluded by `since` |
| in `Session` | `CrashNeedsTimeStep` | a fixed number of intervals leaves no table to search after a decompression (`sz.c:304-309`); excluded by `Searching` |
| `OmpThin` | `RoundTripIfFull` | the first two values of a block are coded whatever its length (`sz_float.c:5623-5643`); excluded by `Thick` |
| `OmpSchedule`, `OmpTeam` | `RoundTripIfRegular`, `RoundTrip` | a thread works on the block of its number, so another schedule or a smaller team leaves blocks out (`sz_omp.c:164`); excluded by `Static` and `full` |
| `OmpResidue` | `CountedOnce` | the unsigned `block_residue` underflows (`sz_omp.c:1018`); excluded by the shapes |
| `OmpDouble` | `RoundTripIfRegular` | the double decompressor skips the width of a value where the compressor wrote less; excluded by `Types` |
| in `Huffman` | `RoundTrip` | the loop index is not reset before the states (`Huffman.c:722`); excluded in the property |
| in `IntegerCodec` | `InSyncAnyRange` | a range of exactly 256 gets one byte (`dataCompression.c:26`); excluded by `Fits` |
| in `IntegerCodec` | `InSyncAnyError` | the difference of two distant `int32_t` wraps and is taken for small (`sz_int32.c:274`), so that its code can be the 0 of an exact value that was not stored; excluded by `ErrorFits` |
| in `IntegerCodec` | `BoundKept` | rebuilt values are truncated while the bound is a fraction (`sz_int32.c:281`); excluded by its second alternative |
| in `IntegerCodec` | `BoundKeptUnlessFraction` | predictions near the ends of 32 bits wrap (`sz_int32.c:264`); excluded by `Roomy` |

## 4. What is proved

Eight modules hold theorems; `PROJECT.json` lists them with the properties they state.

**`QuantizerProofs`** - for every array length, bound, radius, row length, grid and
predictor. The properties are not inductive: that a decoded value is right needs that the
code at its position describes the rebuilt value, and that needs the number of zeros before
it to be the place of its exact entry. `IInv` says, besides `TypeOK`, that nothing is decoded
while encoding, that the first positions have code 0, and that, as long as the block is
*safe*, each position is `Described` (its code is in the alphabet, its rebuilt value within
the bound, and the code leads to it), the streams are aligned, and the decoder is `Following`
(a prefix is rebuilt, and the cursor is the number of zeros in it). *Safe* means the strict
range test on the number the code is taken from, or no value near the edge so far (`EdgeFree`).
`TypeCorrect` and `SoundnessUnlessEdge` need nothing more than the assumptions on the constants;
`Alignment`, `Alphabet`, `Synchronised`, `ErrorBound` and the refinement of `ErrorBounded` are
for the strict test on one quotient. The arithmetic core is `StateBound`: below the radius a
distance has a code other than 0, so that it remains to show that the number the code is taken from
is below it (`TestedCodeBound`, `InnerCodeBound`). With `<=` or two quotients this is where the
proof fails without `EdgeFree`, and where TLC finds the edge when `BoundKept` is checked in
`QuantizerTemporal.cfg` and `StreamsAligned` in `Quantizer1D.cfg`.

**`SessionProofs`** - for every set of bounds, ratios, ranges, capacities and streams, and
every sequence of calls. `TInv` says what is in the two records. What a theorem asks of the
callers is in its property, through the history variable `since`. `BoundHolds` adds that the
bounds in the settings are `Tighter` than those asked for: in the modes ABS, REL and
ABS_AND_REL, with bounds given only at initialisation, writing a bound back can only make an
absolute bound smaller. `IntervalsOwned` adds that search is what is in `exe_params` while this
compressor and those of the streams it read search. `CrashesAfterTimeStep` adds that the table
searched is then never empty and that the settings are temporal only after a time step. A
time step itself survives while search is in `exe_params`, which a stream of a compressor that was
given its intervals ends; this is why the property says two things of `since`.
`Survives` follows for callers without time steps. Its one assumption is `MaxIntervals >= 2`.

**`TimeSeriesProofs`** - for every set of variables and readers, every period, number of frames
and number of breaks. `TypeCorrect` holds for both entropy stages. `RightAgain` is for Huffman codes:
wherever a reader starts, after one period of frames in which its variable was not registered anew
and the writer read no frame, it has the right data, restarts of the writer included. The
property speaks of a window of frames the reader used, so the invariant has to say what
entries written at different times tell about each other. `Counted`: within a
process that does not read, steps count frames. `FromZero`: after a restart they count from zero, so
less than a period may pass before the next snapshot, never more. `Periodic`: whether an entry is a
snapshot depends on its step alone. `Based`: an entry is predicted from the one before it. `Reader`:
from a snapshot on, in such a window, the history of the reader is that of the writer. What is
left is that a window as long as the period has a snapshot (`SnapshotInPeriod`): either the
writer restarted in it, at step zero, or the steps in it are consecutive and one is a
multiple of the period (`Multiple`).

`WholeChain`, also for Huffman codes, is about readers that leave frames out: whoever decodes a
snapshot and then exactly the frames that go back to it has the right data, between any restarts and
registrations, in the two exceptions of the property. Here the frame before is not the last
one read, so the invariant speaks of chains. `Sourced`: what an entry was predicted from is the
latest frame of the same registration that moved the history (`Latest`), or zero if there is none, as
long as the writer has not read in between; it also says this of the entry that would come next, and
a break cannot falsify it since no entry knows of a break to come (`BreakSourced`). `Kept`: a
reader that has decoded no codes has the history zero, and one whose last codes end a chain has
it from them. The step is `ChainPrefix`: a chain that ends in a temporal frame is a
chain that ends in the latest frame before it, and that frame, or is that frame alone.

**`StreamProofs`** - the three parts of a stream.

*The header* (`Container`), for every set of settings and either size type, with streams from machines
of other sizes in between. The invariant says where the flags of the stream at hand come from, which
its reader does not know. `CodesFlags` reads each flag off the byte, and `CodesUnderstood` adds that
the two layouts then ask for the same fields in the same order. `ReadRight` is for any `Leftover`
that memory may hold: what a constant stream can go wrong by is in the property (`LeftoverHarmless`).

*Exact values* (`ExactData`), for all values, ranges and precisions, both widths and any number of
entries, with no assumption but that on the constants. `Recovered` says that both sides have the same
values, `AllRead` that all three streams are then used up, `Implements` that each step is one of
`ExactStore` or a stutter, so that a value comes back in its place, within the precision. A decoder
has no index into the middle bytes, only what the leading numbers add up to. So the
invariant `ExactInv` has a number for each value that says where its bytes begin (`Encoded`), and
the decoder's cursors are these numbers (`Decoded`); what the decoder keeps of the preceding value
is the encoder's `preDataBytes` cut to the bits that are stored, which is why it finds the same leading
bytes there. The bytes of the residual bits are another matter: one holds bits of several values, and
those written later must leave those written before alone. `Turn` is one turn of the packing loop: in
each of the cases of a byte with more room than bits, just enough, or less, what has been packed
stays and the new bits can be fetched. `AllPacked` puts the turns together, by induction on their
number. The induction theorems of the library take an operator, which the provers cannot instantiate,
so that there is a principle of its own for it: `EveryNat`, a set of numbers with 0 and the
successor of each member has all numbers. The leading numbers are packed four to a byte
(`PackLeadIs`, `LeadComesBack`). What is cut off is below the precision since the last bit kept is
(`CutBit`, `BitKept`, `NearEnough`).

*Codes* (`TypeStream`), for every capacity up to the last class, any set of codes and any length.
`CodesComeBack` says that the codes come back, `OffsetsAreClean` that an offset fits its width, `InStep`
that the bit stream is read to its beginning. Huffman and Zstandard carry the codes one by one
(`Carried`). ADT-FSE splits a code in a class and an offset (`Split`), and the decoder goes from the
last code to the first, with as many bits as the class says; classes without an offset write
none, so the invariant counts the codes with an offset to say where each offset is (`Following`,
`Placed`). `SplitCode` is the arithmetic: what `Int2code` and `Log2` make of a distance from the
middle, the decoder turns back into the code. Two hypotheses say which capacities are meant: `Reach`,
not more than 65536 intervals with ADT-FSE, and `Shorts`, not more than 32768 with Zstandard. Both
are necessary: `TypeStreamWide.cfg` and `TypeStreamZstd.cfg` have twice these capacities, and
counterexamples (section 3).

**`IntegerCodecProofs`** - for every byte width, bound, capacity and block, and with no assumption
but that on the constants. `IInv` gives each code its meaning for both sides (`CodedIn`): a value
with a code was rebuilt from the prediction that its predecessors give, and is near the value it
stands for (`NearIn`); a value with code 0 is the exact one that the count of zeros leads to
(`ExactIn`); and what is read is rebuilt in the same way (`OutIn`). `Alphabet` says of the code 0 both
that a value without a prediction in range has it and that no other value does. The arithmetic is `Quantized`: an
error below the radius gives a number of intervals below the radius, and the value rebuilt from it
is within the bound, up to truncation (`RebuildNear`). The two kinds of types then part: clamping
brings a value closer to every number of the type (`ClampCloser`), and where there is no clamping
predictions stay in the middle of a type whose values do (`PredictMiddle`, `RoomyMiddle`), so
that no conversion is out of range. The attempt to prove `InSync` for all values is what showed that the
32-bit error can wrap; `ErrorFits` states what the proof needs, and TLC has a block in which
`InSyncAnyError` fails.

**`VarSetProofs`** - for any number of addresses, ids and names, and any order of calls. What is in
the model is what the C program has, a walk along links (`List`); the invariant says which nodes a
walk finds before one is taken: there is a sequence of different addresses in which each
holds the next one, it is all that is allocated, `lastVar` is its last element and `count` its
length (`Linked`), the last three as long as the history variables say so. Each operation is then an
operation on that sequence: one less (`Without`), one more, or, when `lastVar` has gone wrong, one
that comes too early or not at all; in each case what links lead to is again such a sequence, which is
why `Walked` holds without a condition. The search stops where the first match is (`HopIs`,
`ListIs`). No theorem has a hypothesis: removal of the last variable by either key, any
outcome of the read after `free`, ids of any size and a count that wraps are all in. `Refinement`
says what is left of the list as a registry: `VarRegistry` keeps ids as bytes, and its end may go
stale.

**`RegressionProofs`** - for every array, block size, bound, capacity, set of planes and choice of
predictors, and with no assumption but that on the constants. The cells coded so far are a set closed to the
left and above (`Done`). `Buffers` says what the two strip buffers hold of it: a row and a column
for the blocks below and to the right, so that the compressor's neighbours (`Visible`) are those
the decompressor has in its array. `Streams` says what each code says of its cell (`Described`) and
where its exact value, its plane and the exact coefficients of that plane are, through two
sequences of counts, one for each value and one for each block; `Caught` that the
decompressor's cursors are these counts. Blocks come in two sizes, and where they begin is
arithmetic on quotients and remainders, done once (`PartBounds`, `OffsetsRise`, `DivModUnique`).

**`OmpBlocksProofs`** - for every array whose blocks are `Thick` (they have values, and two in a
row), up to 127 threads, every load of the blocks and every interleaving, with an even
distribution (`Static`), which implementations of OpenMP choose unless told otherwise.
Half of it is arithmetic: a grid of blocks is the grid of its own number of blocks (`GridBlocks`),
so that the decompressor cuts the array as the compressor did; the parts of a dimension share it
out, in units of any width (`Cut`, `CutOnce`), and the codes of a block are planes within which are
rows within which are codes, three such cuts one in the other (`Nested`), so that the blocks share
out the array of codes (`GridTiles`); a later block's entries begin where an earlier one's end
(`BeforeRises`). The other half is the invariant. `Written` and `ReadBack` say, for each loop, that
a thread that is past it has its part right, whatever the others are doing; the step is that a
turn writes its own part and no other; a thick block has no strays (`NoStrays`). `Restored`
(`RoundTripIfRegular`) assumes `float`: with
doubles it is false, as it is with thin blocks (section 3). `Counted` (`CountedOnce`) assumes `Room`, that all parts of the code
array but the last fit into it; where they do not, the length of the last one wraps (section 3).

**Only model-checked**, each for its reason:

| | Because |
|---|---|
| `Optimal`, `SizeRight`, `FitsBuffer`, `RoundTripUnlessShort` of `Huffman` | optimality, and that a code can be read again, are inductions over trees |
| `Returns` of `OmpBlocks` | liveness under fairness |

## 5. What is not modelled

* Arrays of up to 20 elements (stored raw by `sz_float.c:3553-3557`), and NaN or infinity.
* Sizes in bytes beyond those of `Huffman`: the buffer of the bit coder (`transcode.c:124`), the
  buffer sized by a cleared `SZ_SIZE_TYPE` (`sz.c:1144`), and a compressed stream that happens to
  have the length of a constant one (`szd_float.c:82`).
* Huffman codes of more than 64 bits: `Huffman.c:261` uses `code[0]` where `code[1]` is meant, but
  such a code takes more than 10^13 values.
* Legal-call preconditions: nothing is compressed before `SZ_Init` except by
  `SZ_compress_args`, nothing is registered after `SZ_freeVarSet` (which leaves `sz_varset`
  pointing at freed memory).
* Threads inside one call are in `OmpBlocks`; several threads that call
  `SZ_compress_customize_threadsafe` (`sz.c:1390`) and meet in the global records are not.
* The 3D regression coder and the random-access variants, which repeat `Regression` with one more
  dimension and without prediction across blocks; 3D and 4D Lorenzo; 64-bit integers, whose
  arithmetic is that of 32 bits at twice the width, and integers in three and four dimensions.
* Double precision, except where it differs (`ExactData`, `OmpBlocks`): it is the float code with
  another type.
* The point-wise relative codecs: logarithms and tables of floating-point ratios are outside
  TLA+ arithmetic.
* Configuration parsing, file I/O, utilities, bindings, the HDF5 filter, the arithmetic coder,
  application-specific codecs and readers of other formats. `PROJECT.json` has the reason of each.
* zlib and Zstandard, the larger part of the source tree, are bundled third-party libraries. They
  are taken for lossless, but for the one size of `FSE_compress` that `TypeStream` depends on.

Hazards that no property covers are in `PROJECT.json` with the reason.

## 6. Plan

Done, in this order: `Quantizer` with `ErrorBounded` and proofs, `VarSet` with `VarRegistry`,
`TimeSeries`, `TypeStream`, `Container`, `Session` with proofs, `OmpBlocks` with fairness,
`ExactData` with `ExactStore`, `Huffman`, `IntegerCodec`, `Regression`, restarts, registration and
readings in `TimeSeries`, `TimeSeriesProofs`, `IntegerCodecProofs`, `VarSetProofs`,
`RegressionProofs`, `OmpBlocksProofs`, `StreamProofs` (`Container`, `ExactData`, `TypeStream`).

Next:
1. `SessionThreads`: two threads in `SZ_compress_customize_threadsafe` over the records of
   `Session`, one action per access, and the HDF5 filter as a caller of `Session`.
2. `Regression` in three dimensions, with strips that are planes, and the random-access coder.
3. `Container` for doubles and integers, and the point-wise relative layout with its second stream.
4. Proofs: type correctness of `OmpBlocks` for every distribution of iterations.
