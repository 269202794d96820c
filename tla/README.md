# A TLA+ model of bzip2.wasm

bzip2.wasm is libbzip2 1.1 with its command line tools, plus a WASM build of the
library with a TypeScript class around it. This directory holds TLA+ modules of
both streams and of what is built on them, the tools included, the TLC configurations
that check them on small instances, and TLAPS proofs of what matters most for every
value of the constants.

## 1. The system

| Component | Code | State | Operations |
|---|---|---|---|
| Streaming compressor | `src/bzlib.c` 118-486, framing in `src/compress.c` 601-666 | `EState`: mode, INPUT/OUTPUT, the pending run, the block, `zbits`, the bit buffer, CRCs; `bz_stream` | `BZ2_bzCompressInit`, `BZ2_bzCompress` (RUN, FLUSH, FINISH), `BZ2_bzCompressEnd` |
| Streaming decompressor | `src/bzlib.c` 494-880, `src/decompress.c` | `DState`: the label parsing resumes at, the bit buffer, the tables, the run being given out, CRCs | `BZ2_bzDecompressInit`, `BZ2_bzDecompress`, `BZ2_bzDecompressEnd` |
| File interface | `src/bzlib.c` 886-1241 | `bzFile`: buffer, `lastErr`, which way, the stream | `BZ2_bzReadOpen/Read/ReadClose/ReadGetUnused`, `BZ2_bzWriteOpen/Write/WriteClose64` |
| One-call buffers | `src/bzlib.c` 1249-1352 | none between calls | `BZ2_bzBuffToBuffCompress`, `...Decompress` |
| zlib-like interface | `src/bzlib.c` 1366-1580 | as the file interface | `BZ2_bzopen`, `bzread`, `bzwrite`, `bzflush`, `bzclose`, `bzerror` |
| Entropy coding | `src/compress.c`, `src/decompress.c`, `src/huffman.c` | MTF list, code tables, selectors | MTF/RLE2, choice of tables, code lengths, codes, and back |
| Block sorting | `src/blocksort.c`, inverse in `src/decompress.c` 508-580 | order, quadrants, work budget | `BZ2_blockSort`, main sort, fallback sort |
| bzip2 command | `src/bzip2.c` | the current file's names and handles, `deleteOutputOnInterrupt`, exit value | compress, uncompress, testf, signal handlers |
| bzip2recover | `src/bzip2recover.c` | block tables, two passes over the bits | `main` |
| WASM exports | `src/src/wasm_module.c`, `wasm_simd_optimized.c`, `blocksort_simd.c` 266-311 | none (one keeps a static stream) | one-call compress and decompress |
| SIMD variants | `src/src/blocksort_simd.c`, `huffman_simd.c` | none | inner loops |
| Pool allocator | `src/src/optimized_memory.c` | the pool's blocks, reserved buffers, totals | malloc, free, coalesce, defragment, cleanup |
| TypeScript class | `src/src/lib/*.ts` | module, initialised flag | initialize, compress, decompress, cleanup |

How they meet. The compressor and the decompressor share no state: they are
joined by the stream format. All else drives one of the two through `bz_stream`
(`next_in`, `avail_in`, `next_out`, `avail_out`) and the return code: the file
interface and the one-call functions decide from the code, `avail_in` and
`avail_out` what has happened. The command drives the file interface and may be
interrupted by a signal between any two of its steps.

What is hard:

* *Both streams are coroutines cut up by their caller.* Any call can end at any
  byte of input or output; all state must survive, and the return code must say
  which of input and room was missing. (Nothing in the library runs in parallel:
  the interleaving is that of caller and library.)
* *Two run-length layers with state across blocks.* The compressor's pending run
  outlives its block, the decompressor's may end with it; three hand-optimised
  output functions must agree.
* *Flush and finish take several calls*, during which a caller may misbehave.
* *FAST works on copies* of the state and leaves without writing them back.
* *Damaged input* must be found out, and found nowhere else.
* *Half-done failures*: allocations, I/O errors, signals, kills, output that stdio
  holds back until it is too late to complain.
* *Arrays used twice*: the sort's two arrays serve the main sort, the fallback, the
  MTF values and the codes in turn, each overwriting what the last one still reads.
* *Hints from one bucket to the next* (quadrants, filled buckets) and work given up
  in the middle and done again another way.
* *Tables at their limit*: blocks, selectors, code lengths, recovered blocks.

What makes each component correct:

* compressor: what is read is written, once and in order; the stream is framed;
  a flush or finish ends when complete, and ends;
* decompressor: a sound stream is accepted with exactly its content, `BZ_STREAM_END`
  is never answered to anything else; nothing past a table is used;
* file interface: a failure while writing stays visible until the file is opened anew, unused
  bytes are exactly those behind the trailer, an end of file inside a stream is an error;
* command: whatever is interrupted, one complete file survives;
* entropy coding: what is coded is read back, by codes built two ways; nothing is
  overwritten before it is read; bounded code lengths are found in finitely many tries;
* block sorting: all rotations in order, by whichever sort and after whatever the
  other left; the inverse gives the block;
* allocator: blocks tile the pool, what is handed out is large enough and disjoint;
* recover: what lies between two marks is written, bit for bit, once.

## 2. Modules

| Module | Models | Uses |
|---|---|---|
| `RunLength` | the first run-length layer as functions: `Pair` is `add_pair_to_block`, `UnRLE` the output functions run to the end of a block | |
| `StreamFormat` | the `.bz2` stream as tokens, what is a framed or whole stream, and its content | `RunLength` |
| `CompressStream` | the compressor | `StreamFormat` |
| `BlockPipe` | what a compression stream promises, with no buffer, bit or call | |
| `CompressRefinement` | the compressor as a `BlockPipe` | `CompressStream`, `BlockPipe` |
| `DecompressStream` | the decompressor | `StreamFormat` |
| `BzWrite`, `BzRead` | the two halves of the file interface | `CompressStream`, `DecompressStream` |
| `OneCallCompress`, `OneCallDecompress` | the one-call functions of libbzip2, the WASM exports and the class's `decompress` | `BzWrite`, `BzRead` |
| `BlockSort` | the two sorts and the inverse | |
| `EntropyCoding` | MTF, choice of tables, Huffman codes, and their reader | |
| `FileDriver` | the bzip2 command | |
| `Recover` | bzip2recover | |
| `PoolAllocator` | the pool allocator | |
| `DecompressStreamProofs`, `PoolAllocatorProofs` | theorems | the module named |
| `FileDriverProofs`, `RecoverProofs`, `EntropyCodingProofs` | theorems | the module named, `StreamLemmas` |
| `StreamLemmas` | lemmas on the functions of `RunLength` and `StreamFormat`, for sequences of any length | `StreamFormat` |
| `CompressStreamProofs` | theorems on the compressor (its buffers, what its stream decodes to, that it is a `BlockPipe`) and on its callers, the file interface's writing half and the one-call functions | `CompressRefinement`, `OneCallCompress`, `StreamLemmas` |
| `OneCallDecompressProofs` | theorems on the decompressor's callers, the file interface's reading half and the one-call functions | `OneCallDecompress`, `DecompressStreamProofs` |
| `MC...` | instances for TLC | the module named |

### Abstractions common to both streams

* A *token* (`StreamFormat`) stands for some bytes of the stream. A block's
  sorted, MTF and Huffman coded data is one token holding the bytes of the block:
  that what is inside can be read back is what `BlockSort` and `EntropyCoding` show. `rdata` is a
  block with the randomised bit, which only versions before 0.9.5 wrote; `bad`
  one whose coding breaks a rule of `decompress.c` 251-584.
* A *CRC* is what it covers: a block's is its sequence of bytes, the combined one
  the sequence of block CRCs. Equal CRCs then mean equal data; collisions are
  left out.
* `bz_stream.next_in` and `next_out` are history variables: `fed` (what has been
  read), `out` (what has been written), `source` and `pos` (what there is to read).
* Sizes are scaled: `RunMax` for 255, `BlockUnit` for 100000 and `WordSize` for
  2^32. The proofs take them as parameters.
* Names of the code are kept. Definitions that end in `\* mutant` are single
  mistakes of the kind a change to the code could make; each is there to show
  that some property notices.

### CompressStream

A call of `BZ2_bzCompress` is one step into the library (`pc` from "client" to
"loop", or a refusal), then the turns of `handle_compress` byte by byte, then one
step back.

| Action | Code |
|---|---|
| `BZ2_bzCompressInit` | 150-213, with every subset of the four allocations failing |
| `BZ2_bzCompress` | 409-457: the mode switch; `Refuse` the errors, `Enter` the start of a run, flush or finish |
| `CopyOutput` | one byte of `copy_output_until_stop` |
| `AfterOutput` | 371-382: leave, or start the next block |
| `CopyInput` | one byte of `copy_input_until_stop`, with `ADD_CHAR_TO_BLOCK` |
| `AfterInput` | 384-400: close the last block, close a full block, or leave |
| `Return` | 426-463: the code returned and the mode after it |
| `BZ2_bzCompressEnd` | 470-486 |

Two halves of the caller's bit buffer matter: `zbits` is what the caller can be
given, and `bsBuff` the last token of a block, whose last bits `bsW` keeps back
until the next block or the trailer pushes them out. How much of a token stays
behind depends on the data; here it is the whole last token.

### DecompressStream

`BZ2_bzDecompress` enters `parse` or `unRLE` by the state it finds (810-821) and
goes to and fro between them.

| Action | Code |
|---|---|
| `NeedInput` | `GET_BITS` without input: save the label, return `BZ_OK` |
| `ReadMagic`, `ReadLevel`, `ReadBlockHeader`, `ReadBlockData`, `ReadStreamCRC` | the labels of `BZ2_decompress`, each with its errors; `ReadLevel` with every subset of the table allocations failing |
| `PutByte`, `NewRun` | the inner loops of `unRLE_obuf_to_output_FAST` and `_SMALL` |
| `Overrun` | their `return True` (corrupt); FAST leaves its copies unwritten |
| `ReturnNotCorrupt` | their `return False` and 826-842: CRC check, next block, or `BZ_OK` |

FAST and SMALL share their actions and differ in three places: the test for room
(`MayAdvance`: FAST takes the next run before it knows whether there is room, SMALL
and both randomised loops test first), when `total_out` is advanced, and what is
left behind by `Overrun` (`saved` is what the `DState` and `bz_stream` hold while
FAST runs on copies). `BZ_GET` past the end of the block cycles through it, as
following `tt` or `ll16/ll4` does.

`source` is chosen once, at `BZ2_bzDecompressInit`, among `Sources`; the caller
may hand over any number of its tokens at each call. After an error the caller
only ends the stream, as the manual asks; fields that an error leaves half
written are then never read.

### BzWrite and BzRead

Both take the whole stream module below them and play its caller: an action here
either is the stream's own step (`Library`) or calls `BZ2_bzCompress` or
`BZ2_bzDecompress` with the buffer of the `bzFile`. `at` says which loop is in
progress, `pc` whether the stream is inside its call.

| Action | Code |
|---|---|
| `BZ2_bzWriteOpen` | 918-961; on a null or failed `FILE`, with failing allocations |
| `BZ2_bzWrite`, `AfterRun` | 966-1007: up to the loop; one turn of the loop after `BZ2_bzCompress` |
| `BZ2_bzWriteClose64`, `AfterFinish`, `CloseFile` | 1023-1085: the same for `BZ_FINISH`, then the `fflush` and the release |
| `NewFile` | the application opens another file |
| `BZ2_bzReadOpen` | 1089-1141, with the unused tokens of the stream before |
| `BZ2_bzRead`, `LoopTop`, `AfterCall` | 1163-1219: up to the loop; its parts before and after `BZ2_bzDecompress` |
| `BZ2_bzReadGetUnused`, `BZ2_bzReadClose` | 1223-1240, 1145-1159 |

The C library's `FILE` is the part that is not in the repository: any `fwrite`,
`fread`, `fflush` or `fgetc` may fail. A failed `fwrite` leaves some front part of
its bytes in the file, a failed `fread` has taken some, and the error indicator
stays set. `file` in `BzWrite` is what has been handed to the `FILE`; when the
C library has written it to disk is not modelled. In `BzRead` the buffer is its count
(`avail_in`): what it holds is given by the position in the file, which is the
stream's own plus what it has been given and not yet read.

### OneCallCompress and OneCallDecompress

`OneCall` is everything up to the one call of `BZ2_bzCompress` or `BZ2_bzDecompress`,
`TheCall` that call, after which the stream's own steps (`Library`) run, and
`TheAnswer` what is made of its code, with the End. `entry` says which function it
is: libbzip2's (bzlib.c 1249-1352), the exports (`wasm_module.c` 8-78,
`wasm_simd_optimized.c` 72-152, `blocksort_simd.c` 266-311), or `Bzip2.decompress`
(`lib/index.ts` 165-229), which calls an export with a guessed room. A one-call
function shares nothing with a `bzFile`, so it starts where nothing else is open.

### BlockSort

One action per step of the outer loops. `MainInit` is the radix sort on two symbols
(769-860), `SortSmall`, `Scan` the three steps for a big bucket (886-1004), `GiveUp`
the budget running out, which is a choice at each bucket instead of a count of
comparisons; `FallbackInit`, `Classify`, `RefineBucket`, `EndRound`, `Restore` are
`fallbackSort` (225-328), a step for each bucket of a round: the headers `bh` set for one
bucket are in the array in which the next one is looked for (`ISSET_BH`, with the
sentinels behind the block), while the classes stay those of the beginning of the round.
`FindOrigPtr` is the end of `BZ2_blockSort`. The sorts inside a bucket are operators:
`mainQSort3` down to the shell sort `mainSimpleSort`, `fallbackQSort3` down to
`fallbackSimpleSort`. The order in which equal elements come out of a partition is
not kept, the stacks are recursion. `block` is `arr2` and changes its meaning from
bytes to classes and back as there. `mainGtU` (`Key`) reads the overshoot and the
quadrants exactly where the code does. What `decompress.c` does with the last column
is `UnsortFast` and `UnsortSmall`.

### EntropyCoding

`MtfValue`, `MtfEnd` are `generateMTFValues` position by position; `InitialTables`,
`ChooseTables`, `MakeCodeLengths` (one try per step, with the halving), `Send` are
`sendMTFValues`; `ReceiveHeader`, `Receive` (one value) are the reader with its
sixteen parts of the MTF list (`mtfa`, `mtfbase`): `Symbol` looks a value up, `Fronted` moves
it to the front, `HandedDown` passes the last of each part on to the next, and `Rebuilt` gathers
the parts at the end of `mtfa` once the first has come to 0. Only the codes are bits; the other fields travel
as numbers. The sender's fields may have up to `RoundUp` selectors more than needed,
as other programs write them.

### FileDriver

A step is a call of the C library or a stretch of code between two of them. `kind` is
what an input holds: "good", "trailing" (a stream with something behind it), "notbz",
"corrupt", "short". A file's data are `Pieces` pieces; `buf` is what stdio holds back,
which may be written at any `fwrite` and is written, or lost, by `fflush` and `fclose`.
`Closing` is the order of the closing calls in `compressStream` (343-363) and
`uncompressStream` (465-485). Every call may fail (`Fail` leads to `cleanUpAndFail`).
`Signal` is `mySignalCatcher`; `Kill` a signal nobody catches, or
`mySIGSEGVorSIGBUScatcher`, which leaves without cleaning up. `OtherCreates` is another
process. Left out: standard input as the source, the parsing of options and
suffixes, times and modes (only that setting them can fail), messages.

### Recover and PoolAllocator

`Recover`: `ScanBit`, `ScanEnd` the first pass (396-459), `SplitBit`, `SplitEnd` the
second (467-537), a bit each. The arrays have one slot more than the code's, so that the
store one past their end is seen; what it hits is a choice (`BeyondEnd`).

`PoolAllocator`: one action per exported function, blocks as a function from offsets
to headers. The walks over the list are by address, since that is how the list is
linked (an invariant, `PoolTiled`). Callers give back what they have been given, once,
and clean up when the streams are gone. A request is the product `items * size`; bzlib
always asks for `(n, 1)`, so what the product in `int` (optimized_memory.c:195) gives for
others is left out.

## 3. Runs

| Run | Question | Answer |
|---|---|---|
| `compress_small` | Can any caller, well behaved or not, lose or reorder a byte, get output that does not decode, or an end too early? | no: 5 invariants, 2 action properties |
| `compress_promise` | Is the compressor a `BlockPipe`, and does a caller that persists get to the end of a flush and a finish? | yes |
| `decompress_small` | Are sound streams always accepted with their content, unsound ones never, by both output functions, however input and room are cut? Does a caller that goes on get to the end? | yes: 6 invariants, 1 action property, 1 liveness property |
| `write_file` | Does a close that answers `BZ_OK` leave a whole stream, is every failure reported, does every call return, do the one-call functions tell a whole stream from a full room? | yes |
| `read_file` | Is each stream of a file read from where the one before ended to its own end, only a file cut short called so, and does the one-call function tell the end of input from the end of room? | yes |
| `block_sort` | Are the rotations sorted wherever the main sort gives up, are its hints true, does the inverse give the block? | yes: 4 invariants |
| `entropy_code` | Is what is coded read back, are the codes complete and within limits, is nothing overwritten unread, is the decoder's list in parts a move-to-front list, does the search for lengths end? | yes |
| `bzip2_driver` | Whatever fails, whenever a signal or kill comes: is the data always in one of the files, does status 0 mean done, are other processes' files left alone? | yes, but for streams with something behind them (`error_doc`) |
| `recover` | Is every block between two marks written bit for bit, and a file with too many refused? | yes |
| `pool` | Do the blocks tile the pool and fit what was asked for? | yes |
| `error_doc` | Is it true that after an I/O error one does not get to the removal of the input (bzip2.c:1289, 1466)? | no, see 5 |
| `validate_doc` | Does `decompress` validate (README.md:161)? | no, see 5 |

`CHECK_DEADLOCK FALSE` stands in the runs of programs and algorithms that come to an
end (the sort, the coder, the command, recover), and in `pool`, where the bounds on
the counters stop it.

### What the properties say

* `Conserved` (compressor): read bytes are in closed blocks, open block or pending run,
  written tokens delivered, in `zbits` or in `bsBuff`, once and in order; exactly the
  bytes stored in the block are flagged in `inUse` (`FlagsExact`), and the two words of
  `total_in` and `total_out` together say what has been taken in and put out (`CountersExact`);
  `StreamDecodes`: once `BZ_STREAM_END` is answered, what has been put out is a whole stream
  whose content is the input. `ImplementsPipe` says the same of the caller's view, at
  every step.
* `SoundAccepted`, `StreamEndSound`: the decompressor's answers in terms of the input as
  a whole (`WellFormed`, `Content`), which is independent of how it reads. A call stops and
  goes on between tokens: the locals that `BZ2_decompress` saves inside a block's data are
  below this level, and no property speaks of them.
* `OneCallTells`: what a code and a length say is true; on the compressing side for
  `BZ2_bzBuffToBuffCompress` and each export, on the other for
  `BZ2_bzBuffToBuffDecompress` only, since the exports do not tell the two ends apart
  (`validate_doc`).
* `ReadEnds` says that reading comes to an end, with whatever code; that the code is the right one
  is `EndsTold`.
* `BlocksExtracted` speaks of files that fit the table: one with exactly
  `BZ_MAX_HANDLED_BLOCKS` marks, where the one-past store occurs (see 5), is left to
  `TooManyRefused`, which bounds the store.
* `BucketsTell`: a bucket marked as sorted is sorted, also when only scans of other
  buckets have filled it; a quadrant never misorders; each scan, the last one too, meets in the
  middle. `ClassesTell`: in the fallback rotations agree on `H` symbols just where no bucket
  begins, and on `2H` in the buckets a round has been through, in the middle of the round.
* `TablesSound`: lengths satisfy Kraft's equation, and code what they were made for in as
  few bits as Huffman's algorithm allows, unless weights had to be halved; for each table of
  each pass, the last included.
* `RoundTrip`: the decoder reads what this encoder has written. It is not fed anything else here,
  so that its refusals are not met in the run.
* `ArraysHold` (entropy coding): `mtfv` lies in the memory of `ptr`, 16 bits to 32, and the next value is
  written only over positions already read (`ValuesBehind`); the selectors fit (`SelectorsFit`, AssertH
  3003); the parts of the decoder's list lie in `mtfa` without touching each other and the list they make has
  first what was written last, then the rest in order (`ListsHold`), said of what has been
  written and not of how the list was moved.
* `NothingLost`: an input that is gone is whole in its output, at every step.

### Bounds, and why they are enough

* `compress_small`: `BlockUnit` 20 makes `nblockMAX` 1, so a block is full after
  the first run stored in it, which may be 1 to 5 bytes long: every way to fill a
  block, the pending run carried over a full block included, happens within six
  bytes. Two symbols (0, 1) so that runs end by a change of byte, and `RunMax` 5
  so that they end by length, with counts 0 and 1 that are also symbols (a count
  byte must be flagged in `inUse`). `WordSize` 4, so that both counters carry.
  `ChunkIn`, `ChunkOut` 2: calls with nothing, with one and with two bytes.
  `Levels` {0, 1} has one refused and one legal level. `InBound` caps the bytes
  read, `BlockNoBound` the blocks.
* `compress_promise` has two bytes of block, so that a block holds two runs, and room
  for one byte at a time.
* `decompress_small`: every stream of the forms in `MCDecompressStream`: none, one
  or two blocks, plain or randomised, a block stopping before a run's count, each
  token of a whole stream replaced by each wrong token, streams cut off at each
  token, and bytes behind the trailer. The blocks have runs of 1, 2 and 5, the last
  with its count. `BlockUnit` 5 is the longest sound block, so that six bytes
  overflow the table. `WordSize` 4 makes FAST, which adds up to three bytes at once,
  and SMALL carry.
* `write_file`: `BZ_MAX_UNUSED` 2 is less than what a call can produce (three tokens
  of a first block, two of the next), so that one `BZ2_bzWrite` or close takes several
  turns of its loop; up to three bytes in each call and five in all fill two blocks.
  `Rooms` for the one-call functions go from none over one short, just right and one too
  many for streams of no, one and two blocks.
* `read_file`: a buffer of 3 tokens against streams of 4, 6 and 8, so that streams
  end at every place in the buffer, and reads of 1 to 3 bytes of contents of up to 5.
  Files hold one stream, a stream cut short at each token, one with a wrong trailer,
  or a stream with another, or with something that is none, behind it. `decompress`'s
  guess is scaled to once the input or 4, so that contents exceed it; `WordSize` 16 is
  above every guess, as 4 GB are above ten times an input that a WASM memory has room for.
* `block_sort`: all blocks of up to three symbols in length 1, 2, 3 and 6 over three
  letters, and of 8 over two, which include every pattern that repeats; `MinMain` 6 sends the longer ones
  to the main sort, with an overshoot of 5 as `BZ_N_QSORT` is 0 and `BZ_N_SHELL` 1, so
  that comparisons read beyond the block, take quadrants and come round. The thresholds, 2 for
  the main sort and 5 for the fallback, let both quicksorts split and both simple sorts
  run. A pass with steps of 4 needs five rotations: the fallback has them in the blocks of
  6 and more, the main sort in those of 13, which repeat a pair six times with another
  symbol between, so that five rotations are alike for more symbols than its depth limit.
  `MaxQuad` 2 makes big buckets shift their ranks.
* `entropy_code`: all columns of up to 6 of three symbols and four longer ones;
  groups of 3 give up to five selectors, with `RoundUp` 2 up to seven in the stream, one more
  than `BZ_MAX_SELECTORS`, which the decoder drops; all numbers of tables from 2 to 4 scaled
  by `Thresholds`; `maxLen` 3 is short enough for halving to be needed. Sublists of 2 in
  an array of 8 make the decoder rebuild its list.
* `bzip2_driver`: two files, so that state of the first can spoil the second, two
  outputs, which may be one; two pieces, so that one may be written and one held back.
* `recover`: marks of 4 bits that can overlap themselves and each other, up to five
  pieces, tables of 4: files with fewer, as many and more marks than that; bytes of 3
  bits, so that padding is of every length.
* `pool`: a pool of 22 with headers of 2 has room for three or four least blocks; sizes below
  and above the small limit, one that is rounded. One system allocation and one
  counted call between resets.

### Fairness

A call in progress runs to its end: weak fairness of `Library`. A caller in the
middle of a flush or finish repeats its call with the announced input and some
room (`SF` of `PersistWith`; manual.xml:1276, 1305), one in the middle of a stream
calls again with input, if it has any, and some room (`SF` of `GoOn`; manual.xml:1544,
1552). Strong fairness because the caller is free to make other, useless calls in
between, and because the action is not enabled while a call is in progress.
In the file interface a call in progress runs to its end (`WF` of `Interface`), and
for `ReadEnds` the application that may read goes on reading (`SF` of `ReadOn`); writing
and closing are up to the application. Nothing else is assumed; that the search for
code lengths ends is shown without fairness, by an action property (`HalvingShrinks`).

## 4. Proofs

`CompressStreamProofs` proves, for every alphabet, run cap, block unit, counter
width and bound allowed by the assumptions in `CompressStream`:

* `Inductive`: `Spec => []IInv`, and from it `TypeCorrect`, `BlockNeverOverrun`,
  `InputConserved`, `OutputConserved`, `LastBlockTestSound`, `StreamEndComplete` as invariants and `FlushClean`, `NothingSlipsIn` as action properties.

The argument. `Conserved` and `BlockFits` say nothing of why a block
is in OUTPUT, so neither is inductive. `IInv` adds

* `FillInv`: behind a block in which something is stored waits a run, and behind
  a *full* one a run of length 1, because only the byte that ends a run stores
  it. This is what bounds `nblock`: `flush_RL` on a full block adds one byte, not
  five.
* `LoopInv`: a block is in OUTPUT because it filled up (then a run is pending),
  because a flush has taken its announced input, or because the trailer has been
  written. With "no run pending, nothing expected, FINISHING" only the last is
  possible, which is `LastBlockTest`. Its clause for `pc = "ret"` says with what the
  loop may stop, from which `Return`'s test is enough for `FlushEndsClean` and
  `StreamEndIsComplete`.
* `BitInv`: `zbits` is empty whenever a block is being filled, and the bit buffer is
  empty before the first block and after the trailer.

One lemma per action of `Next`, and lemmas on runs, tokens and the cutting of
sequences beneath them.

`StreamLemmas` has the inductions over data. `UnRLEBlock` and `FlattenSeq` are recursive
functions over the positions of a sequence, and theorems of induction that take an
operator as a parameter cannot be used; but a *set* of numbers can be named. So from the
least-number principle (`LeastNumber`) follows that a set which holds 0 and, with each
number, the next one is all of `Nat` (`SetInduction`), from that a function with a given
first value and step exists and is unique (`StepsExist`, `StepsAgree`), and from that what one
more element changes: `UnRLEAppend`, `FlattenAppend`. All else rests on these two:
a stored run put behind a block decodes to the run (`UnRLEPair`), for runs of every length,
and the tokens of one more block, or the trailer, behind a laid-out stream (`LaidBlock`,
`LaidIsWhole`).

With them the second part of `CompressStreamProofs` proves, under the same assumptions:

* `FullInductive`: `Spec => []FullInv`, and from it `StreamReadsBack`
  (`Spec => []StreamDecodes`);
* `CountsExact`: the flags and the counters (`CountInv`: `FlagsExact` and `CountersExact`) are
  exact, since a pair flags just what it stores (`PairFlagged`) and a carry adds one to the
  value of both words (`TickExact`); with it `NothingIsLost` (`Spec => []Conserved`);
* `CompressorRefines`: `Spec => ImplementsPipe`, the refinement of `BlockPipe`: `Init` maps to
  `Pipe!Init` and every action to an action of the pipe or a stutter. A byte read with
  `CopyInput` is the pipe's `Accept`, the close of a block in `AfterInput` its `Cut`, the
  trailer its `Seal`; that the last of the closed blocks takes *all* of the pipe's open
  part is `LastBlockTakesAll`.

`FullInv` adds to `IInv` `DecodeInv` (what the open block decodes to, and that a run may be
stored behind it: it does not end in the middle of a run of its own character), `StreamInv`
(how the tokens of a stream are laid out, block by block, with the decoded bytes of each in
`CRCs`) and `OwedInv` (what of it the caller has and what waits in `zbits` and `bsBuff`).
`DecodeInv` is why `ADD_CHAR_TO_BLOCK` may take its short cut: a
run is stored only when a *different* byte ends it, when it is 255 long, or when the block
ends, so two runs of one byte follow each other only behind a full one.

The third part of `CompressStreamProofs` proves of all that calls the compressor, for every file, room and
sequence of calls:

* `OneInductive`: `OneSpec => [](FullInv /\ OneInv)`, and from it `FailuresReported`, `ClosesWhole`
  (the action property `ClosedIsWhole`) and `OneCallTold` (`OneCallTells`).

Each action of a caller is a step of the stream, a call or End of it, or leaves it alone
(`StreamLibrary`, `StreamCall`, ...), so `FullInv` is kept and its consequences can be used at
every step. `OneInv` adds for the file interface: `FailInv` (no call is in progress on a file in
error), `RestInv` (between calls on a good file all of `out` has gone to it and all input has
been taken), `LoopsInv` (inside the two loops the file is behind by what is in the buffer,
and a call that has moved nothing yet still has all it was given: so none returns without
progress, and `BZ_PARAM_ERROR` of a `BZ_RUN` cannot come up) and `EndInv`; and for the
one-call functions `CallInv` and `DoneInv`: what has been read and what is left add up to
`sourceLen`, what has been written and the room left to `room`, and the call ends for want of room or with the trailer
out. For `BZ_OUTBUFF_FULL` one needs that
a stream not yet whole stays unsound: no proper front part of a stream is
`WellFormed` (`FrontIsNotWhole`, from the place of the stream's CRC).
The assumption `Rooms \subseteq 0..(WordSize - 1)` is that `*destLen` is an `unsigned int`.

`DecompressStreamProofs` proves, for every set of inputs, table size, counter width
and buffer size allowed by the assumptions in `DecompressStream`:

* `Inductive`: `Spec => []IInv`, and from it `TypeCorrect`, `TableNeverOverrun`,
  `NothingLeaks` and `CountersExact` as invariants, `OkIsStuck` as an action property;
* `FullInductive`: `Spec => []FullInv`, and from it `BuffersExact` (`OutputAccounted`),
  `EndIsSound` (`StreamEndSound`) and `SoundIsAccepted` (`SoundAccepted`).

The argument. `IInv` adds to these

* `CallInv`: where a call can be for each `state`, that it never has been given more
  input than there is, and that `total_in` is the number of tokens read.
* `CopyInv`: while FAST runs on its copies, `total_out` counts what the caller had
  when the function was entered, and the room used since is what `out` has grown by.
  So both ways out are right: the addition at the end of a call that stops, and
  the return without writing back of one that finds corruption.

`TableNeverOverrun` needs that a new run is taken only while `nblock_used <= nblock`,
and takes one to three bytes up to the end of the block, or five if it has seen three
equal ones that were not the end: it never gets past `nblock + 2`. `CountersExact` rests on
`Advance`, whose carry is right because a call never adds a whole word: this is the
assumption `WordSize > ChunkOut`: `avail_out` is an `unsigned int`.

`FullInv` adds, while no error has been told: `AccountInv` (the same as `OutputAccounted` of what FAST falls
back to), `ParseInv` (what has been read is a header and the blocks the combined CRC
covers, `Laid`, and then what the label says) and `BlockInv` (the bytes of the block used so
far decode to what the block's CRC covers and the rest of the run in hand, and
the next byte starts a new run). `BlockInv` is where the two ways to read a run
length meet: `NewRun` looks ahead for up to three equal bytes and the end of the block,
the definition `UnRLEBlock` goes byte by byte; one byte too many has been taken only from a block
that ends before a count. With it `SoundAccepted` is inductive: each refusal shows a token that
no sound stream has there, the CRCs' included.

`OneCallDecompressProofs` proves of all that calls the decompressor, for every set of files,
size of `bzf->buf`, length of a read and room:

* `OneInductive`: `OneSpec => [](FullInv /\ OneInv)`, and from it `EndsAreTold` (`EndsTold`),
  `UnusedIsExact` (the action property `UnusedExact`) and `OneCallTold` (`OneCallTells`).

As on the other side, `FullInv` is kept by whatever calls the stream, and `LibraryMovesOn` says
once what a step inside a call means to a caller: the input taken and the input left add up, so
do the bytes put out and the room, what has been put out stays unless a data error is
told, and `BZ_OK` comes only with the input used up while parsing, or the room used up with
more of a block to come. For the file interface `OneInv` contains `ReadInv`:

* `TurnInv`: who is in the middle of a call, and that behind a `BZ_OK` the stream has not ended;
* `PlaceInv`: the position in the file is the start of the stream, what the stream has read and
  what waits in `bzf->buf`, until a failed `fread` has lost some. This is why the unused
  tokens begin behind the trailer, and why `avail_in = 0` at the end of the file means
  that the decompressor has seen all of it;
* `GivenInv`: what the calls before have returned and what this one has put out is all of
  `out`, across refills.

`BZ_STREAM_END` is then `StreamEndSound` said of the bytes the application has, and for
`BZ_UNEXPECTED_EOF` no token that has been read ends a sound stream (`NoEndRead`). For the one-call
functions `BufferInv` and `StuckInv` keep the sums and what `BZ_OK` means until it is looked
at. That `avail_out` is enough to tell `BZ_UNEXPECTED_EOF` from `BZ_OUTBUFF_FULL` rests on
`LargerThanOut`: a call that stopped for room inside a block of a sound stream has put out strictly
less than its content, because the bytes of the block not used yet decode to something
(`MoreToCome`, `UnRLELonger`) and the blocks behind take nothing away (`FlattenLonger`); and on
`OneFront`: at most one front part of an input is a whole stream.

`FileDriverProofs` proves `InputsSurvive`: `Spec => []NothingLost`, for every set of
names, every number of pieces and every length of command line. `NothingLost` speaks only of
inputs that are gone; the inductive invariant `IInv` follows the file in work up to there:

* `Progress`: what is written of the output and what waits in `buf` are together what
  has been delivered so far, so that it is `Whole` once the last `fclose` has succeeded;
* `Present`: from the opening of the output to the removal of the input both exist;
* `Quiet`: where a failure is no longer allowed to touch the output nothing waits
  for it, and `armed` is off before the input is removed;
* `Apart`: as long as an output may still be written or deleted, it is not the output
  of an input removed before (its creation with `O_EXCL` has found it absent, or `-f`
  makes it `Replaceable`).

On top of `IInv` the same module proves `OthersSurvive`: `Spec => OthersKept`. The file of
another process holds a piece no input has (`"other"`); `Mine` says that an output in
use, from its creation to the end of the file in work, exists and holds nothing but
pieces of inputs. What a step writes to, or `cleanUpAndFail` and the bad-magic branch
delete, is an output in use, so it is not the file of another.

Its third part proves `StatusIsTrue`: `Spec => []StatusTells`. The status of the whole run is
gathered from the results of its files, so `StatusInv` says what a status that is still 0 has
promised for the files dealt with so far:

* `Codes`: no way to fail leaves the status at 0, and only a run that has come to the end of
  its names exits without one; `TestsTell`: as long as `testFailsExist` is off every file
  tested is good;
* `InputsKept`: with `-k` all inputs are there, without it those dealt with are gone
  (that their outputs are whole is then `NothingLost`);
* `Owing`: with `-k` nothing removes the input, so the output is owed in a different way: it is
  whole, and is not what is written or deleted next;
* `StdoutTells`: with `-c` standard output and what waits in `buf` are together the data of the
  files dealt with, in order (`Laid`), followed by what has come of the one in work,
  decompressed or copied as it is; nothing waits between two files.

`RecoverProofs` proves `BlocksAreExtracted` and `TooManyAreRefused`, for every set of files, tables
of any size and any two marks. It assumes of the format what the code relies on
(`FormatAssumption`): both marks have one length, a block believed (130 bits) is no shorter than a mark (48),
a file has fewer bits than a `MaybeUInt64` counts, and two marks may overlap, but by
less than half. (The marks of the format share at most three of their 48 bits.) The parts of
`IInv`:

* `WindowInv`: the window is the last bits read, those before the file counting as zeros;
* `CountInv`: in the first pass `currBlock` is the number of marks passed, so the test
  before the increment lets through one too many at most, and with it the program stops;
* `ScanInv`: the blocks found so far are those of the table `rbStart`, `rbEnd`, without the
  entries whose marks overlap: there the end is before the start, the difference wraps to a
  number near 2^64, and the code takes it for a long block;
* `Entry`: the ends in the table increase, and no block begins before the one before it has
  ended. It is why an entry that wraps does no harm: its end is passed before its start is
  met, so no file is opened for it, and the second pass never waits for an end that lies behind it;
* `SplitInv`: the files closed are those of the entries before `wrBlock`, and the open one
  holds header, mark and the bits from its start up to the last read, `blockCRC` being the
  first of them.

That an overlap is less than half is needed at the beginning of a file: the end of a block
before a mark that ends within the first 49 bits is put down as 0 (bzip2recover.c:422), and the ends increase
only because no third mark can end there.

`PoolAllocatorProofs` proves `PoolStaysTiled` and `HeldStaysFitting` for every pool size,
header, slack, alignment and set of requests. The two are inductive together. The work
is in lemmas on the operations on headers: `Split` and `MergeNext` take tiled blocks to
tiled blocks, and, since a merge leaves at most one pair of free neighbours, at a place
known beforehand (`FreePairsAt`), the two merges of `coalesce_free_blocks` leave none. That
no two free blocks lie side by side is also what makes `Defragment` change nothing,
so its fold over the blocks needs no induction.

`EntropyCodingProofs` proves, for every set of columns, alphabet, group size and sizes of arrays
allowed by `ColumnsAssumption` and `SizesAssumption` (a column and its end of block fit the
selectors, as 900001 values fit 18002 groups of 50; the symbols make whole parts, as 256 do of 16,
and `mtfa` has room for more than them, as 4096 is):

* `Inductive`: `Spec => []IInv`, and from it `ArraysAlwaysHold` (`Spec => []ArraysHold`).

The argument. For the encoder `EncoderInv` says that the values out, with a run still to be coded,
are at most as many as the positions read: the code of a run is no longer than the run
(`RunCodeShort`). So `mtfv` has at most `nblock + 1` values, and the groups fit the selectors. It
says also that `yy` is a permutation and that every value is one of the alphabet, which the decoder
needs: each code it reads then finds a value (`PermIs`, from the ranks of a finite order, `Ranks`).

For the decoder `Held` says where its parts may be: in `mtfa`, apart, none to the right of where it
started, the first not at 0. When a symbol goes to the front (`FrontedIs`) the parts before
its own move down by one. The last of each is handed on to a place that is free, since the next
part has just moved away from it or has closed up there (`HandedDownIs`); when the first has come
to 0 all are gathered at the end, from the right. Each entry is written at or behind the place of
those still to be moved (`GatheredOnce`), so none is lost, and the list is the same after
`Rebuilt` (`RebuiltIs`). `Rebuilt_Rising` goes the other way and loses some. That the list is a move to front
is then `RecentMoved`: the symbol written last, alone or as a run, has a last place behind all others and
comes first, the others keep their order. `HandedDown` and `Rebuilt` are recursive functions on a range
of numbers; their values are had from `StepsExist`.

Only model-checked: liveness (`RequestsEnd`, `CallsReturn`, `DecodeEnds`, `ReadEnds`), since
it rests on fairness and `ENABLED`, which the prover cannot reason about; all of `BlockSort`
(`RotationsSorted`, `BucketsTell`, `ClassesTell`, `Unsorts`); and of `EntropyCoding` that one side reads
what the other writes (`RoundTrip`), that the tables are complete and within the limit
(`TablesSound`) and that halving weights ends (`HalvingShrinks`). The sorts, trees and codes behind
these are computed by recursion over data; their properties are inductions over that data, which
the installed provers cannot do but for functions of a number as above.

## 5. Where documentation and code differ

Shown by a run:

* `error_doc`: bzip2.c:1289 and 1466 say of the place where the input is about to be removed
  "If there was an I/O error, we won't get here." When something that is no
  stream follows the last one, `uncompressStream` closes the output at line 516 without
  looking at the result: the last bytes may be lost, and the input is removed.
* `validate_doc`: README.md:161 says that `decompress` decompresses "with automatic
  validation". The export takes `BZ_OK` (input or room has run out) for success, so
  a stream that was cut short, or whose content exceeds ten times its length and 64 KB,
  gives its front part without an error, and without the CRC of the stream compared.

Met while modelling, and part of the modules though no run is spent on them:

* A flush ends when `zbits` has been copied out; the last bits of the block may still be in
  `bsBuff` (`bsW` moves whole bytes only), so what the caller has so far need not be
  decodable up to the flush. manual.xml:1350 asks for "all compressed output".
* A `BZ_RUN` call that makes no progress is answered with `BZ_PARAM_ERROR` on a valid
  stream; manual.xml:1409 speaks of `BZ_SEQUENCE_ERROR`.
* `BZ2_bzDecompress` with `avail_out = 0` is not refused (manual.xml:1576); it consumes
  input and returns `BZ_OK`.
* Once the file has failed, `BZ2_bzWriteClose64` returns `BZ_IO_ERROR` (bzlib.c:1039) before it has
  released anything, also when told to abandon (manual.xml:2075): the stream leaks.
* `myfeof` cannot tell a read error from the end of the file, so `BZ2_bzRead` may answer
  `BZ_UNEXPECTED_EOF` to a read error (manual.xml:1834).
* `BZ2_bzBuffToBuffCompress` of no input into no room answers `BZ_SEQUENCE_ERROR`, a code the
  manual does not list for it.
* blocksort.c:1060 says that the stream is the same whichever sort is used. For a
  block that repeats a shorter string, equal rotations may come in another order, and with
  them `origPtr`; what is decompressed is the same (`Unsorts`).
* compress.c:138 says that there are "strictly fewer or equal MTF values than block values";
  with the end-of-block value there can be one more, which fits since values take half the room.
* bzip2recover.c:433 tests before it increments: one entry behind `bStart` and `bEnd`
  can be stored. `TooManyRefused` shows that it is never more than one.
* A small request (optimized_memory.c:78) is looked for in `free_list_small`, which nothing is
  ever put into, so the pool never serves it. `total_allocated` grows by the rounded
  request and shrinks by the size of the block: it drifts.
* `bzip2 -d -f` of a good stream with something behind it writes the content and then the
  whole file as it is (`trycat` after `rewind`; man/bzip2.1 speaks of files that are no streams).

## 6. Not modelled, and why

* The zlib-like interface: `bzread`, `bzwrite`, `bzclose` pick a function of the file
  interface by a flag and translate its code, `bzflush` does nothing; no state of its own.
* The SIMD variants: static functions nobody calls, exports on arrays of the caller, and an
  allocator that frees nothing. `bzip2_compress_buffer_enhanced` is modelled with the one-call functions.
* `bzip2_compress_stream_optimized`, which keeps a static compressor: below it is
  `CompressStream` with a caller that is a special case of the one modelled.
* The class `Bzip2` but for `decompress`: a flag and calls into the exports.
* Tables of constants, test generators, shell wrappers, demos, build files.
* Inside the modelled components: the values of CRCs (what they cover is kept), verbosity,
  randomised blocks in the sort (the decompressor reads them), the count of the work
  budget, the parsing of the command line, standard input as a source.

## 7. Possible extensions

`BZ2_decompress` bit by bit with the locals it saves, composing `DecompressStream` and `EntropyCoding`; the lifecycle of the class `Bzip2`.
