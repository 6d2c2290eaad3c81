------------------------------ MODULE OmpBlocks ------------------------------
(***************************************************************************)
(* Compression and decompression of a 3D array by OpenMP threads, one      *)
(* block of the array for each of them (sz_omp.c).                         *)
(*                                                                         *)
(* The work is a sequence of parallel loops over the blocks, with serial   *)
(* code in between.  A loop asks for one thread per block, but what it     *)
(* works on is the block of its own thread number, not of its iteration.   *)
(* The threads write disjoint parts of shared arrays, at offsets that the  *)
(* serial code sums up, and the end of each loop is a barrier.             *)
(*                                                                         *)
(* A value of the array is represented by its position, and so is its      *)
(* code; the coded bytes of a block and its unpredictable values are known *)
(* by their number.                                                        *)
(***************************************************************************)
EXTENDS Integers, FiniteSets

CONSTANTS
  MaxThreads,  \* values of omp_get_max_threads(), below 128
  Types,       \* types of the array
  Shapes,      \* dimensions <<r1, r2, r3>> of arrays
  Teams,       \* sizes of the teams a loop may get, if it asks for as many
  Static,      \* the iterations are split evenly and in order (schedule(static))
  Loads,       \* functions that give each block its number of unpredictable
               \* values and its number of coded bytes
  SizeMax      \* SIZE_MAX, the largest size_t

ASSUME OmpBlocksAssumption ==
  /\ MaxThreads \subseteq 1 .. 127 /\ Types \subseteq {"float", "double"}
  /\ Shapes \subseteq (Nat \ {0}) \X (Nat \ {0}) \X (Nat \ {0})
  /\ Teams \subseteq 1 .. 127 /\ Static \in BOOLEAN
  /\ Loads \subseteq [0 .. 126 -> Nat \X (Nat \ {0})] /\ SizeMax \in Nat

VARIABLES
  dims, type,     \* the array
  thread_num,     \* one per block; also a field of the stream
  unpred, size,   \* what the values of each block amount to
  blocks,         \* what the compressor has made of them, see Layout
  blocksBack,     \* and the decompressor
  stage,          \* the parallel loop being executed
  team, left,     \* its threads, and the iterations each has still to do
  working,        \* the threads inside SZ_compress_float_3D_MDQ_RA_block
  rows,           \* the parts of buffer0 and buffer1: whose rows they hold
  codes,          \* result_type
  count,          \* unpredictable_count
  freq,           \* how often each code has been counted for the Huffman tree
  exactAt,        \* the section of unpredictable values in the result
  encoded,        \* encoding_buffer
  blockPos,       \* block_pos, in the result
  codesAt,        \* the section of coded blocks in the result
  decoded,        \* result_type of the decompressor
  out,            \* its *data
  full            \* history: every loop so far has got all its threads

input == <<dims, type, thread_num, unpred, size, blocks>>
loop == <<stage, team, left, full>>
written == <<count, freq, exactAt, encoded, blockPos, codesAt>>
memory == <<working, rows, codes, decoded, out>>
vars == <<input, blocksBack, loop, written, memory>>

Garbage == -1  \* memory nobody has written
Wrong == -2    \* a code or a value that is not that of its place
-----------------------------------------------------------------------------
(* The blocks                                                              *)

Log2(n) == CHOOSE k \in 0 .. 6 : 2 ^ k <= n /\ n < 2 ^ (k + 1)

\* num_x, num_y and num_z for a number of threads.
Grid(n) ==
  LET third == 2 ^ (Log2(n) \div 3)
      x == IF Log2(n) % 3 = 0 THEN third ELSE 2 * third
      y == IF Log2(n) % 3 = 2 THEN 2 * third ELSE third
  IN <<x, y, n \div (x * y)>>
Blocks(grid) == grid[1] * grid[2] * grid[3]

Ids == 0 .. thread_num - 1

\* SZ_COMPUTE_BLOCKCOUNT: the first n % num parts are longer by one.
Length(n, num, i) == IF i < n % num THEN (n \div num) + 1 ELSE n \div num
\* Mutant of Offset: the parts are taken to be of the same length.
OffsetEven(n, num, i) == i * Length(n, num, i)
Offset(n, num, i) ==
  IF i < n % num THEN i * Length(n, num, i) ELSE i * Length(n, num, i) + (n % num)

\* Where the block of a thread number in the grid g begins and how long it is,
\* in each dimension.
Block(g, id) ==
  LET x == id \div (g[2] * g[3])
      y == (id % (g[2] * g[3])) \div g[3]
      z == id % g[3]
  IN [offset |-> <<Offset(dims[1], g[1], x), Offset(dims[2], g[2], y), Offset(dims[3], g[3], z)>>,
      length |-> <<Length(dims[1], g[1], x), Length(dims[2], g[2], y), Length(dims[3], g[3], z)>>]

Elements == dims[1] * dims[2] * dims[3]

\* type_offset: where the codes of a block begin.
\* Mutant of TypeOffset: the rows before the block are counted at full length.
TypeOffsetFull(b) ==
  b.offset[1] * dims[2] * dims[3] + b.offset[2] * dims[3] + b.offset[3]
TypeOffset(b) ==
  b.offset[1] * dims[2] * dims[3] + b.offset[2] * b.length[1] * dims[3]
    + b.offset[3] * b.length[1] * b.length[2]

\* The position in the array of the value whose code is the k-th of a block.
CellOf(b, k) ==
  LET x == k \div (b.length[2] * b.length[3])
      y == (k \div b.length[3]) % b.length[2]
      z == k % b.length[3]
  IN ((b.offset[1] + x) * dims[2] + b.offset[2] + y) * dims[3] + b.offset[3] + z

\* SZ_compress_float_3D_MDQ_RA_block takes at least one layer and one row, and
\* of the first row two values, however long the block is; those beyond the
\* block are strays, each with the place of its code and its own.
Taken(b) ==
  LET Upto(n) == IF n = 0 THEN {0} ELSE 0 .. n - 1
  IN (Upto(b.length[1]) \X Upto(b.length[2]) \X Upto(b.length[3])) \cup {<<0, 0, 1>>}
Strays(b) ==
  [v \in {w \in Taken(b) : \E d \in 1 .. 3 : w[d] >= b.length[d]} |->
     [code |-> TypeOffset(b) + (v[1] * b.length[2] + v[2]) * b.length[3] + v[3],
      cell |-> ((b.offset[1] + v[1]) * dims[2] + b.offset[2] + v[2]) * dims[3]
                 + b.offset[3] + v[3]]]

\* For each block of a grid, where its codes begin and which values they are
\* of, and its strays.
Layout(g) ==
  [id \in 0 .. Blocks(g) - 1 |->
     LET b == Block(g, id)
     IN [first |-> TypeOffset(b),
         cells |-> [k \in 0 .. b.length[1] * b.length[2] * b.length[3] - 1 |-> CellOf(b, k)],
         strays |-> Strays(b)]]
Codes(b) == {b.first + k : k \in DOMAIN b.cells}
Thin(b) == DOMAIN b.strays # {}
StrayCodes(b) == {b.strays[v].code : v \in DOMAIN b.strays}
StrayCells(b) == {b.strays[v].cell : v \in DOMAIN b.strays}

\* block_size and block_residue of Huffman_init_openmp.
\* Mutant of ChunkLength: the last part is what a division leaves over.
ChunkLengthRest(id) ==
  LET chunk == (Elements - 1) \div thread_num + 1
  IN IF id < thread_num - 1 THEN chunk ELSE Elements % chunk
ChunkLength(id) ==
  LET chunk == (Elements - 1) \div thread_num + 1
  IN IF id < thread_num - 1 THEN chunk
     ELSE (Elements - (thread_num - 1) * chunk) % (SizeMax + 1)
Chunk(id) ==
  LET first == id * ((Elements - 1) \div thread_num + 1)
  IN first .. first + ChunkLength(id) - 1

\* The sum of f over the numbers below id: unpred_offset and block_offset.
\* Mutant of Before: the block itself is added in.
BeforeInclusive(f, id) ==
  LET sum[i \in 0 .. id] == f[i] + (IF i = 0 THEN 0 ELSE sum[i - 1]) IN sum[id]
Before(f, id) ==
  LET sum[i \in 0 .. id] == IF i = 0 THEN 0 ELSE f[i - 1] + sum[i - 1] IN sum[id]

-----------------------------------------------------------------------------
(* Parallel loops                                                          *)

\* Fresh memory reads as zero, if the process survives what it means.
Read(x) == IF x = Garbage THEN 0 ELSE x
ReadAll(f) == [i \in DOMAIN f |-> Read(f[i])]

\* The iterations of each thread of a team of n, which OpenMP chooses.
Even(n) ==
  LET q == thread_num \div n
      r == thread_num % n
      first(id) == id * q + (IF id < r THEN id ELSE r)
  IN [id \in Ids |-> IF id < n THEN first(id) .. first(id + 1) - 1 ELSE {}]
Anyhow(n) ==
  {[id \in Ids |-> {t \in Ids : by[t] = id}] : by \in [Ids -> 0 .. n - 1]}
Assignments(n) == IF Static THEN {Even(n)} ELSE Anyhow(n)
TeamSizes == {IF n < thread_num THEN n ELSE thread_num : n \in Teams}

Open(name) ==
  /\ stage' = name
  /\ \E n \in TeamSizes :
       /\ team' = n
       /\ left' \in Assignments(n)
       /\ full' = (full /\ n = thread_num)

\* Mutant of Barrier: it waits for as many threads as were asked for.
BarrierOfAll(name) == stage = name /\ team = thread_num /\ \A id \in Ids : left[id] = {}
Barrier(name) == stage = name /\ \A id \in Ids : left[id] = {}

\* Iteration t is the next of thread id in this loop.
Turn(name, id, t) ==
  /\ stage = name
  /\ t \in left[id] /\ \A u \in left[id] : t <= u
  /\ left' = [left EXCEPT ![id] = @ \ {t}]
  /\ UNCHANGED <<stage, team, full>>

Init ==
  /\ dims \in Shapes /\ type \in Types
  /\ \E n \in MaxThreads : thread_num = Blocks(Grid(n)) /\ blocks = Layout(Grid(n))
  /\ blocksBack = << >>
  /\ \E load \in Loads : /\ unpred = [id \in Ids |-> load[id][1]]
                          /\ size = [id \in Ids |-> load[id][2]]
  /\ stage = "quantize"
  /\ \E n \in TeamSizes : team = n /\ left \in Assignments(n) /\ full = (n = thread_num)
  /\ working = {}
  /\ rows = [id \in Ids |-> Garbage]
  /\ codes = [i \in 0 .. Elements - 1 |-> Garbage]
  /\ count = [id \in Ids |-> Garbage]
  /\ freq = [i \in 0 .. Elements - 1 |-> 0]
  /\ exactAt = << >> /\ codesAt = << >>
  /\ encoded = [id \in Ids |-> Garbage] /\ blockPos = [id \in Ids |-> Garbage]
  /\ decoded = codes /\ out = codes

\* Mutant of Buffer: all threads share the buffers of the first.
BufferShared(id) == 0
\* P0 and P1 of a thread number.
Buffer(id) == id
\* They have room for one value only.
OneValueRooms ==
  LET g == Grid(thread_num) IN Length(dims[2], g[2], 0) * Length(dims[3], g[3], 0) = 1

\* A thread begins to work on its block in its row buffers, and the second value
\* of a row of one goes to those of the next thread ...
QuantizeBegin(id) ==
  /\ stage = "quantize" /\ left[id] # {} /\ id \notin working
  /\ working' = working \cup {id}
  /\ LET used == {Buffer(id)} \cup (IF Thin(blocks[id]) /\ OneValueRooms THEN {Buffer(id) + 1} ELSE {})
     IN rows' = [i \in DOMAIN rows |-> IF i \in used THEN id ELSE rows[i]]
  /\ UNCHANGED <<input, blocksBack, loop, written, codes, decoded, out>>

\* ... and is done, with the right codes if nobody else has used them. Strays
\* leave their codes in the array, and some a value among the unpredictable.
QuantizeEnd(id, t) ==
  /\ Turn("quantize", id, t) /\ id \in working
  /\ working' = working \ {id}
  /\ LET b == blocks[id]
         code(i) == IF rows[Buffer(id)] = id THEN b.cells[i - b.first] ELSE Wrong
     IN codes' = [i \in DOMAIN codes |->
                    IF i \in Codes(b) THEN code(i) ELSE IF i \in StrayCodes(b) THEN Wrong ELSE codes[i]]
  /\ \E n \in 0 .. Cardinality(DOMAIN blocks[id].strays) :
       count' = [count EXCEPT ![id] = unpred[id] + n]
  /\ UNCHANGED <<input, blocksBack, freq, exactAt, encoded, blockPos, codesAt,
                 rows, decoded, out>>

\* Huffman_init_openmp counts the codes of a part of the array.
Count(id, t) ==
  /\ Turn("count", id, t)
  /\ \A i \in Chunk(id) : i < Elements
  /\ freq' = [i \in DOMAIN freq |-> IF i \in Chunk(id) THEN freq[i] + 1 ELSE freq[i]]
  /\ UNCHANGED <<input, blocksBack, count, exactAt, encoded, blockPos, codesAt,
                 working, rows, codes, decoded, out>>

\* The n entries of a block are copied to a section, from a position on.
Put(section, id, from, n) ==
  LET there == from .. from + n - 1
  IN [i \in DOMAIN section \cup there |-> IF i \in there THEN <<id, i - from>> ELSE section[i]]

CopyExact(id, t) ==
  /\ Turn("copyExact", id, t)
  /\ LET c == ReadAll(count)
     IN exactAt' = Put(exactAt, id, Before(c, id), c[id])
  /\ UNCHANGED <<input, blocksBack, count, freq, encoded, blockPos, codesAt,
                 working, rows, codes, decoded, out>>

\* encode: the codes of a block go to its part of encoding_buffer.
Encode(id, t) ==
  /\ Turn("encode", id, t)
  /\ encoded' = [encoded EXCEPT ![id] = id]
  /\ blockPos' = [blockPos EXCEPT ![id] = size[id]]
  /\ UNCHANGED <<input, blocksBack, count, freq, exactAt, codesAt, working, rows, codes, decoded, out>>

\* The offset is that of the thread, the bytes are those of the iteration.
CopyCodes(id, t) ==
  /\ Turn("copyCodes", id, t)
  /\ LET s == ReadAll(blockPos)
     IN codesAt' = Put(codesAt, encoded[t], Before(s, id), s[t])
  /\ UNCHANGED <<input, blocksBack, count, freq, exactAt, encoded, blockPos,
                 working, rows, codes, decoded, out>>

-----------------------------------------------------------------------------
(* The serial code at the end of a loop, up to the beginning of the next.  *)
(* The sums it makes are taken by Before where they are used.              *)

Then(name, next) ==
  /\ Barrier(name) /\ Open(next)
  /\ UNCHANGED <<input, blocksBack, written, memory>>

JoinQuantize == Then("quantize", "count")
JoinCount == Then("count", "copyExact")
JoinCopyExact == Then("copyExact", "encode")
JoinEncode == Then("encode", "copyCodes")

\* The stream is complete; the decompressor reads it and cuts its array.
JoinCopyCodes ==
  /\ Barrier("copyCodes") /\ Open("decode")
  /\ blocksBack' = Layout(Grid(thread_num))
  /\ UNCHANGED <<input, written, memory>>

JoinDecode == Then("decode", "rebuild")
JoinRebuild ==
  /\ Barrier("rebuild")
  /\ stage' = "done"
  /\ UNCHANGED <<team, left, full, input, blocksBack, written, memory>>

Join ==
  \/ JoinQuantize \/ JoinCount \/ JoinCopyExact \/ JoinEncode
  \/ JoinCopyCodes \/ JoinDecode \/ JoinRebuild

\* Codes or numbers nobody has written are used as indices and lengths, or the
\* array of codes has been written or is counted beyond its end.
Wild ==
  \/ \E i \in DOMAIN codes : codes[i] = Garbage
  \/ \E id \in Ids : \/ count[id] = Garbage
                     \/ (Chunk(id) \cup StrayCodes(blocks[id])) \ DOMAIN codes # {}
  \/ stage = "copyCodes" /\ \E id \in Ids : blockPos[id] = Garbage
Crash ==
  /\ stage \in {"count", "copyExact", "encode", "copyCodes"} /\ Wild
  /\ stage' = "crashed"
  /\ UNCHANGED <<team, left, full, input, blocksBack, written, memory>>

-----------------------------------------------------------------------------
(* Decompression                                                           *)

\* The fields of the header are four bytes wide, the bound excepted; the
\* decompressor skips the width of a value after the number of intervals.
TreeFound == type = "float"

\* A section has the n entries of a block from a position on.
Has(section, id, from, n) ==
  \A k \in 0 .. n - 1 : from + k \in DOMAIN section /\ section[from + k] = <<id, k>>

Decode(id, t) ==
  /\ Turn("decode", id, t)
  /\ LET s == ReadAll(blockPos)
         right == TreeFound /\ s[id] = size[id] /\ Has(codesAt, id, Before(s, id), s[id])
     IN decoded' = [i \in DOMAIN decoded |->
                      IF i \notin Codes(blocksBack[id]) THEN decoded[i]
                      ELSE IF right THEN codes[i] ELSE Wrong]
  /\ UNCHANGED <<input, blocksBack, written, working, rows, codes, out>>

\* A value is rebuilt if its code is its own and the values stored for its
\* block are there and taken in order, which a stray may upset; a block is
\* written where the decompressor thinks it is, and so are its strays.
Rebuild(id, t) ==
  /\ Turn("rebuild", id, t)
  /\ LET b == blocksBack[id]
         c == ReadAll(count)
         there == c[id] = unpred[id] /\ Has(exactAt, id, Before(c, id), c[id])
     IN \E right \in (IF Thin(b) THEN BOOLEAN ELSE {there}) :
          LET rebuilt(k) == IF right THEN decoded[b.first + k] ELSE Wrong
          IN out' = [cell \in DOMAIN out |->
                       IF \E k \in DOMAIN b.cells : b.cells[k] = cell
                       THEN rebuilt(CHOOSE k \in DOMAIN b.cells : b.cells[k] = cell)
                       ELSE IF cell \in StrayCells(b) THEN Wrong ELSE out[cell]]
  /\ UNCHANGED <<input, blocksBack, written, working, rows, codes, decoded>>

Thread(id) ==
  \/ QuantizeBegin(id)
  \/ \E t \in Ids : \/ QuantizeEnd(id, t) \/ Count(id, t) \/ CopyExact(id, t)
                    \/ Encode(id, t) \/ CopyCodes(id, t)
                    \/ Decode(id, t) \/ Rebuild(id, t)

AllIds == UNION {0 .. n - 1 : n \in MaxThreads}

Next ==
  \/ \E id \in Ids : Thread(id)
  \/ Join
  \/ Crash

Spec == Init /\ [][Next]_vars

\* The operating system runs every thread of a team, and the one that goes on
\* after the loop.
FairSpec ==
  /\ Spec
  /\ \A id \in AllIds : WF_vars(id \in Ids /\ Thread(id))
  /\ WF_vars(Join)

-----------------------------------------------------------------------------
(* Properties                                                              *)

\* Every variable has its type, and a thread outside the team has no work.
TypeOK ==
  /\ team \in 1 .. thread_num
  /\ left \in [Ids -> SUBSET Ids]
  /\ \A id \in Ids : team <= id => left[id] = {} /\ id \notin working
  /\ DOMAIN codes = 0 .. Elements - 1 /\ DOMAIN out = DOMAIN codes
  /\ \A id \in Ids : /\ \/ count[id] = Garbage
                        \/ count[id] - unpred[id] \in 0 .. Cardinality(DOMAIN blocks[id].strays)
                     /\ blockPos[id] \in {size[id], Garbage}
  /\ \A i \in DOMAIN freq : freq[i] \in Nat

\* The array comes back whole and in place; with all threads; and with all
\* threads if no block is thin, that is, each has values and two in a row. The
\* first two fail.
RoundTrip == stage = "done" => \A i \in DOMAIN out : out[i] = i
RoundTripIfFull == stage = "done" /\ full => \A i \in DOMAIN out : out[i] = i

Thick == \A id \in Ids : ~ Thin(blocks[id])
Regular == full /\ Thick

\* If every loop gets the threads it asks for and no block is thin, the array
\* comes back whole and in place: the blocks and the parts of the code array
\* partition theirs, no thread writes over the bytes of another, and the
\* decompressor cuts the array as the compressor did (sz_omp.c:88-118, 163-190,
\* 255-312, 376-404).
RoundTripIfRegular == stage = "done" /\ Regular => \A i \in DOMAIN out : out[i] = i

\* With all its threads, and no thin block, the loop that counts the codes for
\* the Huffman tree stays within them and visits each once (a code that is
\* missing has no entry in the tree), and no later loop uses what is not written
\* (sz_omp.c:1012-1041).
CountedOnce ==
  Regular => /\ stage # "crashed"
             /\ stage = "copyExact" => \A i \in DOMAIN freq : freq[i] = 1

\* Whatever teams it gets, a call comes back, or dies of memory that was not
\* written, or that is not its own.
Returns == <>(stage \in {"done", "crashed"})
=============================================================================
