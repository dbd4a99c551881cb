------------------------- MODULE VectorTests_proofs -------------------------
(***************************************************************************)
(* The vector tests are right for every memory of less than 2^31 bytes,    *)
(* every vector and every word size.                                       *)
(***************************************************************************)
EXTENDS VectorTests, TLAPS

\* TMEM_Verify's caller gives it 2^30 bytes (main.c:54, 247).
Short == ByteLen < Limit

-----------------------------------------------------------------------------
(* Arithmetic.                                                             *)

LEMMA Mod ==
  ASSUME NEW n \in Nat, NEW m \in Nat, n < m
  PROVE  n % m = n
BY Z3

LEMMA DivMul ==
  ASSUME NEW n \in Nat, NEW d \in Nat \ {0}
  PROVE  (d * n) \div d = n
BY Z3

LEMMA ModAdd ==
  ASSUME NEW k \in Nat, NEW i \in Nat, NEW m \in Nat \ {0}, i < m
  PROVE  (k * m + i) % m = i
BY Z3

LEMMA MulOrder ==
  ASSUME NEW d \in Nat \ {0}, NEW a \in Int, NEW b \in Int
  PROVE  d * a < d * b <=> a < b
BY Z3

LEMMA Divided ==
  ASSUME NEW n \in Nat, NEW d \in Nat \ {0}, n % d = 0
  PROVE  n = d * (n \div d) /\ n \div d \in Nat
BY Z3
-----------------------------------------------------------------------------
(* The inductive invariant.                                                *)

\* The bytes counted are those of the words passed; as long as there are
\* words left, the chunks have been whole vectors, so that the next one
\* starts where the vector starts again; and the words passed hold the
\* pattern, in a read loop that has not failed.
Passed(n) == \A w \in Index : w < n => mem[half][w] = Vector[w % Size]

Counted ==
  /\ pos = WordBytes * ptr /\ len = WordBytes * items
  /\ ptr < Words => items = Size /\ \E k \in Nat : ptr = k * Size

\* What the half that is tested holds, when it holds the vector of the test.
Mine == IF verify THEN "local" ELSE "global"

\* A half holds TMEM_Verify's vector only while TMEM_Verify reads it.
LocalOK ==
  \A h \in Halves : holds[h] = "local" => fn = "read" /\ verify /\ h = half

LoopInv ==
  /\ TypeOK
  /\ fn # "none" => Counted
  /\ fn = "none" => ~verify
  /\ (fn = "write" \/ (fn = "read" /\ success)) => Passed(ptr)
  /\ fn = "write" => success /\ holds[half] = "none"
  /\ WriteCovers
  /\ LocalOK
  /\ (fn = "read" /\ holds[half] = Mine) => success

LEMMA Sizes ==
  /\ Words \in Nat /\ ByteLen = WordBytes * Words /\ ByteLen \in Nat
  /\ WordBytes \in Nat \ {0} /\ Items \in Nat \ {0} /\ LocalItems \in Nat \ {0}
  /\ Size \in Nat \ {0} /\ Limit \in Nat
BY ConstantsAssumption, Divided DEF Words, Size

LEMMA InRange ==
  ASSUME NEW n \in 0..ByteLen
  PROVE  Unsigned(n) = n /\ (n < Limit => Signed(n) = n)
<1>1. n \in Nat /\ 2 * Limit \in Nat /\ n < 2 * Limit
  BY ConstantsAssumption
<1>2. Unsigned(n) = n
  BY <1>1, Mod DEF Unsigned
<1> QED
  BY <1>2 DEF Signed

\* What the next chunk is.
LEMMA Chunk ==
  ASSUME Short, LoopInv, fn # "none", More
  PROVE  /\ ptr \in Nat /\ ptr < Words /\ items = Size
         /\ ChunkItems \in 1..Size /\ ptr + ChunkItems <= Words
         /\ ptr + ChunkItems < Words => ChunkItems = Size
         /\ ChunkLen = WordBytes * ChunkItems /\ Unsigned(ChunkLen) = ChunkLen
         /\ Signed(pos + ChunkLen) = WordBytes * (ptr + ChunkItems)
<1>1. /\ ptr \in Nat /\ ptr <= Words /\ pos \in 0..ByteLen /\ pos = WordBytes * ptr
      /\ len = WordBytes * items
  BY Sizes DEF LoopInv, TypeOK, Counted
<1>2. ptr < Words /\ Unsigned(pos) = pos
  <2>1. Unsigned(pos) = pos
    BY <1>1, InRange
  <2>2. WordBytes * ptr < WordBytes * Words
    BY <1>1, <2>1, Sizes DEF More
  <2> QED
    BY <1>1, <2>1, <2>2, MulOrder, Sizes
<1>3. items = Size
  BY <1>2 DEF LoopInv, Counted
<1> DEFINE left == Words - ptr
<1>4. left \in Nat /\ left > 0 /\ left <= Words
  BY <1>1, <1>2, Sizes
<1>5. Signed(ByteLen - Unsigned(pos)) = WordBytes * left
  <2>1. ByteLen - pos = WordBytes * left
    BY <1>1, Sizes
  <2>2. ByteLen - pos \in 0..ByteLen /\ ByteLen - pos < Limit
    BY <1>1, ConstantsAssumption DEF Short
  <2> QED
    BY <1>2, <2>1, <2>2, InRange
<1> HIDE DEF left
<1> DEFINE Goal == /\ ChunkItems \in 1..Size /\ ChunkItems <= left
                   /\ ChunkItems < left => ChunkItems = Size
                   /\ ChunkLen = WordBytes * ChunkItems
<1>6. ASSUME Size <= left PROVE Goal
  <2>1. ~(WordBytes * Size > WordBytes * left)
    BY <1>4, <1>6, MulOrder, Sizes
  <2>2. ChunkLen = len /\ ChunkItems = Size
    BY <1>1, <1>3, <1>5, <2>1 DEF ChunkLen, ChunkItems
  <2> QED
    BY <1>1, <1>3, <1>6, <2>2, Sizes
<1>7. ASSUME Size > left PROVE Goal
  <2>1. WordBytes * Size > WordBytes * left
    BY <1>4, <1>7, MulOrder, Sizes
  <2>2. ChunkLen = WordBytes * left /\ ChunkLen # len
    BY <1>1, <1>3, <1>5, <2>1 DEF ChunkLen
  <2>3. Quotient(WordBytes * left) = left
    <3>1. WordBytes * left >= 0
      BY <1>4, Sizes
    <3> QED
      BY <1>4, <3>1, DivMul, Sizes DEF Quotient
  <2>4. ChunkItems = left
    BY <2>2, <2>3 DEF ChunkItems
  <2> QED
    BY <1>4, <1>7, <2>2, <2>4, Sizes
<1>8. Goal
  BY <1>4, <1>6, <1>7, Sizes
<1>9. /\ ptr + ChunkItems <= Words
      /\ ptr + ChunkItems < Words => ChunkItems = Size
  BY <1>1, <1>8, Sizes DEF left
<1> HIDE DEF Goal
<1>10. /\ pos + ChunkLen = WordBytes * (ptr + ChunkItems)
       /\ pos + ChunkLen \in 0..ByteLen /\ ChunkLen \in 0..ByteLen
  <2> DEFINE c == ChunkItems
  <2>1. c \in Nat /\ ChunkLen = WordBytes * c
    BY <1>8, Sizes DEF Goal
  <2>2. ptr + c <= Words
    BY <1>9
  <2> HIDE DEF c
  <2>3. pos + ChunkLen = WordBytes * (ptr + c) /\ WordBytes * c \in Nat
        /\ WordBytes * (ptr + c) \in Nat
    BY <1>1, <2>1, Sizes
  <2>4. WordBytes * (ptr + c) <= WordBytes * Words
    BY <1>1, <2>1, <2>2, MulOrder, Sizes
  <2> QED
    BY <1>1, <2>1, <2>3, <2>4, Sizes DEF c
<1>11. Signed(pos + ChunkLen) = pos + ChunkLen /\ Unsigned(ChunkLen) = ChunkLen
  BY <1>10, InRange, ConstantsAssumption DEF Short
<1> QED
  BY <1>1, <1>2, <1>3, <1>8, <1>9, <1>10, <1>11 DEF Goal
-----------------------------------------------------------------------------
(* The steps.                                                              *)

\* A word of the next chunk has the place in the vector that it has in the
\* chunk.
LEMMA Phase ==
  ASSUME Short, LoopInv, fn # "none", More,
         NEW w \in Index, ptr <= w, w < ptr + ChunkItems
  PROVE  w - ptr \in 0..(ChunkItems - 1) /\ w - ptr < Size
         /\ w % Size = w - ptr
<1>1. /\ ptr \in Nat /\ ptr < Words /\ ChunkItems \in 1..Size
  BY Chunk
<1>2. PICK k \in Nat : ptr = k * Size
  BY <1>1 DEF LoopInv, Counted
<1> DEFINE i == w - ptr
<1>3. w \in Nat /\ i \in 0..(ChunkItems - 1) /\ i \in Nat /\ i < Size
  BY <1>1, Sizes DEF Index
<1>4. w = k * Size + i
  BY <1>1, <1>2, <1>3, Sizes
<1> HIDE DEF i
<1>5. w % Size = i
  BY <1>3, <1>4, ModAdd, Sizes
<1> QED
  BY <1>3, <1>5 DEF i

\* Before a chunk, and when the loop is over.
LEMMA Over ==
  ASSUME LoopInv, fn # "none", ~More
  PROVE  ptr = Words
<1>1. /\ ptr \in Nat /\ ptr <= Words /\ pos \in 0..ByteLen /\ pos = WordBytes * ptr
  BY Sizes DEF LoopInv, TypeOK, Counted
<1>2. ~(WordBytes * ptr < WordBytes * Words)
  BY <1>1, InRange, Sizes DEF More
<1>3. ~(ptr < Words)
  BY <1>1, <1>2, MulOrder, Sizes
<1> QED
  BY <1>1, <1>3, Sizes

LEMMA AllPassed ==
  ASSUME Passed(Words)
  PROVE  Pattern(half, Vector, Size)
BY Sizes DEF Passed, Pattern, Index

LEMMA InitInv == Init => LoopInv
<1> SUFFICES ASSUME Init PROVE LoopInv
  OBVIOUS
<1>1. xSZData \in Vectors(Items) /\ szData \in Vectors(LocalItems)
  BY ConstantsAssumption DEF Init, Vectors, NoVector
<1>2. /\ pos \in 0..ByteLen /\ len \in 0..(Size * WordBytes) /\ items \in 0..Size
      /\ ptr \in 0..Words
  BY Sizes DEF Init
<1>3. TypeOK
  BY <1>1, <1>2 DEF Init, TypeOK
<1> QED
  BY <1>3 DEF Init, LoopInv, WriteCovers, LocalOK

\* A loop that starts has counted nothing and passed nothing.
LEMMA Started ==
  ASSUME NEW f, NEW n \in Nat \ {0}, StartLoop(f, n), Size' = n
  PROVE  /\ fn' = f /\ Counted' /\ ptr' = 0 /\ Passed(ptr)'
         /\ pos' \in 0..ByteLen /\ len' \in 0..(Size' * WordBytes)
         /\ items' \in 0..Size' /\ ptr' \in 0..Words
<1>1. /\ pos' = 0 /\ ptr' = 0 /\ len' = n * WordBytes /\ items' = n /\ fn' = f
  BY DEF StartLoop
<1>2. /\ n * WordBytes \in Nat /\ n * WordBytes = WordBytes * n
      /\ ByteLen \in Nat /\ 0 \in Nat /\ 0 = 0 * n /\ 0 = WordBytes * 0
  BY Sizes
<1>3. Counted'
  BY <1>1, <1>2, Sizes DEF Counted
<1>4. Passed(ptr)'
  BY <1>1, Sizes DEF Passed, Index
<1> QED
  BY <1>1, <1>2, <1>3, <1>4, Sizes

\* A call that returns has forgotten its locals.
LEMMA Returned ==
  ASSUME Return
  PROVE  /\ fn' = "none" /\ verify' = FALSE /\ szData' \in Vectors(LocalItems)
         /\ pos' \in 0..ByteLen /\ len' \in 0..(Size' * WordBytes)
         /\ items' \in 0..Size' /\ ptr' \in 0..Words
<1>1. /\ fn' = "none" /\ verify' = FALSE /\ szData' = NoVector
      /\ pos' = 0 /\ len' = 0 /\ items' = 0 /\ ptr' = 0
  BY DEF Return
<1>2. Size' = Items
  BY <1>1 DEF Size
<1>3. NoVector \in Vectors(LocalItems)
  BY ConstantsAssumption DEF NoVector, Vectors
<1>4. Items * WordBytes \in Nat
  BY Sizes
<1> QED
  BY <1>1, <1>2, <1>3, <1>4, Sizes

LEMMA CallWriteInv == LoopInv /\ CallWrite => LoopInv'
<1> SUFFICES ASSUME LoopInv, CallWrite PROVE LoopInv'
  OBVIOUS
<1>1. StartLoop("write", Items) /\ verify' = FALSE /\ Size' = Items
      /\ holds' = [h \in Halves |-> "none"] /\ success' = TRUE /\ half' \in Halves
  BY DEF CallWrite, LoopInv, Size
<1>2. /\ fn' = "write" /\ Counted' /\ Passed(ptr)' /\ pos' \in 0..ByteLen
      /\ len' \in 0..(Size' * WordBytes) /\ items' \in 0..Size' /\ ptr' \in 0..Words
  BY <1>1, Started, Sizes
<1>3. TypeOK'
  BY <1>1, <1>2 DEF LoopInv, TypeOK, CallWrite
<1>4. WriteCovers' /\ LocalOK'
  BY <1>1 DEF WriteCovers, LocalOK
<1> QED
  BY <1>1, <1>2, <1>3, <1>4 DEF LoopInv

LEMMA CallVerifyInv == LoopInv /\ CallVerify => LoopInv'
<1> SUFFICES ASSUME LoopInv, CallVerify PROVE LoopInv'
  OBVIOUS
<1>1. StartLoop("write", LocalItems) /\ verify' = TRUE /\ Size' = LocalItems
      /\ holds' = [holds EXCEPT ![half] = "none"] /\ success' = TRUE /\ fn = "none"
      /\ UNCHANGED <<mem, half, xSZData>>
  BY DEF CallVerify, Size
<1>2. /\ fn' = "write" /\ Counted' /\ Passed(ptr)' /\ pos' \in 0..ByteLen
      /\ len' \in 0..(Size' * WordBytes) /\ items' \in 0..Size' /\ ptr' \in 0..Words
  BY <1>1, Started, Sizes
<1>3. TypeOK'
  BY <1>1, <1>2 DEF LoopInv, TypeOK, CallVerify
<1>4. \A h \in Halves : holds'[h] # "local" /\ (holds'[h] = "global" => holds[h] = "global")
  BY <1>1 DEF LoopInv, TypeOK, LocalOK
<1>5. WriteCovers' /\ LocalOK'
  BY <1>1, <1>4 DEF LoopInv, WriteCovers, LocalOK, Pattern, Index, Words
<1>6. holds'[half'] = "none"
  BY <1>1 DEF LoopInv, TypeOK
<1> QED
  BY <1>1, <1>2, <1>3, <1>5, <1>6 DEF LoopInv

LEMMA CallReadInv == LoopInv /\ CallRead => LoopInv'
<1> SUFFICES ASSUME LoopInv, CallRead PROVE LoopInv'
  OBVIOUS
<1>1. StartLoop("read", Items) /\ verify' = verify /\ ~verify /\ Size' = Items
      /\ success' = TRUE /\ half' \in Halves /\ fn = "none"
      /\ UNCHANGED <<mem, xSZData, szData, holds>>
  BY DEF CallRead, LoopInv, Size
<1>2. /\ fn' = "read" /\ Counted' /\ Passed(ptr)' /\ pos' \in 0..ByteLen
      /\ len' \in 0..(Size' * WordBytes) /\ items' \in 0..Size' /\ ptr' \in 0..Words
  BY <1>1, Started, Sizes
<1>3. TypeOK'
  BY <1>1, <1>2 DEF LoopInv, TypeOK
<1>4. WriteCovers' /\ LocalOK'
  BY <1>1 DEF LoopInv, WriteCovers, LocalOK, Pattern, Index, Words
<1> QED
  BY <1>1, <1>2, <1>3, <1>4 DEF LoopInv

\* The counts after a chunk.
LEMMA Advanced ==
  ASSUME Short, LoopInv, fn # "none", More, NextChunk,
         ptr' = ptr + ChunkItems, verify' = verify
  PROVE  /\ Counted' /\ pos' \in 0..ByteLen
         /\ len' \in 0..(Size' * WordBytes) /\ items' \in 0..Size' /\ ptr' \in 0..Words
<1> DEFINE c == ChunkItems
           p == ptr
<1>1. /\ p \in Nat /\ p < Words /\ c \in 1..Size /\ c \in Nat
      /\ p + c <= Words /\ (p + c < Words => c = Size)
      /\ len' = WordBytes * c /\ items' = c /\ ptr' = p + c
      /\ pos' = WordBytes * (p + c)
  BY Chunk, Sizes DEF NextChunk
<1>2. PICK k \in Nat : p = k * Size
  BY <1>1 DEF LoopInv, Counted
<1> HIDE DEF c, p
<1>3. /\ WordBytes * (p + c) \in Nat /\ WordBytes * c \in Nat
  BY <1>1, Sizes
<1>4. /\ WordBytes * (p + c) <= WordBytes * Words
      /\ WordBytes * c <= WordBytes * Size
  BY <1>1, MulOrder, Sizes
<1>5. p + c < Words => p + c = (k + 1) * Size
  BY <1>1, <1>2, Sizes
<1>6. Size' = Size
  BY DEF Size
<1>7. Counted'
  <2>1. pos' = WordBytes * ptr' /\ len' = WordBytes * items'
    BY <1>1
  <2>2. ptr' < Words => items' = Size' /\ \E j \in Nat : ptr' = j * Size'
    BY <1>1, <1>5, <1>6
  <2> QED
    BY <2>1, <2>2 DEF Counted, Words
<1> QED
  BY <1>1, <1>3, <1>4, <1>6, <1>7, Sizes, ConstantsAssumption

LEMMA WriteChunkInv == Short /\ LoopInv /\ WriteChunk => LoopInv'
<1> SUFFICES ASSUME Short, LoopInv, WriteChunk PROVE LoopInv'
  OBVIOUS
<1>1. /\ fn = "write" /\ More /\ Memcpy /\ NextChunk /\ ptr' = ptr + ChunkItems
      /\ UNCHANGED <<half, xSZData, szData, fn, verify, success, holds>> /\ fn # "none"
      /\ half \in Halves /\ Size' = Size /\ Vector' = Vector
  BY DEF WriteChunk, NextChunk, LoopInv, TypeOK, Size, Vector
<1>2. /\ Counted' /\ pos' \in 0..ByteLen
      /\ len' \in 0..(Size' * WordBytes) /\ items' \in 0..Size' /\ ptr' \in 0..Words
  BY <1>1, Advanced
<1>3. PICK m \in [Index -> Values] :
        /\ mem' = [mem EXCEPT ![half] = m]
        /\ \A w \in Index :
             /\ ~Copied(w) => m[w] = mem[half][w]
             /\ Copied(w) /\ w < ptr + Size => m[w] = Vector[w - ptr]
  BY <1>1 DEF Memcpy
<1>4. /\ mem' \in [Halves -> [Index -> Values]] /\ mem'[half] = m
      /\ \A h \in Halves : h # half => mem'[h] = mem[h]
  BY <1>1, <1>3 DEF LoopInv, TypeOK
<1>5. TypeOK'
  BY <1>1, <1>2, <1>4 DEF LoopInv, TypeOK
<1>6. ASSUME NEW w \in Index, w < ptr + ChunkItems
      PROVE  m[w] = Vector[w % Size]
  <2>1. w \in Nat /\ ptr \in Nat /\ ChunkItems \in 1..Size
        /\ Unsigned(ChunkLen) = WordBytes * ChunkItems
    BY <1>1, Chunk, Sizes DEF Index
  <2>2. CASE w < ptr
    <3>1. ~Copied(w)
      BY <2>1, <2>2 DEF Copied
    <3>2. m[w] = mem[half][w]
      BY <1>3, <3>1
    <3> QED
      BY <1>1, <2>2, <3>2 DEF LoopInv, Passed
  <2>3. CASE ptr <= w
    <3>1. w - ptr < Size /\ w - ptr < ChunkItems /\ w % Size = w - ptr
          /\ w - ptr \in Nat
      BY <1>1, <1>6, <2>1, <2>3, Phase
    <3>2. WordBytes * (w - ptr) < WordBytes * ChunkItems
      BY <2>1, <3>1, MulOrder, Sizes
    <3>3. Copied(w) /\ w < ptr + Size
      BY <2>1, <2>3, <3>1, <3>2, Sizes DEF Copied
    <3>4. m[w] = Vector[w - ptr]
      BY <1>3, <3>3
    <3> QED
      BY <3>1, <3>4
  <2> QED
    BY <2>1, <2>2, <2>3
<1>7. Passed(ptr)'
  BY <1>1, <1>4, <1>6 DEF Passed, Index, Words
<1>8. WriteCovers' /\ LocalOK'
  <2>1. holds[half] = "none" /\ WriteCovers /\ LocalOK
    BY <1>1 DEF LoopInv
  <2>2. \A h \in Halves : holds[h] # "none" => mem'[h] = mem[h]
    BY <1>4, <2>1
  <2> QED
    BY <1>1, <2>1, <2>2 DEF WriteCovers, LocalOK, Pattern, Index, Words
<1> QED
  BY <1>1, <1>2, <1>5, <1>7, <1>8 DEF LoopInv

\* When a write loop is over, the half holds the vector.
LEMMA Written ==
  ASSUME LoopInv, fn = "write", ~More
  PROVE  Pattern(half, Vector, Size) /\ success /\ half \in Halves
BY Over, AllPassed DEF LoopInv, TypeOK

LEMMA WriteTestDoneInv == LoopInv /\ WriteTestDone => LoopInv'
<1> SUFFICES ASSUME LoopInv, WriteTestDone PROVE LoopInv'
  OBVIOUS
<1>1. /\ fn = "write" /\ ~More /\ ~verify /\ Return
      /\ holds' = [holds EXCEPT ![half] = "global"]
      /\ UNCHANGED <<mem, half, xSZData, success>>
  BY DEF WriteTestDone
<1>2. Pattern(half, xSZData, Items)
  BY <1>1, Written DEF Vector, Size
<1>3. /\ fn' = "none" /\ verify' = FALSE /\ szData' \in Vectors(LocalItems)
      /\ pos' \in 0..ByteLen /\ len' \in 0..(Size' * WordBytes)
      /\ items' \in 0..Size' /\ ptr' \in 0..Words
  BY <1>1, Returned
<1>4. TypeOK'
  BY <1>1, <1>3 DEF LoopInv, TypeOK
<1>5. \A h \in Halves : holds'[h] # "local" /\ (h # half => holds'[h] = holds[h])
  BY <1>1 DEF LoopInv, TypeOK, LocalOK
<1>6. WriteCovers' /\ LocalOK'
  BY <1>1, <1>2, <1>5 DEF LoopInv, WriteCovers, LocalOK, Pattern, Index, Words
<1> QED
  BY <1>3, <1>4, <1>6 DEF LoopInv

LEMMA VerifyReadsInv == LoopInv /\ VerifyReads => LoopInv'
<1> SUFFICES ASSUME LoopInv, VerifyReads PROVE LoopInv'
  OBVIOUS
<1>1. /\ fn = "write" /\ ~More /\ verify /\ StartLoop("read", LocalItems)
      /\ holds' = [holds EXCEPT ![half] = "local"]
      /\ UNCHANGED <<mem, half, xSZData, szData, verify, success>>
      /\ Size' = LocalItems
  BY DEF VerifyReads, Size
<1>2. Pattern(half, szData, LocalItems) /\ success
  BY <1>1, Written DEF Vector, Size
<1>3. /\ fn' = "read" /\ Counted' /\ Passed(ptr)' /\ pos' \in 0..ByteLen
      /\ len' \in 0..(Size' * WordBytes) /\ items' \in 0..Size' /\ ptr' \in 0..Words
  BY <1>1, Started, Sizes
<1>4. TypeOK'
  BY <1>1, <1>3 DEF LoopInv, TypeOK
<1>5. \A h \in Halves : h # half => holds'[h] = holds[h]
  BY <1>1 DEF LoopInv, TypeOK
<1>6. holds'[half] = "local"
  BY <1>1 DEF LoopInv, TypeOK
<1>7. WriteCovers' /\ LocalOK'
  BY <1>1, <1>2, <1>3, <1>5, <1>6 DEF LoopInv, WriteCovers, LocalOK, Pattern, Index, Words
<1> QED
  BY <1>1, <1>2, <1>3, <1>4, <1>7 DEF LoopInv

\* A chunk compares equal exactly when its words hold the pattern.
LEMMA MatchesPattern ==
  ASSUME Short, LoopInv, fn # "none", More
  PROVE  Matches <=> \A w \in Index :
           ptr <= w /\ w < ptr + ChunkItems => mem[half][w] = Vector[w % Size]
<1>1. /\ ptr \in Nat /\ ptr < Words /\ ChunkItems \in 1..Size
      /\ ptr + ChunkItems <= Words
  BY Chunk
<1>2. ASSUME Matches, NEW w \in Index, ptr <= w, w < ptr + ChunkItems
      PROVE  mem[half][w] = Vector[w % Size]
  <2>1. w - ptr \in 0..(ChunkItems - 1) /\ w % Size = w - ptr
    BY <1>2, Phase
  <2>2. mem[half][ptr + (w - ptr)] = Vector[w - ptr]
    BY <1>2, <2>1 DEF Matches
  <2>3. ptr + (w - ptr) = w
    BY <1>1, <1>2, Sizes DEF Index
  <2> QED
    BY <2>1, <2>2, <2>3
<1>3. ASSUME \A w \in Index :
               ptr <= w /\ w < ptr + ChunkItems => mem[half][w] = Vector[w % Size],
             NEW i \in 0..(ChunkItems - 1)
      PROVE  mem[half][ptr + i] = Vector[i]
  <2>1. ptr + i \in Index /\ ptr <= ptr + i /\ ptr + i < ptr + ChunkItems
    BY <1>1, Sizes DEF Index
  <2>2. (ptr + i) % Size = (ptr + i) - ptr
    BY <2>1, Phase
  <2>3. (ptr + i) - ptr = i
    BY <1>1
  <2> QED
    BY <1>3, <2>1, <2>2, <2>3
<1> QED
  BY <1>2, <1>3 DEF Matches

LEMMA ReadChunkInv == Short /\ LoopInv /\ ReadChunk => LoopInv'
<1> SUFFICES ASSUME Short, LoopInv, ReadChunk PROVE LoopInv'
  OBVIOUS
<1>1. /\ fn = "read" /\ success /\ More /\ success' = Matches /\ NextChunk
      /\ UNCHANGED <<mem, half, xSZData, szData, fn, verify, holds>> /\ fn # "none"
      /\ Size' = Size /\ Vector' = Vector /\ Mine' = Mine /\ half \in Halves
  BY DEF ReadChunk, LoopInv, TypeOK, Size, Vector, Mine
<1>2. ptr' = ptr + ChunkItems /\ ptr \in Nat /\ ChunkItems \in 1..Size
  BY <1>1, Chunk, Sizes DEF ReadChunk, NextChunk
<1>3. /\ Counted' /\ pos' \in 0..ByteLen
      /\ len' \in 0..(Size' * WordBytes) /\ items' \in 0..Size' /\ ptr' \in 0..Words
  BY <1>1, <1>2, Advanced
<1>4. success' \in BOOLEAN
  BY <1>1 DEF Matches
<1>5. TypeOK'
  BY <1>1, <1>3, <1>4 DEF LoopInv, TypeOK
<1>6. success' => Passed(ptr)'
  <2> SUFFICES ASSUME success', NEW w \in Index, w < ptr + ChunkItems
               PROVE  mem[half][w] = Vector[w % Size]
    BY <1>1, <1>2 DEF Passed, Index, Words
  <2>1. CASE w < ptr
    BY <1>1, <2>1 DEF LoopInv, Passed
  <2>2. CASE ptr <= w
    BY <1>1, <2>2, MatchesPattern
  <2> QED
    BY <1>2, <2>1, <2>2, Sizes DEF Index
<1>7. holds[half] = Mine => success'
  <2> SUFFICES ASSUME holds[half] = Mine PROVE Matches
    BY <1>1
  <2>1. Pattern(half, Vector, Size)
    BY <1>1 DEF LoopInv, WriteCovers, Mine, Vector, Size
  <2> QED
    BY <1>1, <2>1, MatchesPattern DEF Pattern
<1>8. WriteCovers' /\ LocalOK'
  BY <1>1 DEF LoopInv, WriteCovers, LocalOK, Pattern, Index, Words
<1> QED
  BY <1>1, <1>3, <1>5, <1>6, <1>7, <1>8 DEF LoopInv

LEMMA ReadDoneInv == LoopInv /\ ReadDone => LoopInv'
<1> SUFFICES ASSUME LoopInv, ReadDone PROVE LoopInv'
  OBVIOUS
<1>1. /\ fn = "read" /\ Return
      /\ holds' = [holds EXCEPT ![half] = IF verify THEN "none" ELSE @]
      /\ UNCHANGED <<mem, half, xSZData, success>> /\ half \in Halves
  BY DEF ReadDone, LoopInv, TypeOK
<1>2. /\ fn' = "none" /\ verify' = FALSE /\ szData' \in Vectors(LocalItems)
      /\ pos' \in 0..ByteLen /\ len' \in 0..(Size' * WordBytes)
      /\ items' \in 0..Size' /\ ptr' \in 0..Words
  BY <1>1, Returned
<1>3. TypeOK'
  BY <1>1, <1>2 DEF LoopInv, TypeOK
<1>4. \A h \in Halves : holds'[h] # "local" /\ (holds'[h] = "global" => holds[h] = "global")
  <2>1. CASE verify
    <3>1. holds' = [holds EXCEPT ![half] = "none"]
      BY <1>1, <2>1
    <3>2. \A h \in Halves : holds[h] = "local" => h = half
      BY <1>1, <2>1 DEF LoopInv, LocalOK
    <3> QED
      BY <1>1, <3>1, <3>2 DEF LoopInv, TypeOK
  <2>2. CASE ~verify
    <3>1. \A h \in Halves : holds[h] # "local"
      BY <2>2 DEF LoopInv, LocalOK
    <3>2. holds' = holds
      BY <1>1, <2>2 DEF LoopInv, TypeOK
    <3> QED
      BY <3>1, <3>2
  <2> QED
    BY <2>1, <2>2
<1>5. WriteCovers' /\ LocalOK'
  BY <1>1, <1>4 DEF LoopInv, WriteCovers, LocalOK, Pattern, Index, Words
<1> QED
  BY <1>2, <1>3, <1>5 DEF LoopInv

LEMMA DecayInv == LoopInv /\ Decay => LoopInv'
<1> SUFFICES ASSUME LoopInv, Decay PROVE LoopInv'
  OBVIOUS
<1>1. /\ fn = "none" \/ (fn = "read" /\ pos = 0)
      /\ fn # "write"
      /\ UNCHANGED <<half, xSZData, fn, locals, success>>
      /\ Size' = Size /\ Vector' = Vector /\ Mine' = Mine
  BY DEF Decay, locals, Size, Vector, Mine
<1>2. PICK h \in Halves, w \in Index, v \in Values :
        /\ mem' = [mem EXCEPT ![h][w] = v]
        /\ holds' = [holds EXCEPT ![h] = "none"]
  BY DEF Decay
<1>3. /\ mem' \in [Halves -> [Index -> Values]]
      /\ holds' \in [Halves -> {"global", "local", "none"}]
      /\ \A g \in Halves : holds'[g] # "none" => holds'[g] = holds[g] /\ mem'[g] = mem[g]
  BY <1>2 DEF LoopInv, TypeOK
<1>4. TypeOK'
  BY <1>1, <1>3 DEF LoopInv, TypeOK, locals
<1>5. fn' # "none" => Counted'
  BY <1>1 DEF LoopInv, Counted, locals
<1>6. fn = "read" => Passed(ptr)'
  <2> SUFFICES ASSUME fn = "read" PROVE Passed(ptr)'
    OBVIOUS
  <2>1. pos = 0 /\ pos = WordBytes * ptr /\ ptr \in Nat
    BY <1>1, Sizes DEF LoopInv, TypeOK, Counted
  <2>2. ptr' = 0
    BY <1>1, <2>1, Sizes DEF locals
  <2> QED
    BY <2>2, Sizes DEF Passed, Index
<1>7. WriteCovers' /\ LocalOK'
  BY <1>1, <1>3 DEF LoopInv, WriteCovers, LocalOK, Pattern, Index, Words, locals
<1>8. holds'[half] = Mine => holds[half] = Mine
  BY <1>1, <1>3 DEF LoopInv, TypeOK, Mine
<1>9. (fn' = "read" /\ holds'[half'] = Mine') => success'
  BY <1>1, <1>8 DEF LoopInv
<1> QED
  BY <1>1, <1>4, <1>5, <1>6, <1>7, <1>9 DEF LoopInv, locals

LEMMA StutterInv == LoopInv /\ UNCHANGED vars => LoopInv'
<1> SUFFICES ASSUME LoopInv, UNCHANGED vars PROVE LoopInv'
  OBVIOUS
<1>1. UNCHANGED <<mem, half, xSZData, szData, fn, verify, pos, len, items, ptr,
                  success, holds>>
  BY DEF vars, locals
<1>2. TypeOK'
  BY <1>1 DEF LoopInv, TypeOK, Size
<1> QED
  BY <1>1, <1>2 DEF LoopInv, Counted, Passed, Size, Vector, Mine, WriteCovers, LocalOK,
         Pattern, Index, Words

LEMMA NextInv == Short /\ LoopInv /\ [Next]_vars => LoopInv'
BY CallWriteInv, CallVerifyInv, CallReadInv, WriteChunkInv, WriteTestDoneInv,
   VerifyReadsInv, ReadChunkInv, ReadDoneInv, DecayInv, StutterInv DEF Next, Step

LEMMA Invariance ==
  ASSUME Short
  PROVE  Spec => []LoopInv
<1>1. LoopInv /\ [Next]_vars => LoopInv'
  BY NextInv
<1> QED
  BY <1>1, InitInv, PTL DEF Spec
-----------------------------------------------------------------------------
(* The theorems.                                                           *)

\* The counts of the two loops keep within the memory and the vector: no
\* conversion between int and unsigned changes a number (ddr3.c:506-514,
\* 621-640; mem_test.c:74-85, 103-121).
THEOREM LoopsTypeCorrect ==
  ASSUME Short
  PROVE  Spec => []TypeOK
<1>1. LoopInv => TypeOK
  BY DEF LoopInv
<1> QED
  BY <1>1, Invariance, PTL

\* The write loop fills the whole memory with the repeated vector (ddr3.c:506-522).
THEOREM WriteCoversMemory ==
  ASSUME Short
  PROVE  Spec => []WriteCovers
<1>1. LoopInv => WriteCovers
  BY DEF LoopInv
<1> QED
  BY <1>1, Invariance, PTL

\* No chunk ends behind the memory (ddr3.c:507-512).
THEOREM WriteStaysInside ==
  ASSUME Short
  PROVE  Spec => []StaysInside
<1>1. LoopInv => StaysInside
  <2> SUFFICES ASSUME LoopInv, fn = "write", More
               PROVE  WordBytes * ptr + Unsigned(ChunkLen) <= ByteLen
    BY DEF StaysInside
  <2> DEFINE c == ChunkItems
  <2>1. /\ fn # "none" /\ ptr \in Nat /\ c \in 1..Size /\ ptr + c <= Words
        /\ Unsigned(ChunkLen) = WordBytes * c
    BY Chunk
  <2> HIDE DEF c
  <2>2. /\ WordBytes * ptr + WordBytes * c = WordBytes * (ptr + c)
        /\ WordBytes * (ptr + c) <= WordBytes * Words
    BY <2>1, MulOrder, Sizes
  <2> QED
    BY <2>1, <2>2, Sizes
<1> QED
  BY <1>1, Invariance, PTL

\* A good memory passes TMEM_Verify, and the read test of a half unless the
\* half has been written since the last write test, or that was of another
\* half (ddr3.c:483-488, 624-648; mem_test.c:107-127).
THEOREM NoGoodMemoryFails ==
  ASSUME Short
  PROVE  Spec => []NoFalseAlarm
<1>1. LoopInv => NoFalseAlarm
  BY DEF LoopInv, NoFalseAlarm, Mine
<1> QED
  BY <1>1, Invariance, PTL

\* TRUE means that the whole half has been compared (ddr3.c:671).
THEOREM TrueIsVerified ==
  ASSUME Short
  PROVE  Spec => TrueMeansVerified
<1>1. LoopInv /\ [Next]_vars =>
        [(fn = "read" /\ fn' = "none" /\ success) => Pattern(half, Vector, Size)]_vars
  <2> SUFFICES ASSUME LoopInv, Next, fn = "read", fn' = "none", success
               PROVE  Pattern(half, Vector, Size)
    BY DEF vars, locals
  <2>1. ReadDone
    BY DEF Next, Step, CallWrite, CallVerify, CallRead, WriteChunk, WriteTestDone,
           VerifyReads, ReadChunk, Decay
  <2>2. ~More /\ Passed(ptr) /\ fn # "none"
    BY <2>1 DEF ReadDone, LoopInv
  <2> QED
    BY <2>2, Over, AllPassed
<1> QED
  BY <1>1, Invariance, PTL DEF Spec, TrueMeansVerified
=============================================================================
