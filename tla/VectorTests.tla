---------------------------- MODULE VectorTests ----------------------------
(***************************************************************************)
(* The memory tests that copy a vector over the memory, chunk by chunk,    *)
(* and compare it back: bDdr3MemoryWriteTest and bDdr3MemoryReadTest       *)
(* (ddr3.c:432, 561) and TMEM_Verify (mem_test.c:39).  They count bytes in *)
(* an int and compare it with an unsigned length, which is why integers    *)
(* have a width here.                                                      *)
(*                                                                         *)
(* The write test leaves its vector in a global variable, where a read     *)
(* test finds it later, for either half of the memory; TMEM_Verify has a   *)
(* vector of its own, of another length, and tests the half that is in the *)
(* window.                                                                 *)
(***************************************************************************)
EXTENDS Integers

CONSTANTS
  Halves,      \* the halves of the memory
  Limit,       \* an int is in -Limit..Limit-1 and an alt_u32 below 2 * Limit
  WordBytes,   \* sizeof(TMyData)
  Items,       \* words in xSZData: 256
  LocalItems,  \* words in szData: 257
  ByteLen,     \* bytes of a half
  Values,      \* what a word may be
  Zero         \* the words of xSZData before the first test

Words == ByteLen \div WordBytes
Index == 0..(Words - 1)
Vectors(n) == [0..(n - 1) -> Values]

ASSUME ConstantsAssumption ==
  /\ Limit \in Nat /\ WordBytes \in Nat \ {0}
  /\ Items \in Nat \ {0} /\ LocalItems \in Nat \ {0}
  /\ ByteLen \in Nat \ {0} /\ ByteLen % WordBytes = 0 /\ ByteLen < 2 * Limit
  /\ Items * WordBytes < Limit /\ LocalItems * WordBytes < Limit
  /\ Zero \in Values

VARIABLES
  mem,      \* the memory
  half,     \* the half in the window
  xSZData,  \* the global vector
  szData,   \* TMEM_Verify's
  fn,       \* the loop in progress: "write", "read" or "none"
  verify,   \* it is one of TMEM_Verify's, whose read loop follows its write loop
  pos,      \* iNPos
  len,      \* iNAccessLen
  items,    \* iNItemNum
  ptr,      \* pxDes or pxSrc, in words from the start of the half
  success,  \* bSuccess or bPass
  holds     \* history: which vector each half holds, "global", "local" or "none"

locals == <<verify, szData, pos, len, items, ptr>>
vars == <<mem, half, xSZData, fn, locals, success, holds>>

\* The vector of the test in progress.
Vector == IF verify THEN szData ELSE xSZData
Size == IF verify THEN LocalItems ELSE Items

NoVector == [i \in 0..(LocalItems - 1) |-> Zero]

\* Conversions and division of C.
Unsigned(n) == n % (2 * Limit)
Signed(n) ==
  IF Unsigned(n) < Limit THEN Unsigned(n) ELSE Unsigned(n) - 2 * Limit
Quotient(n) == IF n >= 0 THEN n \div WordBytes ELSE -((-n) \div WordBytes)
-----------------------------------------------------------------------------
Init ==
  /\ mem \in [Halves -> [Index -> Values]] /\ half \in Halves
  /\ xSZData = [i \in 0..(Items - 1) |-> Zero] /\ szData = NoVector
  /\ fn = "none" /\ verify = FALSE
  /\ pos = 0 /\ len = 0 /\ items = 0 /\ ptr = 0
  /\ success = FALSE /\ holds = [h \in Halves |-> "none"]

StartLoop(f, n) ==
  /\ fn' = f /\ pos' = 0 /\ len' = n * WordBytes /\ items' = n /\ ptr' = 0

\* bDdr3MemoryWriteTest, whose new vector comes from the clock: what another
\* half still holds is no longer the vector.
CallWrite ==
  /\ fn = "none" /\ StartLoop("write", Items)
  /\ half' \in Halves /\ xSZData' \in Vectors(Items)
  /\ success' = TRUE /\ holds' = [h \in Halves |-> "none"]
  /\ UNCHANGED <<mem, szData, verify>>

\* Mutant: the vector is the global one.
CallVerify_Global ==
  /\ fn = "none" /\ StartLoop("write", Items)
  /\ xSZData' \in Vectors(Items)
  /\ success' = TRUE /\ holds' = [holds EXCEPT ![half] = "none"]
  /\ UNCHANGED <<mem, half, szData, verify>>

\* TMEM_Verify
CallVerify ==
  /\ fn = "none" /\ StartLoop("write", LocalItems)
  /\ verify' = TRUE /\ szData' \in Vectors(LocalItems)
  /\ success' = TRUE /\ holds' = [holds EXCEPT ![half] = "none"]
  /\ UNCHANGED <<mem, half, xSZData>>

\* bDdr3MemoryReadTest
CallRead ==
  /\ fn = "none" /\ StartLoop("read", Items)
  /\ half' \in Halves /\ success' = TRUE
  /\ UNCHANGED <<mem, xSZData, szData, verify, holds>>

\* Mutant: one comparison too many.
More_AtEnd == Unsigned(pos) <= ByteLen

More == Unsigned(pos) < ByteLen

\* Mutant: the last chunk is as long as the others.
ChunkLen_NotCut == len

\* The length of the next chunk.
ChunkLen ==
  LET remained == Signed(ByteLen - Unsigned(pos))
  IN  IF len > remained THEN remained ELSE len

ChunkItems == IF ChunkLen = len THEN items ELSE Quotient(ChunkLen)

NextChunk ==
  /\ len' = ChunkLen /\ items' = ChunkItems /\ pos' = Signed(pos + len')

\* memcpy, whose length is unsigned.  Past the end of the vector it copies
\* whatever is there.
Copied(w) ==
  w >= ptr /\ WordBytes * (w - ptr) < Unsigned(ChunkLen)

\* Mutant: the source is not the start of the vector in every chunk.
Memcpy_RunsOn ==
  \E m \in [Index -> Values] :
    /\ mem' = [mem EXCEPT ![half] = m]
    /\ \A w \in Index :
         /\ ~Copied(w) => m[w] = mem[half][w]
         /\ Copied(w) /\ w < Size => m[w] = Vector[w]

Memcpy ==
  \E m \in [Index -> Values] :
    /\ mem' = [mem EXCEPT ![half] = m]
    /\ \A w \in Index :
         /\ ~Copied(w) => m[w] = mem[half][w]
         /\ Copied(w) /\ w < ptr + Size => m[w] = Vector[w - ptr]

WriteChunk ==
  /\ fn = "write" /\ More /\ Memcpy /\ NextChunk /\ ptr' = ptr + items'
  /\ UNCHANGED <<half, xSZData, szData, fn, verify, success, holds>>

\* The call returns, and its locals are gone.
Return ==
  /\ fn' = "none" /\ verify' = FALSE /\ szData' = NoVector
  /\ pos' = 0 /\ len' = 0 /\ items' = 0 /\ ptr' = 0

WriteTestDone ==
  /\ fn = "write" /\ ~More /\ ~verify /\ Return
  /\ holds' = [holds EXCEPT ![half] = "global"]
  /\ UNCHANGED <<mem, half, xSZData, success>>

\* TMEM_Verify goes on to read.
VerifyReads ==
  /\ fn = "write" /\ ~More /\ verify /\ StartLoop("read", LocalItems)
  /\ holds' = [holds EXCEPT ![half] = "local"]
  /\ UNCHANGED <<mem, half, xSZData, szData, verify, success>>

\* Mutant: the first word of a chunk is not compared.
Matches_NotFirst ==
  \A i \in 1..(ChunkItems - 1) : mem[half][ptr + i] = Vector[i]

Matches == \A i \in 0..(ChunkItems - 1) : mem[half][ptr + i] = Vector[i]

ReadChunk ==
  /\ fn = "read" /\ success /\ More
  /\ success' = Matches /\ NextChunk
  /\ ptr' = IF items' > 0 THEN ptr + items' ELSE ptr
  /\ UNCHANGED <<mem, half, xSZData, szData, fn, verify, holds>>

ReadDone ==
  /\ fn = "read" /\ ~(success /\ More) /\ Return
  /\ holds' = [holds EXCEPT ![half] = IF verify THEN "none" ELSE @]
  /\ UNCHANGED <<mem, half, xSZData, success>>

\* A word of the memory changes, between writing and reading.
Decay ==
  /\ fn = "none" \/ (fn = "read" /\ pos = 0)
  /\ \E h \in Halves, w \in Index, v \in Values :
       /\ v # mem[h][w] /\ mem' = [mem EXCEPT ![h][w] = v]
       /\ holds' = [holds EXCEPT ![h] = "none"]
  /\ UNCHANGED <<half, xSZData, fn, locals, success>>

Step == WriteChunk \/ WriteTestDone \/ VerifyReads \/ ReadChunk \/ ReadDone
Next == CallWrite \/ CallVerify \/ CallRead \/ Step \/ Decay

Spec == Init /\ [][Next]_vars /\ WF_vars(Step)
-----------------------------------------------------------------------------
(* Properties. *)

TypeOK ==
  /\ mem \in [Halves -> [Index -> Values]] /\ half \in Halves
  /\ xSZData \in Vectors(Items) /\ szData \in Vectors(LocalItems)
  /\ fn \in {"none", "write", "read"} /\ verify \in BOOLEAN
  /\ pos \in 0..ByteLen /\ len \in 0..(Size * WordBytes) /\ items \in 0..Size
  /\ ptr \in 0..Words /\ success \in BOOLEAN
  /\ holds \in [Halves -> {"global", "local", "none"}]

\* A half is filled with a vector of n words, repeated.
Pattern(h, v, n) == \A w \in Index : mem[h][w] = v[w % n]

\* A write loop leaves its vector, repeated, in the whole half, also where
\* its length does not divide the half's; and there it stays until one of the
\* three tests writes to the half, or a write test takes a new vector
\* (ddr3.c:483-522, mem_test.c:74-90).
WriteCovers ==
  \A h \in Halves :
    /\ holds[h] = "global" => Pattern(h, xSZData, Items)
    /\ holds[h] = "local" => Pattern(h, szData, LocalItems)

\* ... and writes nothing behind it.
StaysInside ==
  (fn = "write" /\ More) => WordBytes * ptr + Unsigned(ChunkLen) <= ByteLen

\* A test that reads and returns TRUE has found the whole pattern:
\* "Teste ... baseados em um vetor de dados aleatorios", "@retval TRUE :
\* Sucesso" (ddr3.c:554-558).
TrueMeansVerified ==
  [][(fn = "read" /\ fn' = "none" /\ success) => Pattern(half, Vector, Size)]_vars

\* A memory that keeps what is written passes TMEM_Verify; and it passes the
\* read test of a half if the last write test was of that half, and
\* TMEM_Verify has not written there since.  After a write test of the other
\* half, or TMEM_Verify, a good memory fails (ddr3.c:483-488, 631-648).
NoFalseAlarm ==
  (fn = "read" /\ holds[half] = (IF verify THEN "local" ELSE "global")) => success

\* Both loops end.
TestsEnd == fn # "none" ~> fn = "none"
=============================================================================
