--------------------------- MODULE Argon2HashProofs ---------------------------
(***************************************************************************)
(* What module Argon2Hash promises of a call, proved for every word size,  *)
(* every set of limits and calls, and wherever allocations may fail; and   *)
(* first that a context validate_inputs accepts has a memory of the shape  *)
(* fill_memory_blocks relies on, though the products are computed modulo   *)
(* 2^32 and the lanes are checked after a product with them was compared.  *)
(* Last, what the bridge to Dart returns of it.                            *)
(***************************************************************************)
EXTENDS Argon2Hash, TLAPS

----------------------------------------------------------------------------
(* The validated context.                                                  *)

\* The facts a validated context gives, one per check.
LEMMA Validated ==
    ASSUME NEW c \in Context, validate_inputs(c) = "OK"
    PROVE  /\ c.t_cost >= 1
           /\ c.lanes \in 1 .. MAX_LANES
           /\ c.threads >= 1
           /\ c.m_cost <= MAX_MEMORY
           /\ c.m_cost >= (8 * c.lanes) % Word
PROOF
<1>1. /\ MemoryCheck(c) = "OK" /\ TimeCheck(c) = "OK" /\ LanesCheck(c) = "OK"
      /\ ThreadsCheck(c) = "OK"
      BY DEF validate_inputs, ++
<1>2. c.t_cost >= 1
      BY <1>1 DEF TimeCheck, Between, When, ++, MIN_TIME, Context, Uint32
<1>3. c.lanes \in 1 .. MAX_LANES
      BY <1>1, LimitAssumption DEF LanesCheck, Between, When, ++, MIN_LANES, Context, Uint32
<1>4. c.threads >= 1
      BY <1>1 DEF ThreadsCheck, Between, When, ++, MIN_THREADS, Context, Uint32
<1>5. c.m_cost <= MAX_MEMORY /\ c.m_cost >= (8 * c.lanes) % Word
      BY <1>1, LimitAssumption DEF MemoryCheck, Between, When, ++, Context, Uint32
<1> QED BY <1>2, <1>3, <1>4, <1>5

\* A number below the modulus is its own remainder.
LEMMA Small == ASSUME NEW n \in Nat, NEW m \in Nat, n < m PROVE n % m = n
OBVIOUS

\* A product grows with its factor.
LEMMA Monotone ==
    ASSUME NEW a \in Nat, NEW b \in Nat, NEW k \in Nat, a <= b
    PROVE  a * k \in Nat /\ a * k <= b * k
PROOF
<1>1. b - a \in Nat /\ b = a + (b - a)
      OBVIOUS
<1>2. PICK d \in Nat : b = a + d
      BY <1>1
<1>3. b * k = (a * k) + (d * k) /\ a * k \in Nat /\ d * k \in Nat
      BY <1>2
<1> QED BY <1>3

\* Division by the blocks of one slice of all lanes.
LEMMA SegmentBounds ==
    ASSUME NEW m \in Nat, NEW slice \in Nat \ {0}, m >= 2 * slice
    PROVE  LET q == m \div slice
           IN  q \in Nat /\ q >= 2 /\ q * slice <= m /\ m < (q * slice) + slice
PROOF
<1> DEFINE q == m \div slice
<1>1. q \in Nat /\ m % slice \in 0 .. slice - 1 /\ m = (slice * q) + (m % slice)
      OBVIOUS
<1>2. q * slice = slice * q
      BY <1>1
<1>3. q >= 2
      <2>1. SUFFICES ASSUME q = 0 \/ q = 1 PROVE FALSE
            BY <1>1
      <2>2. slice * q <= slice
            BY <2>1
      <2> QED BY <2>2, <1>1
<1> QED BY <1>1, <1>2, <1>3

\* The check of allocate_memory fails only if the product does not fit.
LEMMA Fits ==
    ASSUME NEW num \in Nat, NEW size \in Nat \ {0}, num * size < SizeWord
    PROVE  ~Overflows(num, size)
PROOF
<1>1. SizeWord \in Nat /\ num * size \in Nat
      BY LimitAssumption
<1>2. (num * size) % SizeWord = num * size
      BY <1>1, Small
<1>3. (num * size) \div size = num
      <2>1. PICK n \in Nat : n = num * size
            BY <1>1
      <2>2. n = (size * num) + 0
            BY <2>1
      <2>3. n \div size = num
            BY <2>2
      <2> QED BY <2>1, <2>3
<1> QED BY <1>2, <1>3 DEF Overflows

\* argon2_ctx: the layout of a validated context is the one fill_memory_blocks
\* needs (Argon2Fill's SizeAssumption), and the memory is never a product that
\* wrapped.
THEOREM ValidatedLayout ==
    ASSUME NEW c \in Context, NEW type \in Type, validate_inputs(c) = "OK"
    PROVE  Sound(Instance(c, type), c.m_cost)
PROOF
<1>1. PICK lanes \in 1 .. MAX_LANES, m \in Nat, threads \in Nat, passes \in Nat :
         /\ lanes = c.lanes /\ m = c.m_cost /\ threads = c.threads /\ passes = c.t_cost
         /\ passes >= 1 /\ threads >= 1 /\ m <= MAX_MEMORY /\ m >= (8 * lanes) % Word
      BY Validated, LimitAssumption DEF Context, Uint32
<1>2. /\ Word \in Nat /\ MAX_LANES \in Nat /\ MAX_MEMORY \in Nat /\ 8 * MAX_LANES < Word
      /\ MAX_MEMORY < Word /\ BLOCK_SIZE \in Nat \ {0} /\ SizeWord \in Nat
      /\ MAX_MEMORY * BLOCK_SIZE < SizeWord
      BY LimitAssumption DEF SYNC_POINTS
<1>3. 8 * lanes \in Nat /\ 8 * lanes < Word /\ lanes * 4 \in Nat \ {0} /\ lanes * 4 < Word
      BY <1>2
<1>4. (8 * lanes) % Word = 8 * lanes /\ (lanes * 4) % Word = lanes * 4
      BY <1>2, <1>3, Small
<1>5. m >= 8 * lanes
      BY <1>1, <1>4
<1>6. SegmentLength(c) = m \div (lanes * 4)
      <2>1. (2 * SYNC_POINTS * c.lanes) % Word = 8 * lanes
            <3>1. 2 * SYNC_POINTS * c.lanes = 8 * lanes
                  BY <1>1 DEF SYNC_POINTS
            <3> QED BY <3>1, <1>4
      <2>2. (c.lanes * SYNC_POINTS) % Word = lanes * 4
            BY <1>1, <1>4 DEF SYNC_POINTS
      <2>3. ~(c.m_cost < 8 * lanes)
            BY <1>1, <1>5
      <2> QED BY <2>1, <2>2, <2>3, <1>1 DEF SegmentLength
<1>7. PICK q \in Nat, all \in Nat :
         /\ q = m \div (lanes * 4) /\ all = q * (lanes * 4)
         /\ q >= 2 /\ all <= m /\ m < all + (lanes * 4)
      <2>1. m >= 2 * (lanes * 4)
            BY <1>5
      <2>2. PICK slice \in Nat \ {0} : slice = lanes * 4
            BY <1>3
      <2>3. /\ m \div slice \in Nat /\ m \div slice >= 2 /\ (m \div slice) * slice <= m
            /\ m < ((m \div slice) * slice) + slice
            BY <2>1, <2>2, SegmentBounds
      <2>4. (m \div slice) * slice \in Nat
            BY <2>3
      <2> QED BY <2>2, <2>3, <2>4
<1>8. all = lanes * (4 * q) /\ 4 * q <= all
      <2>1. all = lanes * (4 * q)
            BY <1>7
      <2>2. 4 * q \in Nat /\ lanes \in Nat /\ lanes >= 1
            BY <1>2, <1>7
      <2>3. lanes * (4 * q) >= 4 * q
            <3>1. PICK k \in Nat : lanes = k + 1
                  BY <2>2
            <3>2. (k + 1) * (4 * q) = (k * (4 * q)) + (4 * q) /\ k * (4 * q) \in Nat
                  BY <2>2
            <3> QED BY <3>1, <3>2, <2>2
      <2> QED BY <2>1, <2>3
<1>9. all < Word /\ 4 * q < Word /\ 4 * q \in Nat
      BY <1>1, <1>2, <1>7, <1>8
<1>10. all % Word = all /\ (q * 4) % Word = 4 * q
      <2>1. q * 4 = 4 * q
            BY <1>7
      <2> QED BY <2>1, <1>2, <1>9, Small
<1> DEFINE i == Instance(c, type)
<1>11. /\ i.lanes = lanes /\ i.passes = passes /\ i.segment_length = q
       /\ i.lane_length = 4 * q /\ i.memory_blocks = all
       /\ i.threads = IF threads > lanes THEN lanes ELSE threads
      <2>1. (c.lanes * SYNC_POINTS) % Word = lanes * 4
            BY <1>1, <1>4 DEF SYNC_POINTS
      <2>2. (SegmentLength(c) * ((c.lanes * SYNC_POINTS) % Word)) % Word = all
            BY <2>1, <1>6, <1>7, <1>10
      <2>3. (SegmentLength(c) * SYNC_POINTS) % Word = 4 * q
            BY <1>6, <1>7, <1>10 DEF SYNC_POINTS
      <2> QED BY <2>2, <2>3, <1>1, <1>6, <1>7 DEF Instance
<1>12. ~Overflows(all, BLOCK_SIZE)
      <2>1. all * BLOCK_SIZE < SizeWord
            <3>1. all \in Nat /\ all <= MAX_MEMORY
                  BY <1>1, <1>2, <1>7
            <3>2. all * BLOCK_SIZE \in Nat /\ all * BLOCK_SIZE <= MAX_MEMORY * BLOCK_SIZE
                  BY <3>1, <1>2, Monotone
            <3>3. MAX_MEMORY * BLOCK_SIZE \in Nat
                  BY <1>2
            <3> QED BY <3>2, <3>3, <1>2
      <2> QED BY <2>1, <1>2, Fits
<1>13. i.threads \in 1 .. i.lanes
      BY <1>1, <1>2, <1>11
<1> HIDE DEF i
<1>14. Sound(i, m)
      BY <1>1, <1>2, <1>7, <1>8, <1>11, <1>12, <1>13 DEF Sound, SYNC_POINTS
<1> QED BY <1>1, <1>14 DEF i

----------------------------------------------------------------------------
(* The heap.                                                               *)

IsHeap(h) ==
    /\ h = [cell \in Cell |-> h[cell]]
    /\ \A cell \in Cell : h[cell] = [status |-> h[cell].status, content |-> h[cell].content]

\* Writing a block that is there changes its content and no other block.
LEMMA PutFacts ==
    ASSUME NEW h, IsHeap(h), NEW cell \in Cell, NEW x
    PROVE  /\ IsHeap(Put(h, cell, x))
           /\ \A d \in Cell : d # cell => Put(h, cell, x)[d] = h[d]
           /\ h[cell].status \in {"live", "callers"} =>
                  Put(h, cell, x)[cell] = [status |-> h[cell].status, content |-> x]
  BY DEF IsHeap, Put

\* Clearing does the same, and leaves a null pointer alone.
LEMMA ClearFacts ==
    ASSUME NEW h, IsHeap(h), NEW cell \in Cell
    PROVE  /\ IsHeap(clear_internal_memory(h, cell))
           /\ \A d \in Cell : d # cell => clear_internal_memory(h, cell)[d] = h[d]
           /\ h[cell].status = "null" => clear_internal_memory(h, cell)[cell] = h[cell]
           /\ h[cell].status \in {"live", "callers"} =>
                  clear_internal_memory(h, cell)[cell] = [status |-> h[cell].status, content |-> Zero]
  BY PutFacts DEF clear_internal_memory

\* Freeing changes the status of an allocated block alone.
LEMMA FreeFacts ==
    ASSUME NEW h, IsHeap(h), NEW cell \in Cell
    PROVE  /\ IsHeap(Free(h, cell))
           /\ \A d \in Cell : d # cell => Free(h, cell)[d] = h[d]
           /\ h[cell].status = "null" => Free(h, cell)[cell] = h[cell]
           /\ h[cell].status = "live" =>
                  Free(h, cell)[cell] = [status |-> "freed", content |-> h[cell].content]
  BY DEF IsHeap, Free

LEMMA ReleaseFacts ==
    ASSUME NEW h, IsHeap(h), NEW cell \in Cell, h[cell].status \in {"null", "live"}
    PROVE  /\ IsHeap(Free(h, cell))
           /\ Free(h, cell)[cell].status \in {"null", "freed"}
           /\ Free(h, cell)[cell].content = h[cell].content
           /\ \A d \in Cell : d # cell => Free(h, cell)[d] = h[d]
<1>1. CASE h[cell].status = "null"
  BY <1>1, FreeFacts
<1>2. CASE h[cell].status = "live"
  <2>1. Free(h, cell)[cell] = [status |-> "freed", content |-> h[cell].content]
    BY <1>2, FreeFacts
  <2>. QED
    BY <2>1, FreeFacts
<1>. QED
  BY <1>1, <1>2

\* An allocation gives a new block or none.
LEMMA MallocFacts ==
    ASSUME NEW cell, NEW block \in Malloc(cell)
    PROVE  block \in {Fresh, Null}
  BY DEF Malloc

LEMMA BlockFacts ==
    /\ Fresh.status = "live" /\ Fresh.content = Junk
    /\ Null.status = "null" /\ Null.content = Junk
    /\ Callers.status = "callers" /\ Callers.content = Junk
  BY DEF Fresh, Null, Callers

----------------------------------------------------------------------------
(* The inductive invariant. A call passes through the steps before         *)
(* argon2_ctx, those inside it, "done", and the way back.                  *)

Before == {"ffi", "ffi macos", "hash", "verify", "decode", "aside"}
Inside == {"ctx", "first", "fill", "finalize"}
Late == {"answer", "return", "crashed"}

Status(cell) == heap[cell].status
Content(cell) == heap[cell].content

Verifies == call.api = "verify"

PcInv ==
    /\ call \in Call /\ ctx \in Context
    /\ pc \in Before \cup Inside \cup {"done"} \cup Late
    /\ Verifies => pc \in {"verify", "decode", "aside", "done", "return"} \cup Inside
    /\ ~Verifies => pc \notin {"verify", "decode", "aside"}
    /\ call.api # "ffi" => pc \notin {"ffi", "ffi macos", "answer", "crashed"}
    /\ pc = "ffi" => call.platform = "ios"
    /\ pc = "ffi macos" => call.platform = "macos"

\* What argon2_ctx has checked before it lays out the memory.
LayoutInv ==
    pc \in {"first", "fill", "finalize"} => validate_inputs(ctx) = "OK" /\ call.type \in Type

OutFirst == [out |-> "out", desired |-> "none"]
FieldFirst == [out |-> "field", desired |-> "none"]
Swapped == [out |-> "out", desired |-> "field"]

PtrInv ==
    /\ ~Verifies => ptr = OutFirst
    /\ Verifies /\ pc \in {"decode", "aside"} => ptr = FieldFirst
    /\ Verifies /\ pc \in Inside => ptr = Swapped
    /\ Verifies /\ pc = "done" => ptr \in {FieldFirst, Swapped}
    /\ ptr \in {OutFirst, FieldFirst, Swapped}

\* The caller's two buffers; hash1 of the bridge and its text.
BufferInv ==
    /\ call.api = "raw" => Status("hash") = "callers"
    /\ call.api \in {"encoded", "verify"} => Status("hash") = "null"
    /\ call.api = "ffi" /\ pc \in {"ffi", "ffi macos"} => Status("hash") = "null"
    /\ call.api = "ffi" /\ pc \notin {"ffi", "ffi macos"} /\ call.platform = "macos" =>
           Status("hash") = "callers"
    /\ call.api = "ffi" /\ pc \notin {"ffi", "ffi macos", "return"} /\ call.platform = "ios" =>
           Status("hash") \in {"null", "live"}
    /\ call.api = "ffi" /\ pc = "return" /\ call.platform = "ios" =>
           Status("hash") \in {"null", "freed"}
    /\ Status("encoded") = IF call.api = "encoded" THEN "callers" ELSE "null"
    /\ Status("text") \in {"null", "live"}
    /\ pc # "return" => Status("text") = "null"

\* The buffer of the tag, the memory, and the two buffers of a verification.
BlockInv ==
    /\ pc \in Before => Status("out") = "null"
    /\ pc \in Inside => Status("out") = "live"
    /\ pc = "done" /\ ~Verifies => Status("out") = "live"
    /\ pc = "done" /\ ptr = FieldFirst => Status("out") = "null"
    /\ pc = "done" /\ ptr = Swapped => Status("out") \in {"null", "live"}
    /\ pc \in Late => Status("out") \in {"null", "freed"}
    /\ pc \in Before \cup {"ctx"} => Status("memory") = "null"
    /\ pc \in {"first", "fill", "finalize"} => Status("memory") = "live"
    /\ pc \in {"done"} \cup Late => Status("memory") \in {"null", "live", "freed"}
    /\ \A cell \in {"salt", "field"} :
           /\ ~Verifies \/ pc = "verify" => Status(cell) = "null"
           /\ Verifies /\ pc \in {"decode", "aside"} \cup Inside => Status(cell) = "live"
           /\ Verifies /\ pc = "done" => Status(cell) \in {"null", "live"}
           /\ Verifies /\ pc = "return" => Status(cell) \in {"null", "freed"}

\* A code other than "OK" is set only on the way out; the memory is left behind
\* only by threads that failed.
CodeInv ==
    /\ pc \in Before \cup Inside => code = "OK"
    /\ pc \in {"done"} \cup Late /\ Status("memory") = "live" =>
           TheInstance.threads > 1 /\ code \in {"MEMORY_ALLOCATION_ERROR", "THREAD_FAIL"}

\* What the blocks hold. The string's tag waits in the second buffer.
ContentInv ==
    /\ call.api \in {"raw", "encoded"} /\ pc # "return" =>
           Content("hash") = Junk /\ Content("encoded") = Junk
    /\ pc = "done" /\ code = "OK" => ptr.out = "out" /\ Content("out") = Tag
    /\ pc = "decode" => call.string \notin {"null", "too long"}
    /\ Verifies /\ (pc \in {"aside"} \cup Inside \/ (pc = "done" /\ code = "OK")) =>
           /\ call.string = "good" /\ ctx = DecodedContext(call)
           /\ Content("field") = Stored(call)
    /\ Verifies /\ pc = "done" /\ code = "OK" => ptr = Swapped
    /\ Verifies /\ pc = "done" => code # "VERIFY_MISMATCH"

KindInv ==
    /\ code \in Codes
    /\ \A cell \in Cell : Content(cell).kind \in Kinds
    /\ \A r \in released : r.api \in Api /\ r.cell \in Cell /\ r.content.kind \in Kinds

Inv ==
    /\ PcInv /\ LayoutInv /\ PtrInv /\ IsHeap(heap) /\ BufferInv /\ BlockInv
    /\ CodeInv /\ ContentInv /\ KindInv
    /\ AllOrNothing /\ CorrectVerdict /\ ClearedBeforeRelease


----------------------------------------------------------------------------
(* What the steps have in common.                                          *)

LEMMA Unchanged ==
    ASSUME UNCHANGED <<call, ctx>>
    PROVE  Tag' = Tag /\ TheInstance' = TheInstance
  BY DEF Tag, Holding, Inputs, TheInstance

LEMMA KindFacts ==
    /\ Junk.kind \in Kinds /\ Zero.kind \in Kinds /\ Tag.kind \in Kinds
    /\ Holding("first").kind \in Kinds /\ Holding("filled").kind \in Kinds
    /\ \A k : Stored(k).kind \in Kinds
    /\ \A x : [kind |-> "text", of |-> x].kind \in Kinds
    /\ \A x : [kind |-> "salt", of |-> x].kind \in Kinds
  BY DEF Junk, Zero, Tag, Holding, Stored, Kinds

LEMMA KindsKept ==
    ASSUME KindInv, code' \in Codes,
           \A cell \in Cell : heap'[cell].content.kind \in Kinds,
           \A x \in released' \ released :
               x.api \in Api /\ x.cell \in Cell /\ x.content.kind \in Kinds
    PROVE  KindInv'
  BY DEF KindInv, Content

\* The contexts that argon2_hash and decode_string make.
LEMMA ContextFacts ==
    ASSUME NEW k \in Call
    PROVE  HashContext(k) \in Context /\ DecodedContext(k) \in Context
<1>1. Word \in Nat \ {0}
  BY LimitAssumption DEF SYNC_POINTS
<1>2. \A n \in Nat : n % Word \in Uint32
  BY <1>1 DEF Uint32
<1>3. k.hashlen \in Nat /\ k.pwdlen \in Nat /\ k.saltlen \in Nat
  BY DEF Call
<1>4. /\ k.hashlen % Word \in Uint32 /\ k.pwdlen % Word \in Uint32 /\ k.saltlen % Word \in Uint32
      /\ 0 \in Uint32 /\ VERSION_NUMBER \in Uint32
      /\ k.m_cost \in Uint32 /\ k.t_cost \in Uint32 /\ k.lanes \in Uint32 /\ k.version \in Uint32
      /\ (k.pwd # "NULL") \in BOOLEAN
  <2>1. 0 \in Uint32
    BY <1>1 DEF Uint32
  <2>2. /\ k.m_cost \in Uint32 /\ k.t_cost \in Uint32 /\ k.lanes \in Uint32 /\ k.version \in Uint32
    BY DEF Call
  <2>. QED
    BY <1>2, <1>3, <2>1, <2>2, CallAssumption
<1>5. HashContext(k) \in Context
  BY <1>4 DEF HashContext, Context
<1>. QED
  BY <1>4, <1>5 DEF DecodedContext, Context

----------------------------------------------------------------------------
(* The codes of the checks.                                                *)

CheckCodes == Codes \ {"VERIFY_MISMATCH"}

LEMMA WhenCode ==
    ASSUME NEW fails, NEW c \in CheckCodes
    PROVE  When(fails, c) \in CheckCodes
  BY DEF When, CheckCodes, Codes

LEMMA ChainCode ==
    ASSUME NEW a \in CheckCodes, NEW b \in CheckCodes
    PROVE  a ++ b \in CheckCodes
  BY DEF ++

LEMMA BetweenCode ==
    ASSUME NEW n, NEW min, NEW max, NEW c \in CheckCodes, NEW d \in CheckCodes
    PROVE  Between(n, min, c, max, d) \in CheckCodes
  BY WhenCode, ChainCode DEF Between

LEMMA ValidateCode ==
    ASSUME NEW c
    PROVE  validate_inputs(c) \in CheckCodes
<1>1. OutputCheck(c) \in CheckCodes
  <2>1. "OUTPUT_PTR_NULL" \in CheckCodes /\ "OUTPUT_TOO_SHORT" \in CheckCodes
        /\ "OUTPUT_TOO_LONG" \in CheckCodes
    BY DEF CheckCodes, Codes
  <2>. QED
    BY <2>1, WhenCode, ChainCode, BetweenCode DEF OutputCheck
<1>2. PasswordCheck(c) \in CheckCodes
  <2>1. "PWD_PTR_MISMATCH" \in CheckCodes /\ "PWD_TOO_SHORT" \in CheckCodes
        /\ "PWD_TOO_LONG" \in CheckCodes
    BY DEF CheckCodes, Codes
  <2>. QED
    BY <2>1, WhenCode, ChainCode, BetweenCode DEF PasswordCheck
<1>3. SaltCheck(c) \in CheckCodes
  <2>1. "SALT_PTR_MISMATCH" \in CheckCodes /\ "SALT_TOO_SHORT" \in CheckCodes
        /\ "SALT_TOO_LONG" \in CheckCodes
    BY DEF CheckCodes, Codes
  <2>. QED
    BY <2>1, WhenCode, ChainCode, BetweenCode DEF SaltCheck
<1>4. SecretCheck(c) \in CheckCodes
  <2>1. "SECRET_PTR_MISMATCH" \in CheckCodes /\ "SECRET_TOO_SHORT" \in CheckCodes
        /\ "SECRET_TOO_LONG" \in CheckCodes
    BY DEF CheckCodes, Codes
  <2>. QED
    BY <2>1, WhenCode, BetweenCode DEF SecretCheck
<1>5. AdCheck(c) \in CheckCodes
  <2>1. "AD_PTR_MISMATCH" \in CheckCodes /\ "AD_TOO_SHORT" \in CheckCodes
        /\ "AD_TOO_LONG" \in CheckCodes
    BY DEF CheckCodes, Codes
  <2>. QED
    BY <2>1, WhenCode, BetweenCode DEF AdCheck
<1>6. MemoryCheck(c) \in CheckCodes
  <2>1. "MEMORY_TOO_LITTLE" \in CheckCodes /\ "MEMORY_TOO_MUCH" \in CheckCodes
    BY DEF CheckCodes, Codes
  <2>. QED
    BY <2>1, WhenCode, ChainCode, BetweenCode DEF MemoryCheck
<1>7. TimeCheck(c) \in CheckCodes /\ LanesCheck(c) \in CheckCodes /\ ThreadsCheck(c) \in CheckCodes
  <2>1. /\ "TIME_TOO_SMALL" \in CheckCodes /\ "TIME_TOO_LARGE" \in CheckCodes
        /\ "LANES_TOO_FEW" \in CheckCodes /\ "LANES_TOO_MANY" \in CheckCodes
        /\ "THREADS_TOO_FEW" \in CheckCodes /\ "THREADS_TOO_MANY" \in CheckCodes
    BY DEF CheckCodes, Codes
  <2>. QED
    BY <2>1, BetweenCode DEF TimeCheck, LanesCheck, ThreadsCheck
<1>8. CallbackCheck(c) \in CheckCodes
  <2>1. "FREE_MEMORY_CBK_NULL" \in CheckCodes /\ "ALLOCATE_MEMORY_CBK_NULL" \in CheckCodes
    BY DEF CheckCodes, Codes
  <2>. QED
    BY <2>1, WhenCode, ChainCode DEF CallbackCheck
<1>. QED
  BY <1>1, <1>2, <1>3, <1>4, <1>5, <1>6, <1>7, <1>8, ChainCode DEF validate_inputs

\* The checks at the entry of the functions give such codes too, and "OK" only
\* if nothing is wrong.
LEMMA EntryCodes ==
    ASSUME NEW k
    PROVE  /\ HashSizeCheck(k) \in CheckCodes /\ VerifySizeCheck(k) \in CheckCodes
           /\ decode_string(k) \in CheckCodes
           /\ VerifySizeCheck(k) = "OK" => k.string \notin {"null", "too long"}
           /\ decode_string(k) = "OK" => k.type \in Type /\ k.string \notin {"malformed", "trailing"}
<1>1. /\ "PWD_TOO_LONG" \in CheckCodes /\ "SALT_TOO_LONG" \in CheckCodes
      /\ "OUTPUT_TOO_LONG" \in CheckCodes /\ "OUTPUT_TOO_SHORT" \in CheckCodes
      /\ "DECODING_FAIL" \in CheckCodes /\ "INCORRECT_TYPE" \in CheckCodes
  BY DEF CheckCodes, Codes
<1>2. HashSizeCheck(k) \in CheckCodes
  BY <1>1, WhenCode, ChainCode DEF HashSizeCheck
<1>3. VerifySizeCheck(k) \in CheckCodes
  BY <1>1, WhenCode, ChainCode DEF VerifySizeCheck
<1>4. decode_string(k) \in CheckCodes
  BY <1>1, WhenCode, ChainCode, ValidateCode DEF decode_string
<1>5. VerifySizeCheck(k) = "OK" => k.string \notin {"null", "too long"}
  BY DEF VerifySizeCheck, When, ++
<1>6. decode_string(k) = "OK" => k.type \in Type /\ k.string \notin {"malformed", "trailing"}
  BY DEF decode_string, When, ++
<1>. QED
  BY <1>2, <1>3, <1>4, <1>5, <1>6

LEMMA ContextCheckFacts ==
    /\ ContextCheck \in CheckCodes
    /\ ContextCheck = "OK" => validate_inputs(ctx) = "OK" /\ call.type \in Type
<1>1. "INCORRECT_TYPE" \in CheckCodes
  BY DEF CheckCodes, Codes
<1>. QED
  BY <1>1, WhenCode, ChainCode, ValidateCode DEF ContextCheck, When, ++

----------------------------------------------------------------------------
(* One lemma for each step.                                                *)

LEMMA CtxFinalizeStep == Inv /\ CtxFinalize => Inv'
<1>. SUFFICES ASSUME Inv, CtxFinalize PROVE Inv'
  OBVIOUS
<1>1. /\ pc = "finalize" /\ pc' = "done" /\ ptr.out = "out" /\ ptr \in {OutFirst, Swapped}
      /\ heap["out"].status = "live" /\ heap["memory"].status = "live" /\ code = "OK"
  BY DEF Inv, CtxFinalize, PtrInv, BlockInv, CodeInv, Inside, Status, OutFirst, Swapped
<1>2. /\ IsHeap(heap')
      /\ heap'["out"] = [status |-> "live", content |-> Tag]
      /\ heap'["memory"] = [status |-> "freed", content |-> Zero]
      /\ \A d \in Cell : d \notin {"out", "memory"} => heap'[d] = heap[d]
      /\ released' = released \cup {[api |-> call.api, cell |-> "memory", content |-> Zero]}
  <2> DEFINE tagged == Put(heap, "out", Tag)
             wiped == clear_internal_memory(tagged, "memory")
  <2>1. /\ IsHeap(tagged) /\ tagged["out"] = [status |-> "live", content |-> Tag]
        /\ \A d \in Cell : d # "out" => tagged[d] = heap[d]
    BY <1>1, PutFacts DEF Inv, Cell
  <2>. HIDE DEF tagged
  <2>m. tagged["memory"].status = "live" /\ "memory" \in Cell /\ "out" \in Cell
    BY <1>1, <2>1 DEF Cell
  <2>2. /\ IsHeap(wiped) /\ wiped["memory"] = [status |-> "live", content |-> Zero]
        /\ \A d \in Cell : d # "memory" => wiped[d] = tagged[d]
    BY <2>1, <2>m, ClearFacts
  <2>3. heap' = Free(wiped, "memory") /\ released' = released \cup Remains(wiped, {"memory"})
    BY <1>1 DEF CtxFinalize, tagged
  <2>. HIDE DEF wiped
  <2>4. Remains(wiped, {"memory"}) = {[api |-> call.api, cell |-> "memory", content |-> Zero]}
    BY <2>2 DEF Remains
  <2>5. /\ IsHeap(heap') /\ heap'["memory"] = [status |-> "freed", content |-> Zero]
        /\ \A d \in Cell : d # "memory" => heap'[d] = wiped[d]
    BY <2>2, <2>3, <2>m, FreeFacts
  <2>. QED
    BY <2>1, <2>2, <2>3, <2>4, <2>5 DEF Cell
<1>3. UNCHANGED <<call, ctx, ptr, code>> /\ Tag' = Tag /\ TheInstance' = TheInstance
  BY Unchanged DEF CtxFinalize
<1>4. PcInv' /\ LayoutInv' /\ PtrInv'
  BY <1>1, <1>3 DEF Inv, PcInv, LayoutInv, PtrInv, Inside, Before, Late, Verifies
<1>5. BufferInv'
  BY <1>1, <1>2, <1>3 DEF Inv, BufferInv, Status, Cell
<1>6. BlockInv' /\ CodeInv'
  BY <1>1, <1>2, <1>3 DEF Inv, BlockInv, CodeInv, Status, Cell, Inside, Before, Late,
     Verifies, OutFirst, Swapped, FieldFirst
<1>7. ContentInv'
  BY <1>1, <1>2, <1>3 DEF Inv, ContentInv, PtrInv, Content, Cell, Inside, Before, Late,
     Verifies, OutFirst, Swapped, FieldFirst
<1>8. AllOrNothing' /\ CorrectVerdict' /\ ClearedBeforeRelease'
  BY <1>1, <1>2, <1>3 DEF Inv, AllOrNothing, CorrectVerdict, ClearedBeforeRelease
<1>9. KindInv'
  <2>1. Zero.kind \in Kinds /\ Tag.kind \in Kinds /\ "memory" \in Cell /\ call.api \in Api
    BY KindFacts DEF Cell, Inv, PcInv, Call
  <2>2. \A cell \in Cell : heap'[cell].content.kind \in Kinds
    BY <1>2, <2>1 DEF Inv, KindInv, Content
  <2>3. \A x \in released' \ released : x.api \in Api /\ x.cell \in Cell /\ x.content.kind \in Kinds
    BY <1>2, <2>1
  <2>. QED
    BY <1>3, <2>2, <2>3, KindsKept DEF Inv, KindInv
<1>. QED
  BY <1>2, <1>9, <1>4, <1>5, <1>6, <1>7, <1>8 DEF Inv

LEMMA HashRejectedStep == Inv /\ HashRejected => Inv'
<1>. SUFFICES ASSUME Inv, HashRejected PROVE Inv'
  OBVIOUS
<1>1. pc = "hash" /\ pc' = After /\ ~Verifies /\ code' \in CheckCodes \ {"OK"}
  BY EntryCodes DEF HashRejected, Inv, PcInv, Verifies, Inside
<1>2. IsHeap(heap') /\ heap' = heap /\ released' = released
  BY DEF Inv, HashRejected
<1>3. UNCHANGED <<call, ctx, ptr>> /\ Tag' = Tag /\ TheInstance' = TheInstance
  BY Unchanged DEF HashRejected
<1>4. PcInv' /\ LayoutInv' /\ PtrInv'
  BY <1>1, <1>2, <1>3 DEF Inv, PcInv, LayoutInv, PtrInv, Before, Inside, Late, Verifies,
     OutFirst, FieldFirst, Swapped, After
<1>5. BufferInv'
  BY <1>1, <1>2, <1>3 DEF Inv, BufferInv, PcInv, Status, Cell, Before, Inside, Late, Verifies,
     OutFirst, FieldFirst, Swapped, After
<1>6. BlockInv'
  BY <1>1, <1>2, <1>3 DEF Inv, BlockInv, PcInv, PtrInv, Status, Cell, Before, Inside, Late,
     Verifies, OutFirst, FieldFirst, Swapped, After
<1>b. CodeInv'
  BY <1>1, <1>2, <1>3 DEF Inv, CodeInv, BlockInv, PcInv, Status, Cell, Before, Inside, Late,
     Verifies, OutFirst, FieldFirst, Swapped, After
<1>7. ContentInv'
  BY <1>1, <1>2, <1>3 DEF Inv, ContentInv, CodeInv, PcInv, PtrInv, Content, Cell, Before,
     Inside, Late, Verifies, OutFirst, FieldFirst, Swapped, After
<1>8. AllOrNothing' /\ CorrectVerdict' /\ ClearedBeforeRelease'
  BY <1>1, <1>2, <1>3 DEF Inv, AllOrNothing, CorrectVerdict, ClearedBeforeRelease, After,
     ContentInv, PcInv, Content, Verifies
<1>9. KindInv'
  BY <1>1, <1>2, <1>3, KindFacts, KindsKept DEF Inv, KindInv, Content, Cell, CheckCodes
<1>. QED
  BY <1>2, <1>4, <1>5, <1>6, <1>b, <1>7, <1>8, <1>9 DEF Inv

LEMMA VerifyRejectedStep == Inv /\ VerifyRejected => Inv'
<1>. SUFFICES ASSUME Inv, VerifyRejected PROVE Inv'
  OBVIOUS
<1>1. pc = "verify" /\ pc' = "return" /\ Verifies /\ code' \in CheckCodes \ {"OK"}
  BY EntryCodes DEF VerifyRejected, Inv, PcInv, Verifies
<1>2. IsHeap(heap') /\ heap' = heap /\ released' = released
  BY DEF Inv, VerifyRejected
<1>3. UNCHANGED <<call, ctx, ptr>> /\ Tag' = Tag /\ TheInstance' = TheInstance
  BY Unchanged DEF VerifyRejected
<1>4. PcInv' /\ LayoutInv' /\ PtrInv'
  BY <1>1, <1>2, <1>3 DEF Inv, PcInv, LayoutInv, PtrInv, Before, Inside, Late, Verifies,
     OutFirst, FieldFirst, Swapped
<1>5. BufferInv'
  BY <1>1, <1>2, <1>3 DEF Inv, BufferInv, PcInv, Status, Cell, Before, Inside, Late, Verifies,
     OutFirst, FieldFirst, Swapped
<1>6. BlockInv'
  BY <1>1, <1>2, <1>3 DEF Inv, BlockInv, PcInv, PtrInv, Status, Cell, Before, Inside, Late,
     Verifies, OutFirst, FieldFirst, Swapped
<1>b. CodeInv'
  BY <1>1, <1>2, <1>3 DEF Inv, CodeInv, BlockInv, PcInv, Status, Cell, Before, Inside, Late,
     Verifies, OutFirst, FieldFirst, Swapped
<1>7. ContentInv'
  BY <1>1, <1>2, <1>3 DEF Inv, ContentInv, CodeInv, PcInv, PtrInv, Content, Cell, Before,
     Inside, Late, Verifies, OutFirst, FieldFirst, Swapped
<1>8. AllOrNothing' /\ CorrectVerdict' /\ ClearedBeforeRelease'
  BY <1>1, <1>2, <1>3 DEF Inv, AllOrNothing, CorrectVerdict, ClearedBeforeRelease, CheckCodes,
     Verifies
<1>9. KindInv'
  BY <1>1, <1>2, <1>3, KindFacts, KindsKept DEF Inv, KindInv, Content, Cell, CheckCodes
<1>. QED
  BY <1>2, <1>4, <1>5, <1>6, <1>b, <1>7, <1>8, <1>9 DEF Inv

LEMMA CtxRejectedStep == Inv /\ CtxRejected => Inv'
<1>. SUFFICES ASSUME Inv, CtxRejected PROVE Inv'
  OBVIOUS
<1>1. pc = "ctx" /\ pc' = "done" /\ code' \in CheckCodes \ {"OK"}
  BY ContextCheckFacts DEF CtxRejected
<1>2. IsHeap(heap') /\ heap' = heap /\ released' = released
  BY DEF Inv, CtxRejected
<1>3. UNCHANGED <<call, ctx, ptr>> /\ Tag' = Tag /\ TheInstance' = TheInstance
  BY Unchanged DEF CtxRejected
<1>4. PcInv' /\ LayoutInv' /\ PtrInv'
  BY <1>1, <1>2, <1>3 DEF Inv, PcInv, LayoutInv, PtrInv, Before, Inside, Late, Verifies,
     OutFirst, FieldFirst, Swapped
<1>5. BufferInv'
  BY <1>1, <1>2, <1>3 DEF Inv, BufferInv, PcInv, Status, Cell, Before, Inside, Late, Verifies,
     OutFirst, FieldFirst, Swapped
<1>6. BlockInv'
  BY <1>1, <1>2, <1>3 DEF Inv, BlockInv, PcInv, PtrInv, Status, Cell, Before, Inside, Late,
     Verifies, OutFirst, FieldFirst, Swapped
<1>b. CodeInv'
  BY <1>1, <1>2, <1>3 DEF Inv, CodeInv, BlockInv, PcInv, Status, Cell, Before, Inside, Late,
     Verifies, OutFirst, FieldFirst, Swapped
<1>7. ContentInv'
  BY <1>1, <1>2, <1>3 DEF Inv, ContentInv, CodeInv, PcInv, PtrInv, Content, Cell, Before,
     Inside, Late, Verifies, OutFirst, FieldFirst, Swapped, CheckCodes
<1>8. AllOrNothing' /\ CorrectVerdict' /\ ClearedBeforeRelease'
  BY <1>1, <1>2, <1>3 DEF Inv, AllOrNothing, CorrectVerdict, ClearedBeforeRelease
<1>9. KindInv'
  BY <1>1, <1>2, <1>3, KindFacts, KindsKept DEF Inv, KindInv, Content, Cell, CheckCodes
<1>. QED
  BY <1>2, <1>4, <1>5, <1>6, <1>b, <1>7, <1>8, <1>9 DEF Inv

LEMMA FfiBufferStep == Inv /\ FfiBuffer => Inv'
<1>. SUFFICES ASSUME Inv, FfiBuffer PROVE Inv'
  OBVIOUS
<1>1. /\ pc = "ffi" /\ pc' = "hash" /\ call.api = "ffi" /\ call.platform = "ios" /\ ~Verifies
      /\ call' \in Call /\ call'.api = call.api /\ call'.platform = call.platform
  BY DEF FfiBuffer, Inv, PcInv, Verifies, Call, Argon2_d, Argon2_i, Argon2_id
<1>2. /\ IsHeap(heap') /\ heap'["hash"] \in {Fresh, Null}
      /\ \A d \in Cell : d # "hash" => heap'[d] = heap[d]
      /\ released' = released
  <2>1. PICK block \in {Fresh, Null} : heap' = [heap EXCEPT !["hash"] = block]
    BY MallocFacts DEF FfiBuffer
  <2>2. "hash" \in Cell /\ released' = released /\ IsHeap(heap)
    BY DEF Cell, FfiBuffer, Inv
  <2>3. block \in {Fresh, Null, Callers}
    BY <2>1
  <2>4. IsHeap(heap') /\ heap'["hash"] = block /\ \A d \in Cell : d # "hash" => heap'[d] = heap[d]
    BY <2>1, <2>2, <2>3 DEF IsHeap, Fresh, Null, Callers
  <2>. QED
    BY <2>1, <2>2, <2>4
<1>3. UNCHANGED <<ctx, ptr, code>>
  BY DEF FfiBuffer
<1>4. PcInv' /\ LayoutInv' /\ PtrInv'
  BY <1>1, <1>2, <1>3 DEF Inv, PcInv, LayoutInv, PtrInv, Before, Inside, Late, Verifies,
     OutFirst, FieldFirst, Swapped
<1>5. BufferInv'
  BY <1>1, <1>2, <1>3, BlockFacts DEF Inv, BufferInv, PcInv, Status, Cell, Before, Inside,
     Late, Verifies, OutFirst, FieldFirst, Swapped
<1>6. BlockInv'
  BY <1>1, <1>2, <1>3 DEF Inv, BlockInv, PcInv, PtrInv, Status, Cell, Before, Inside, Late,
     Verifies, OutFirst, FieldFirst, Swapped
<1>b. CodeInv'
  BY <1>1, <1>2, <1>3 DEF Inv, CodeInv, BlockInv, PcInv, Status, Cell, Before, Inside, Late,
     Verifies, OutFirst, FieldFirst, Swapped
<1>7. ContentInv'
  BY <1>1, <1>2, <1>3 DEF Inv, ContentInv, CodeInv, PcInv, PtrInv, Content, Cell, Before,
     Inside, Late, Verifies, OutFirst, FieldFirst, Swapped
<1>8. AllOrNothing' /\ CorrectVerdict' /\ ClearedBeforeRelease'
  BY <1>1, <1>2, <1>3 DEF Inv, AllOrNothing, CorrectVerdict, ClearedBeforeRelease
<1>9. KindInv'
  BY <1>1, <1>2, <1>3, BlockFacts, KindFacts, KindsKept DEF Inv, KindInv, Content, Cell
<1>. QED
  BY <1>2, <1>4, <1>5, <1>6, <1>b, <1>7, <1>8, <1>9 DEF Inv

LEMMA FfiArrayStep == Inv /\ FfiArray => Inv'
<1>. SUFFICES ASSUME Inv, FfiArray PROVE Inv'
  OBVIOUS
<1>1. /\ pc = "ffi macos" /\ pc' \in {"hash", "answer"} /\ call.api = "ffi" /\ ~Verifies
      /\ call.platform = "macos"
  BY DEF FfiArray, Inv, PcInv, Verifies
<1>2. /\ IsHeap(heap') /\ heap'["hash"] = Callers
      /\ \A d \in Cell : d # "hash" => heap'[d] = heap[d]
      /\ released' = released
  <2>1. heap' = [heap EXCEPT !["hash"] = Callers] /\ "hash" \in Cell /\ IsHeap(heap)
    BY DEF FfiArray, Cell, Inv
  <2>2. IsHeap(heap') /\ heap'["hash"] = Callers /\ \A d \in Cell : d # "hash" => heap'[d] = heap[d]
    BY <2>1 DEF IsHeap, Callers
  <2>. QED
    BY <2>2 DEF FfiArray
<1>3. UNCHANGED <<call, ctx, ptr, code>> /\ Tag' = Tag /\ TheInstance' = TheInstance
  BY Unchanged DEF FfiArray
<1>4. PcInv' /\ LayoutInv' /\ PtrInv'
  BY <1>1, <1>2, <1>3 DEF Inv, PcInv, LayoutInv, PtrInv, Before, Inside, Late, Verifies,
     OutFirst, FieldFirst, Swapped
<1>5. BufferInv'
  BY <1>1, <1>2, <1>3, BlockFacts DEF Inv, BufferInv, PcInv, Status, Cell, Before, Inside,
     Late, Verifies, OutFirst, FieldFirst, Swapped
<1>6. BlockInv'
  BY <1>1, <1>2, <1>3 DEF Inv, BlockInv, PcInv, PtrInv, Status, Cell, Before, Inside, Late,
     Verifies, OutFirst, FieldFirst, Swapped
<1>b. CodeInv'
  BY <1>1, <1>2, <1>3 DEF Inv, CodeInv, BlockInv, PcInv, Status, Cell, Before, Inside, Late,
     Verifies, OutFirst, FieldFirst, Swapped
<1>7. ContentInv'
  BY <1>1, <1>2, <1>3 DEF Inv, ContentInv, CodeInv, PcInv, PtrInv, Content, Cell, Before,
     Inside, Late, Verifies, OutFirst, FieldFirst, Swapped
<1>8. AllOrNothing' /\ CorrectVerdict' /\ ClearedBeforeRelease'
  BY <1>1, <1>2, <1>3 DEF Inv, AllOrNothing, CorrectVerdict, ClearedBeforeRelease
<1>9. KindInv'
  BY <1>1, <1>2, <1>3, BlockFacts, KindFacts, KindsKept DEF Inv, KindInv, Content, Cell
<1>. QED
  BY <1>2, <1>4, <1>5, <1>6, <1>b, <1>7, <1>8, <1>9 DEF Inv

LEMMA HashStartStep == Inv /\ HashStart => Inv'
<1>. SUFFICES ASSUME Inv, HashStart PROVE Inv'
  OBVIOUS
<1>1. pc = "hash" /\ ~Verifies /\ ptr' = OutFirst /\ After \in {"answer", "return"}
  BY DEF HashStart, Inv, PcInv, PtrInv, Verifies, Inside, OutFirst, After
<1>2. /\ IsHeap(heap')
      /\ \/ heap'["out"] = Fresh /\ pc' = "ctx" /\ ctx' = HashContext(call) /\ code' = code
         \/ heap'["out"] = Null /\ pc' = After /\ ctx' = ctx /\ code' = "MEMORY_ALLOCATION_ERROR"
      /\ \A d \in Cell : d # "out" => heap'[d] = heap[d]
      /\ released' = released
  <2>1. PICK block \in Malloc("out") :
            /\ heap' = [heap EXCEPT !["out"] = block]
            /\ IF block = Null
               THEN code' = "MEMORY_ALLOCATION_ERROR" /\ pc' = After /\ UNCHANGED ctx
               ELSE ctx' = HashContext(call) /\ pc' = "ctx" /\ UNCHANGED code
    BY DEF HashStart
  <2>2. "out" \in Cell /\ released' = released /\ block \in {Fresh, Null} /\ IsHeap(heap)
    BY <2>1, MallocFacts DEF Cell, HashStart, Inv
  <2>3. block \in {Fresh, Null, Callers}
    BY <2>2
  <2>4. IsHeap(heap') /\ heap'["out"] = block /\ \A d \in Cell : d # "out" => heap'[d] = heap[d]
    BY <2>1, <2>2, <2>3 DEF IsHeap, Fresh, Null, Callers
  <2>. QED
    BY <2>1, <2>2, <2>4
<1>3. call' = call /\ HashContext(call) \in Context
  BY ContextFacts DEF HashStart, Inv, PcInv
<1>4. PcInv' /\ LayoutInv' /\ PtrInv'
  BY <1>1, <1>2, <1>3 DEF Inv, PcInv, LayoutInv, PtrInv, Before, Inside, Late, Verifies,
     OutFirst, FieldFirst, Swapped, After
<1>5. BufferInv'
  BY <1>1, <1>2, <1>3, BlockFacts DEF Inv, BufferInv, PcInv, Status, Cell, Before, Inside,
     Late, Verifies, OutFirst, FieldFirst, Swapped, After
<1>6. BlockInv'
  <2>1. CASE heap'["out"] = Fresh /\ pc' = "ctx" /\ code' = code
    BY <1>1, <1>2, <1>3, <2>1, BlockFacts DEF Inv, BlockInv, PcInv, PtrInv, Status, Cell,
       Before, Inside, Late, Verifies, OutFirst, FieldFirst, Swapped, After
  <2>2. CASE heap'["out"] = Null /\ pc' = After /\ code' = "MEMORY_ALLOCATION_ERROR"
    BY <1>1, <1>2, <1>3, <2>2, BlockFacts DEF Inv, BlockInv, PcInv, PtrInv, Status, Cell,
       Before, Inside, Late, Verifies, OutFirst, FieldFirst, Swapped, After
  <2>. QED
    BY <1>2, <2>1, <2>2
<1>b. CodeInv'
  BY <1>1, <1>2, <1>3, BlockFacts DEF Inv, CodeInv, BlockInv, PcInv, Status, Cell, Before,
     Inside, Late, Verifies, OutFirst, FieldFirst, Swapped, After
<1>7. ContentInv'
  BY <1>1, <1>2, <1>3, BlockFacts DEF Inv, ContentInv, CodeInv, PcInv, PtrInv, Content, Cell,
     Before, Inside, Late, Verifies, OutFirst, FieldFirst, Swapped, After
<1>8. AllOrNothing' /\ CorrectVerdict' /\ ClearedBeforeRelease'
  BY <1>1, <1>2, <1>3 DEF Inv, AllOrNothing, CorrectVerdict, ClearedBeforeRelease, After,
     ContentInv, Content, Cell, PcInv, Verifies
<1>9. KindInv'
  BY <1>1, <1>2, <1>3, BlockFacts, KindFacts, KindsKept DEF Inv, KindInv, Content, Cell, Codes
<1>. QED
  BY <1>2, <1>4, <1>5, <1>6, <1>b, <1>7, <1>8, <1>9 DEF Inv

LEMMA VerifyStartStep == Inv /\ VerifyStart => Inv'
<1>. SUFFICES ASSUME Inv, VerifyStart PROVE Inv'
  OBVIOUS
<1>1. /\ pc = "verify" /\ Verifies /\ ptr' = FieldFirst /\ call.string \notin {"null", "too long"}
  BY EntryCodes DEF VerifyStart, Inv, PcInv, Verifies, FieldFirst
<1>2. /\ IsHeap(heap')
      /\ heap'["salt"].status \in {"null", "live"} /\ heap'["salt"].content = Junk
      /\ heap'["field"].status \in {"null", "live"} /\ heap'["field"].content = Junk
      /\ \/ /\ heap'["salt"].status = "live" /\ heap'["field"].status = "live"
            /\ pc' = "decode" /\ code' = code
         \/ pc' = "done" /\ code' = "MEMORY_ALLOCATION_ERROR"
      /\ \A d \in Cell : d \notin {"salt", "field"} => heap'[d] = heap[d]
      /\ released' = released
  <2>1. PICK salt \in Malloc("salt"), field \in Malloc("field") :
            /\ heap' = [heap EXCEPT !["salt"] = salt, !["field"] = field]
            /\ IF Null \in {salt, field}
               THEN code' = "MEMORY_ALLOCATION_ERROR" /\ pc' = "done"
               ELSE pc' = "decode" /\ UNCHANGED code
    BY DEF VerifyStart
  <2>2. /\ "salt" \in Cell /\ "field" \in Cell /\ released' = released /\ IsHeap(heap)
        /\ salt \in {Fresh, Null} /\ field \in {Fresh, Null}
    BY <2>1, MallocFacts DEF Cell, VerifyStart, Inv
  <2>3. /\ IsHeap(heap') /\ heap'["salt"] = salt /\ heap'["field"] = field
        /\ \A d \in Cell : d \notin {"salt", "field"} => heap'[d] = heap[d]
    BY <2>1, <2>2 DEF IsHeap, Fresh, Null
  <2>. QED
    BY <2>1, <2>2, <2>3, BlockFacts
<1>3. UNCHANGED <<call, ctx>> /\ Tag' = Tag /\ TheInstance' = TheInstance
  BY Unchanged DEF VerifyStart
<1>4. PcInv' /\ LayoutInv' /\ PtrInv'
  BY <1>1, <1>2, <1>3 DEF Inv, PcInv, LayoutInv, PtrInv, Before, Inside, Late, Verifies,
     OutFirst, FieldFirst, Swapped
<1>5. BufferInv'
  BY <1>1, <1>2, <1>3, BlockFacts DEF Inv, BufferInv, PcInv, Status, Cell, Before, Inside,
     Late, Verifies, OutFirst, FieldFirst, Swapped
<1>6. BlockInv'
  <2>1. CASE /\ heap'["salt"].status = "live" /\ heap'["field"].status = "live"
                /\ pc' = "decode" /\ code' = code
    BY <1>1, <1>2, <1>3, <2>1, BlockFacts DEF Inv, BlockInv, PcInv, PtrInv, Status, Cell,
       Before, Inside, Late, Verifies, OutFirst, FieldFirst, Swapped
  <2>2. CASE pc' = "done" /\ code' = "MEMORY_ALLOCATION_ERROR"
    BY <1>1, <1>2, <1>3, <2>2, BlockFacts DEF Inv, BlockInv, PcInv, PtrInv, Status, Cell,
       Before, Inside, Late, Verifies, OutFirst, FieldFirst, Swapped
  <2>. QED
    BY <1>2, <2>1, <2>2
<1>b. CodeInv'
  BY <1>1, <1>2, <1>3, BlockFacts DEF Inv, CodeInv, BlockInv, PcInv, Status, Cell, Before,
     Inside, Late, Verifies, OutFirst, FieldFirst, Swapped
<1>7. ContentInv'
  BY <1>1, <1>2, <1>3, BlockFacts DEF Inv, ContentInv, CodeInv, PcInv, PtrInv, Content, Cell,
     Before, Inside, Late, Verifies, OutFirst, FieldFirst, Swapped
<1>8. AllOrNothing' /\ CorrectVerdict' /\ ClearedBeforeRelease'
  BY <1>1, <1>2, <1>3 DEF Inv, AllOrNothing, CorrectVerdict, ClearedBeforeRelease
<1>9. KindInv'
  <2>1. code' \in Codes
    BY <1>2 DEF Inv, KindInv, Codes
  <2>2. \A d \in Cell : heap'[d].content.kind \in Kinds
    BY <1>2, KindFacts DEF Inv, KindInv, Content
  <2>. QED
    BY <1>2, <2>1, <2>2, KindsKept DEF Inv
<1>. QED
  BY <1>2, <1>4, <1>5, <1>6, <1>b, <1>7, <1>8, <1>9 DEF Inv

LEMMA VerifyDecodeStep == Inv /\ VerifyDecode => Inv'
<1>. SUFFICES ASSUME Inv, VerifyDecode PROVE Inv'
  OBVIOUS
<1>1. /\ pc = "decode" /\ Verifies /\ ptr' = FieldFirst /\ ptr = FieldFirst
      /\ heap["salt"].status = "live" /\ heap["field"].status = "live"
      /\ code' \in CheckCodes /\ call.string \notin {"null", "too long"}
      /\ code' = "OK" => call.type \in Type /\ call.string = "good"
      /\ pc' = IF code' = "OK" THEN "aside" ELSE "done"
  BY EntryCodes DEF VerifyDecode, Inv, PcInv, PtrInv, BlockInv, ContentInv, Verifies,
     FieldFirst, Status, Call
<1>2. /\ IsHeap(heap') /\ released' = released
      /\ heap'["salt"].status = "live" /\ heap'["field"].status = "live"
      /\ code' = "OK" => heap'["field"].content = Stored(call)
      /\ heap'["salt"].content.kind \in Kinds /\ heap'["field"].content.kind \in Kinds
      /\ \A d \in Cell : d \notin {"salt", "field"} => heap'[d] = heap[d]
  <2> DEFINE note == [kind |-> "salt", of |-> call.salt]
             salted == Put(heap, "salt", note)
             both == Put(salted, "field", Stored(call))
  <2>1. /\ "salt" \in Cell /\ "field" \in Cell /\ released' = released /\ IsHeap(heap)
        /\ heap["salt"].content.kind \in Kinds /\ heap["field"].content.kind \in Kinds
    BY DEF Cell, VerifyDecode, Inv, KindInv, Content
  <2>n. note.kind \in Kinds
    BY DEF Kinds
  <2>. HIDE DEF note
  <2>m. heap["salt"].status = "live"
    BY <1>1
  <2>2. /\ IsHeap(salted) /\ salted["salt"] = [status |-> "live", content |-> note]
        /\ \A d \in Cell : d # "salt" => salted[d] = heap[d]
    BY <2>1, <2>m, PutFacts
  <2>. HIDE DEF salted
  <2>3. salted["field"].status = "live"
    BY <1>1, <2>1, <2>2
  <2>4. /\ IsHeap(both) /\ both["field"] = [status |-> "live", content |-> Stored(call)]
        /\ \A d \in Cell : d # "field" => both[d] = salted[d]
    BY <2>1, <2>2, <2>3, PutFacts
  <2>5. heap' = IF call.type \notin Type \/ call.string = "malformed" THEN heap ELSE both
    BY <1>1 DEF VerifyDecode, salted, note, FieldFirst
  <2>. HIDE DEF both
  <2>6. both["salt"] = salted["salt"] /\ \A d \in Cell : d \notin {"salt", "field"} => both[d] = heap[d]
    BY <2>1, <2>2, <2>4
  <2>7. CASE heap' = heap /\ code' # "OK"
    BY <1>1, <2>1, <2>7
  <2>8. CASE heap' = both
    <3>1. Stored(call).kind \in Kinds
      BY KindFacts
    <3>2. both["salt"].status = "live" /\ both["salt"].content.kind \in Kinds
      BY <2>2, <2>6, <2>n
    <3>. QED
      BY <2>1, <2>4, <2>6, <2>8, <3>1, <3>2
  <2>. QED
    BY <1>1, <2>5, <2>7, <2>8
<1>3. call' = call /\ ctx' = DecodedContext(call) /\ ctx' \in Context
  BY ContextFacts DEF VerifyDecode, Inv, PcInv
<1>4. PcInv' /\ LayoutInv' /\ PtrInv'
  BY <1>1, <1>2, <1>3 DEF Inv, PcInv, LayoutInv, PtrInv, Before, Inside, Late, Verifies,
     OutFirst, FieldFirst, Swapped
<1>5. BufferInv'
  BY <1>1, <1>2, <1>3 DEF Inv, BufferInv, PcInv, Status, Cell, Before, Inside, Late, Verifies,
     OutFirst, FieldFirst, Swapped
<1>6. BlockInv'
  BY <1>1, <1>2, <1>3 DEF Inv, BlockInv, PcInv, PtrInv, Status, Cell, Before, Inside, Late,
     Verifies, OutFirst, FieldFirst, Swapped
<1>b. CodeInv'
  BY <1>1, <1>2, <1>3 DEF Inv, CodeInv, BlockInv, PcInv, Status, Cell, Before, Inside, Late,
     Verifies, OutFirst, FieldFirst, Swapped
<1>7. ContentInv'
  BY <1>1, <1>2, <1>3 DEF Inv, ContentInv, CodeInv, PcInv, PtrInv, Content, Cell, Before,
     Inside, Late, Verifies, OutFirst, FieldFirst, Swapped, CheckCodes
<1>8. AllOrNothing' /\ CorrectVerdict' /\ ClearedBeforeRelease'
  BY <1>1, <1>2, <1>3 DEF Inv, AllOrNothing, CorrectVerdict, ClearedBeforeRelease, Verifies
<1>9. KindInv'
  BY <1>1, <1>2, <1>3, KindFacts, KindsKept DEF Inv, KindInv, Content, Cell, CheckCodes
<1>. QED
  BY <1>2, <1>4, <1>5, <1>6, <1>b, <1>7, <1>8, <1>9 DEF Inv

LEMMA VerifyAsideStep == Inv /\ VerifyAside => Inv'
<1>. SUFFICES ASSUME Inv, VerifyAside PROVE Inv'
  OBVIOUS
<1>1. /\ pc = "aside" /\ Verifies /\ ptr' = Swapped
  BY DEF VerifyAside, Inv, PcInv, PtrInv, Verifies, FieldFirst, Swapped
<1>2. /\ IsHeap(heap') /\ released' = released
      /\ \/ heap'["out"] = Fresh /\ pc' = "ctx" /\ code' = code
         \/ heap'["out"] = Null /\ pc' = "done" /\ code' = "MEMORY_ALLOCATION_ERROR"
      /\ \A d \in Cell : d # "out" => heap'[d] = heap[d]
  <2>1. PICK block \in Malloc("out") :
            /\ heap' = [heap EXCEPT !["out"] = block]
            /\ IF block = Null
               THEN code' = "MEMORY_ALLOCATION_ERROR" /\ pc' = "done"
               ELSE pc' = "ctx" /\ UNCHANGED code
    BY DEF VerifyAside
  <2>2. "out" \in Cell /\ released' = released /\ block \in {Fresh, Null} /\ IsHeap(heap)
    BY <2>1, MallocFacts DEF Cell, VerifyAside, Inv
  <2>3. IsHeap(heap') /\ heap'["out"] = block /\ \A d \in Cell : d # "out" => heap'[d] = heap[d]
    BY <2>1, <2>2 DEF IsHeap, Fresh, Null
  <2>. QED
    BY <2>1, <2>2, <2>3
<1>3. UNCHANGED <<call, ctx>> /\ Tag' = Tag /\ TheInstance' = TheInstance
  BY Unchanged DEF VerifyAside
<1>4. PcInv' /\ LayoutInv' /\ PtrInv'
  BY <1>1, <1>2, <1>3 DEF Inv, PcInv, LayoutInv, PtrInv, Before, Inside, Late, Verifies,
     OutFirst, FieldFirst, Swapped
<1>5. BufferInv'
  BY <1>1, <1>2, <1>3, BlockFacts DEF Inv, BufferInv, PcInv, Status, Cell, Before, Inside,
     Late, Verifies, OutFirst, FieldFirst, Swapped
<1>6. BlockInv'
  <2>1. CASE heap'["out"] = Fresh /\ pc' = "ctx" /\ code' = code
    BY <1>1, <1>2, <1>3, <2>1, BlockFacts DEF Inv, BlockInv, PcInv, PtrInv, Status, Cell,
       Before, Inside, Late, Verifies, OutFirst, FieldFirst, Swapped
  <2>2. CASE heap'["out"] = Null /\ pc' = "done" /\ code' = "MEMORY_ALLOCATION_ERROR"
    BY <1>1, <1>2, <1>3, <2>2, BlockFacts DEF Inv, BlockInv, PcInv, PtrInv, Status, Cell,
       Before, Inside, Late, Verifies, OutFirst, FieldFirst, Swapped
  <2>. QED
    BY <1>2, <2>1, <2>2
<1>b. CodeInv'
  BY <1>1, <1>2, <1>3, BlockFacts DEF Inv, CodeInv, BlockInv, PcInv, Status, Cell, Before,
     Inside, Late, Verifies, OutFirst, FieldFirst, Swapped
<1>7. ContentInv'
  BY <1>1, <1>2, <1>3, BlockFacts DEF Inv, ContentInv, CodeInv, PcInv, PtrInv, Content, Cell,
     Before, Inside, Late, Verifies, OutFirst, FieldFirst, Swapped
<1>8. AllOrNothing' /\ CorrectVerdict' /\ ClearedBeforeRelease'
  BY <1>1, <1>2, <1>3 DEF Inv, AllOrNothing, CorrectVerdict, ClearedBeforeRelease
<1>9. KindInv'
  BY <1>1, <1>2, <1>3, BlockFacts, KindFacts, KindsKept DEF Inv, KindInv, Content, Cell, Codes
<1>. QED
  BY <1>2, <1>4, <1>5, <1>6, <1>b, <1>7, <1>8, <1>9 DEF Inv

LEMMA CtxAllocateStep == Inv /\ CtxAllocate => Inv'
<1>. SUFFICES ASSUME Inv, CtxAllocate PROVE Inv'
  OBVIOUS
<1>1. /\ pc = "ctx" /\ validate_inputs(ctx) = "OK" /\ call.type \in Type /\ code = "OK"
  BY ContextCheckFacts DEF CtxAllocate, Inv, CodeInv, Inside
<1>2. /\ IsHeap(heap') /\ released' = released
      /\ \/ heap'["memory"] = Fresh /\ pc' = "first" /\ code' = code
         \/ heap'["memory"] = Null /\ pc' = "done" /\ code' = "MEMORY_ALLOCATION_ERROR"
      /\ \A d \in Cell : d # "memory" => heap'[d] = heap[d]
  <2>1. PICK block \in {Fresh, Null} :
            /\ heap' = [heap EXCEPT !["memory"] = block]
            /\ IF block = Null
               THEN code' = "MEMORY_ALLOCATION_ERROR" /\ pc' = "done"
               ELSE pc' = "first" /\ UNCHANGED code
    BY MallocFacts DEF CtxAllocate
  <2>2. "memory" \in Cell /\ released' = released /\ IsHeap(heap)
    BY DEF Cell, CtxAllocate, Inv
  <2>3. IsHeap(heap') /\ heap'["memory"] = block /\ \A d \in Cell : d # "memory" => heap'[d] = heap[d]
    BY <2>1, <2>2 DEF IsHeap, Fresh, Null
  <2>. QED
    BY <2>1, <2>2, <2>3
<1>3. UNCHANGED <<call, ctx, ptr>> /\ Tag' = Tag /\ TheInstance' = TheInstance
  BY Unchanged DEF CtxAllocate
<1>4. PcInv' /\ LayoutInv' /\ PtrInv'
  BY <1>1, <1>2, <1>3 DEF Inv, PcInv, LayoutInv, PtrInv, Before, Inside, Late, Verifies,
     OutFirst, FieldFirst, Swapped
<1>5. BufferInv'
  BY <1>1, <1>2, <1>3, BlockFacts DEF Inv, BufferInv, PcInv, Status, Cell, Before, Inside,
     Late, Verifies, OutFirst, FieldFirst, Swapped
<1>6. BlockInv'
  <2>1. CASE heap'["memory"] = Fresh /\ pc' = "first" /\ code' = code
    BY <1>1, <1>2, <1>3, <2>1, BlockFacts DEF Inv, BlockInv, PcInv, PtrInv, Status, Cell,
       Before, Inside, Late, Verifies, OutFirst, FieldFirst, Swapped
  <2>2. CASE heap'["memory"] = Null /\ pc' = "done" /\ code' = "MEMORY_ALLOCATION_ERROR"
    BY <1>1, <1>2, <1>3, <2>2, BlockFacts DEF Inv, BlockInv, PcInv, PtrInv, Status, Cell,
       Before, Inside, Late, Verifies, OutFirst, FieldFirst, Swapped
  <2>. QED
    BY <1>2, <2>1, <2>2
<1>b. CodeInv'
  BY <1>1, <1>2, <1>3, BlockFacts DEF Inv, CodeInv, BlockInv, PcInv, Status, Cell, Before,
     Inside, Late, Verifies, OutFirst, FieldFirst, Swapped
<1>7. ContentInv'
  BY <1>1, <1>2, <1>3, BlockFacts DEF Inv, ContentInv, CodeInv, PcInv, PtrInv, Content, Cell,
     Before, Inside, Late, Verifies, OutFirst, FieldFirst, Swapped
<1>8. AllOrNothing' /\ CorrectVerdict' /\ ClearedBeforeRelease'
  BY <1>1, <1>2, <1>3 DEF Inv, AllOrNothing, CorrectVerdict, ClearedBeforeRelease
<1>9. KindInv'
  BY <1>1, <1>2, <1>3, BlockFacts, KindFacts, KindsKept DEF Inv, KindInv, Content, Cell, Codes
<1>. QED
  BY <1>2, <1>4, <1>5, <1>6, <1>b, <1>7, <1>8, <1>9 DEF Inv

LEMMA CtxFirstBlocksStep == Inv /\ CtxFirstBlocks => Inv'
<1>. SUFFICES ASSUME Inv, CtxFirstBlocks PROVE Inv'
  OBVIOUS
<1>1. /\ pc = "first" /\ pc' = "fill" /\ heap["memory"].status = "live"
  BY DEF CtxFirstBlocks, Inv, BlockInv, Status
<1>2. /\ IsHeap(heap') /\ released' = released
      /\ heap'["memory"] = [status |-> "live", content |-> Holding("first")]
      /\ \A d \in Cell : d # "memory" => heap'[d] = heap[d]
  <2>1. "memory" \in Cell /\ released' = released /\ IsHeap(heap)
    BY DEF Cell, CtxFirstBlocks, Inv
  <2>2. heap' = Put(heap, "memory", Holding("first"))
    BY DEF CtxFirstBlocks
  <2>. QED
    BY <1>1, <2>1, <2>2, PutFacts
<1>3. UNCHANGED <<call, ctx, ptr, code>> /\ Tag' = Tag /\ TheInstance' = TheInstance
  BY Unchanged DEF CtxFirstBlocks
<1>4. PcInv' /\ LayoutInv' /\ PtrInv'
  BY <1>1, <1>2, <1>3 DEF Inv, PcInv, LayoutInv, PtrInv, Before, Inside, Late, Verifies,
     OutFirst, FieldFirst, Swapped
<1>5. BufferInv'
  BY <1>1, <1>2, <1>3 DEF Inv, BufferInv, PcInv, Status, Cell, Before, Inside, Late, Verifies,
     OutFirst, FieldFirst, Swapped
<1>6. BlockInv'
  BY <1>1, <1>2, <1>3 DEF Inv, BlockInv, PcInv, PtrInv, Status, Cell, Before, Inside, Late,
     Verifies, OutFirst, FieldFirst, Swapped
<1>b. CodeInv'
  BY <1>1, <1>2, <1>3 DEF Inv, CodeInv, BlockInv, PcInv, Status, Cell, Before, Inside, Late,
     Verifies, OutFirst, FieldFirst, Swapped
<1>7. ContentInv'
  BY <1>1, <1>2, <1>3 DEF Inv, ContentInv, CodeInv, PcInv, PtrInv, Content, Cell, Before,
     Inside, Late, Verifies, OutFirst, FieldFirst, Swapped
<1>8. AllOrNothing' /\ CorrectVerdict' /\ ClearedBeforeRelease'
  BY <1>1, <1>2, <1>3 DEF Inv, AllOrNothing, CorrectVerdict, ClearedBeforeRelease
<1>9. KindInv'
  BY <1>1, <1>2, <1>3, KindFacts, KindsKept DEF Inv, KindInv, Content, Cell
<1>. QED
  BY <1>2, <1>4, <1>5, <1>6, <1>b, <1>7, <1>8, <1>9 DEF Inv

LEMMA CtxFillStep == Inv /\ CtxFill => Inv'
<1>. SUFFICES ASSUME Inv, CtxFill PROVE Inv'
  OBVIOUS
<1>1. /\ pc = "fill" /\ pc' = "finalize" /\ heap["memory"].status = "live"
  BY DEF CtxFill, Inv, BlockInv, Status
<1>2. /\ IsHeap(heap') /\ released' = released
      /\ heap'["memory"] = [status |-> "live", content |-> Holding("filled")]
      /\ \A d \in Cell : d # "memory" => heap'[d] = heap[d]
  <2>1. "memory" \in Cell /\ released' = released /\ IsHeap(heap)
    BY DEF Cell, CtxFill, Inv
  <2>2. heap' = Put(heap, "memory", Holding("filled"))
    BY DEF CtxFill
  <2>. QED
    BY <1>1, <2>1, <2>2, PutFacts
<1>3. UNCHANGED <<call, ctx, ptr, code>> /\ Tag' = Tag /\ TheInstance' = TheInstance
  BY Unchanged DEF CtxFill
<1>4. PcInv' /\ LayoutInv' /\ PtrInv'
  BY <1>1, <1>2, <1>3 DEF Inv, PcInv, LayoutInv, PtrInv, Before, Inside, Late, Verifies,
     OutFirst, FieldFirst, Swapped
<1>5. BufferInv'
  BY <1>1, <1>2, <1>3 DEF Inv, BufferInv, PcInv, Status, Cell, Before, Inside, Late, Verifies,
     OutFirst, FieldFirst, Swapped
<1>6. BlockInv'
  BY <1>1, <1>2, <1>3 DEF Inv, BlockInv, PcInv, PtrInv, Status, Cell, Before, Inside, Late,
     Verifies, OutFirst, FieldFirst, Swapped
<1>b. CodeInv'
  BY <1>1, <1>2, <1>3 DEF Inv, CodeInv, BlockInv, PcInv, Status, Cell, Before, Inside, Late,
     Verifies, OutFirst, FieldFirst, Swapped
<1>7. ContentInv'
  BY <1>1, <1>2, <1>3 DEF Inv, ContentInv, CodeInv, PcInv, PtrInv, Content, Cell, Before,
     Inside, Late, Verifies, OutFirst, FieldFirst, Swapped
<1>8. AllOrNothing' /\ CorrectVerdict' /\ ClearedBeforeRelease'
  BY <1>1, <1>2, <1>3 DEF Inv, AllOrNothing, CorrectVerdict, ClearedBeforeRelease
<1>9. KindInv'
  BY <1>1, <1>2, <1>3, KindFacts, KindsKept DEF Inv, KindInv, Content, Cell
<1>. QED
  BY <1>2, <1>4, <1>5, <1>6, <1>b, <1>7, <1>8, <1>9 DEF Inv

LEMMA CtxFillFailsStep == Inv /\ CtxFillFails => Inv'
<1>. SUFFICES ASSUME Inv, CtxFillFails PROVE Inv'
  OBVIOUS
<1>1. /\ pc = "fill" /\ pc' = "done" /\ heap["memory"].status = "live"
      /\ TheInstance.threads > 1 /\ code' \in {"MEMORY_ALLOCATION_ERROR", "THREAD_FAIL"}
  BY DEF CtxFillFails, Inv, BlockInv, Status
<1>2. /\ IsHeap(heap') /\ released' = released
      /\ heap'["memory"] = [status |-> "live", content |-> Holding("filled")]
      /\ \A d \in Cell : d # "memory" => heap'[d] = heap[d]
  <2>1. "memory" \in Cell /\ released' = released /\ IsHeap(heap)
    BY DEF Cell, CtxFillFails, Inv
  <2>2. heap' = Put(heap, "memory", Holding("filled"))
    BY DEF CtxFillFails
  <2>. QED
    BY <1>1, <2>1, <2>2, PutFacts
<1>3. UNCHANGED <<call, ctx, ptr>> /\ Tag' = Tag /\ TheInstance' = TheInstance
  BY Unchanged DEF CtxFillFails
<1>4. PcInv' /\ LayoutInv' /\ PtrInv'
  BY <1>1, <1>2, <1>3 DEF Inv, PcInv, LayoutInv, PtrInv, Before, Inside, Late, Verifies,
     OutFirst, FieldFirst, Swapped
<1>5. BufferInv'
  BY <1>1, <1>2, <1>3 DEF Inv, BufferInv, PcInv, Status, Cell, Before, Inside, Late, Verifies,
     OutFirst, FieldFirst, Swapped
<1>6. BlockInv'
  BY <1>1, <1>2, <1>3 DEF Inv, BlockInv, PcInv, PtrInv, Status, Cell, Before, Inside, Late,
     Verifies, OutFirst, FieldFirst, Swapped
<1>b. CodeInv'
  BY <1>1, <1>2, <1>3 DEF Inv, CodeInv, BlockInv, PcInv, Status, Cell, Before, Inside, Late,
     Verifies, OutFirst, FieldFirst, Swapped
<1>7. ContentInv'
  BY <1>1, <1>2, <1>3 DEF Inv, ContentInv, CodeInv, PcInv, PtrInv, Content, Cell, Before,
     Inside, Late, Verifies, OutFirst, FieldFirst, Swapped
<1>8. AllOrNothing' /\ CorrectVerdict' /\ ClearedBeforeRelease'
  BY <1>1, <1>2, <1>3 DEF Inv, AllOrNothing, CorrectVerdict, ClearedBeforeRelease
<1>9. KindInv'
  BY <1>1, <1>2, <1>3, KindFacts, KindsKept DEF Inv, KindInv, Content, Cell, Codes
<1>. QED
  BY <1>2, <1>4, <1>5, <1>6, <1>b, <1>7, <1>8, <1>9 DEF Inv

LEMMA VerifyEndStep == Inv /\ VerifyEnd => Inv'
<1>. SUFFICES ASSUME Inv, VerifyEnd PROVE Inv'
  OBVIOUS
<1>1. /\ pc = "done" /\ pc' = "return" /\ Verifies /\ ptr' = ptr /\ ptr \in {FieldFirst, Swapped}
      /\ heap["salt"].status \in {"null", "live"} /\ heap["field"].status \in {"null", "live"}
      /\ heap["out"].status \in {"null", "live"} /\ (ptr = FieldFirst => heap["out"].status = "null")
      /\ code' = IF code = "OK" /\ argon2_compare THEN "VERIFY_MISMATCH" ELSE code
  BY DEF VerifyEnd, argon2_verify_ctx, Inv, PtrInv, BlockInv, Status, Verifies, FieldFirst, Swapped
<1>2. /\ IsHeap(heap')
      /\ \A d \in {"salt", "field", "out"} : heap'[d].status \in {"null", "freed"}
      /\ \A d \in Cell : heap'[d].content = heap[d].content
      /\ \A d \in Cell \ {"salt", "field", "out"} : heap'[d] = heap[d]
      /\ \A x \in released' \ released :
             /\ x.api = call.api /\ x.cell \in {"salt", "field", "out"}
             /\ x.content = heap[x.cell].content
  <2> DEFINE one == Free(heap, "salt")
             two == Free(one, ptr.out)
  <2>1. "salt" \in Cell /\ "field" \in Cell /\ "out" \in Cell /\ IsHeap(heap)
    BY DEF Cell, Inv
  <2>2. /\ IsHeap(one) /\ one["salt"].status \in {"null", "freed"}
        /\ one["salt"].content = heap["salt"].content
        /\ \A d \in Cell : d # "salt" => one[d] = heap[d]
    BY <1>1, <2>1, ReleaseFacts
  <2>. HIDE DEF one
  <2>3. CASE ptr = FieldFirst
    <3>1. ptr.out = "field" /\ ptr.desired = "none"
      BY <2>3 DEF FieldFirst
    <3>2. one["field"].status \in {"null", "live"}
      BY <1>1, <2>1, <2>2
    <3>3. /\ IsHeap(two) /\ two["field"].status \in {"null", "freed"}
          /\ two["field"].content = one["field"].content
          /\ \A d \in Cell : d # "field" => two[d] = one[d]
      BY <2>1, <2>2, <3>1, <3>2, ReleaseFacts
    <3>4. heap' = two
      BY <3>1 DEF VerifyEnd, one
    <3>5. {"salt", ptr.out, ptr.desired} \cap Cell = {"salt", "field"}
      BY <3>1 DEF Cell
    <3>6. released' = released \cup Remains(heap, {"salt", "field"})
      BY <3>5 DEF VerifyEnd
    <3>. HIDE DEF two
    <3>7. /\ two["salt"] = one["salt"] /\ two["out"] = heap["out"]
          /\ \A d \in Cell : two[d].content = heap[d].content
          /\ \A d \in Cell \ {"salt", "field", "out"} : two[d] = heap[d]
      BY <2>1, <2>2, <3>3
    <3>8. \A d \in {"salt", "field", "out"} : two[d].status \in {"null", "freed"}
      BY <1>1, <2>2, <2>3, <3>3, <3>7
    <3>. QED
      BY <3>3, <3>4, <3>6, <3>7, <3>8 DEF Remains
  <2>4. CASE ptr = Swapped
    <3> DEFINE three == Free(two, "field")
    <3>1. ptr.out = "out" /\ ptr.desired = "field"
      BY <2>4 DEF Swapped
    <3>2. one["out"].status \in {"null", "live"} /\ one["field"].status \in {"null", "live"}
      BY <1>1, <2>1, <2>2
    <3>3. /\ IsHeap(two) /\ two["out"].status \in {"null", "freed"}
          /\ two["out"].content = one["out"].content
          /\ \A d \in Cell : d # "out" => two[d] = one[d]
      BY <2>1, <2>2, <3>1, <3>2, ReleaseFacts
    <3>4. heap' = three
      BY <3>1 DEF VerifyEnd, one
    <3>5. {"salt", ptr.out, ptr.desired} \cap Cell = {"salt", "out", "field"}
      BY <3>1 DEF Cell
    <3>6. released' = released \cup Remains(heap, {"salt", "out", "field"})
      BY <3>5 DEF VerifyEnd
    <3>. HIDE DEF two
    <3>7. two["field"].status \in {"null", "live"}
      BY <2>1, <3>2, <3>3
    <3>8. /\ IsHeap(three) /\ three["field"].status \in {"null", "freed"}
          /\ three["field"].content = two["field"].content
          /\ \A d \in Cell : d # "field" => three[d] = two[d]
      BY <2>1, <3>3, <3>7, ReleaseFacts
    <3>. HIDE DEF three
    <3>9. /\ three["salt"] = one["salt"] /\ three["out"] = two["out"]
          /\ \A d \in Cell : three[d].content = heap[d].content
          /\ \A d \in Cell \ {"salt", "field", "out"} : three[d] = heap[d]
      BY <2>1, <2>2, <3>3, <3>8
    <3>. QED
      BY <2>2, <3>3, <3>4, <3>6, <3>8, <3>9 DEF Remains
  <2>. QED
    BY <1>1, <2>3, <2>4
<1>3. UNCHANGED <<call, ctx>> /\ Tag' = Tag /\ TheInstance' = TheInstance
  BY Unchanged DEF VerifyEnd
<1>4. PcInv' /\ LayoutInv' /\ PtrInv'
  BY <1>1, <1>2, <1>3 DEF Inv, PcInv, LayoutInv, PtrInv, Before, Inside, Late, Verifies,
     OutFirst, FieldFirst, Swapped
<1>5. BufferInv'
  BY <1>1, <1>2, <1>3 DEF Inv, BufferInv, PcInv, Status, Cell, Before, Inside, Late, Verifies,
     OutFirst, FieldFirst, Swapped
<1>6. BlockInv'
  BY <1>1, <1>2, <1>3 DEF Inv, BlockInv, PcInv, PtrInv, Status, Cell, Before, Inside, Late,
     Verifies, OutFirst, FieldFirst, Swapped
<1>b. CodeInv'
  BY <1>1, <1>2, <1>3 DEF Inv, CodeInv, BlockInv, PcInv, Status, Cell, Before, Inside, Late,
     Verifies, OutFirst, FieldFirst, Swapped
<1>7. ContentInv'
  BY <1>1, <1>2, <1>3 DEF Inv, ContentInv, CodeInv, PcInv, PtrInv, Content, Cell, Before,
     Inside, Late, Verifies, OutFirst, FieldFirst, Swapped
<1>8. AllOrNothing' /\ CorrectVerdict' /\ ClearedBeforeRelease'
  <2>1. AllOrNothing'
    BY <1>1, <1>3 DEF AllOrNothing, Verifies
  <2>2. ClearedBeforeRelease'
    BY <1>1, <1>2, <1>3 DEF Inv, ClearedBeforeRelease, Verifies
  <2>3. code = "OK" => /\ call.string = "good" /\ argon2_compare = (Stored(call) # Tag)
                      /\ ctx = DecodedContext(call)
    BY <1>1 DEF Inv, ContentInv, Content, argon2_compare, Swapped
  <2>4. ctx = DecodedContext(call) => (Stored(call) = Tag <=> call.pwd = call.stored)
    BY DEF Stored, Tag, Holding, Inputs, initial_hash
  <2>5. code # "VERIFY_MISMATCH"
    BY <1>1 DEF Inv, ContentInv
  <2>6. CorrectVerdict'
    BY <1>1, <1>3, <2>3, <2>4, <2>5 DEF CorrectVerdict
  <2>. QED
    BY <2>1, <2>2, <2>6
<1>9. KindInv'
  <2>1. code' \in Codes
    BY <1>1 DEF Inv, KindInv, Codes
  <2>2. \A d \in Cell : heap'[d].content.kind \in Kinds
    BY <1>2 DEF Inv, KindInv, Content
  <2>3. {"salt", "field", "out"} \subseteq Cell /\ call.api \in Api
    BY DEF Cell, Inv, PcInv, Call
  <2>4. \A x \in released' \ released : x.api \in Api /\ x.cell \in Cell /\ x.content.kind \in Kinds
    BY <1>2, <2>3 DEF Inv, KindInv, Content
  <2>. QED
    BY <2>1, <2>2, <2>4, KindsKept DEF Inv
<1>. QED
  BY <1>2, <1>4, <1>5, <1>6, <1>b, <1>7, <1>8, <1>9 DEF Inv

\* What argon2_hash writes to its caller after argon2_ctx has succeeded.
LEMMA HashResultsFacts ==
    ASSUME Inv, pc = "done", ~Verifies, code = "OK"
    PROVE  /\ IsHeap(HashResults)
           /\ \A d \in Cell : HashResults[d].status = heap[d].status
           /\ \A d \in Cell \ {"hash", "encoded"} : HashResults[d] = heap[d]
           /\ HashResults["hash"].content \in {heap["hash"].content, Tag}
           /\ call.api = "raw" => HashResults["hash"].content = Tag
           /\ call.api = "encoded" => HashResults["hash"].content = heap["hash"].content
           /\ ~Encodes => HashResults["encoded"].content = heap["encoded"].content
           /\ Encodes /\ encode_string = "OK" =>
                  HashResults["encoded"].content = [kind |-> "text", of |-> Tag]
           /\ Encodes /\ encode_string # "OK" => HashResults["encoded"].content = Zero
<1> DEFINE raw == IF heap["hash"].status = "null" THEN heap ELSE Put(heap, "hash", Tag)
           text == [kind |-> "text", of |-> Tag]
<1>1. /\ heap["hash"].status \in {"null", "live", "callers"} /\ heap["out"].content = Tag
      /\ call.api = "raw" => heap["hash"].status = "callers"
      /\ call.api = "encoded" => heap["hash"].status = "null" /\ heap["encoded"].status = "callers"
      /\ "hash" \in Cell /\ "encoded" \in Cell /\ IsHeap(heap)
  BY DEF Inv, PcInv, BufferInv, ContentInv, Status, Content, Verifies, Call, Api, Cell
<1>2. /\ IsHeap(raw) /\ \A d \in Cell : d # "hash" => raw[d] = heap[d]
      /\ raw["hash"].status = heap["hash"].status
      /\ raw["hash"].content = IF heap["hash"].status = "null" THEN heap["hash"].content ELSE Tag
  <2>1. CASE heap["hash"].status = "null"
    BY <1>1, <2>1
  <2>2. CASE heap["hash"].status \in {"live", "callers"}
    <3> DEFINE put == Put(heap, "hash", Tag)
    <3>1. /\ IsHeap(put) /\ \A d \in Cell : d # "hash" => put[d] = heap[d]
          /\ put["hash"] = [status |-> heap["hash"].status, content |-> Tag]
      BY <1>1, <2>2, PutFacts
    <3>2. raw = put
      BY <2>2
    <3>. HIDE DEF put, raw
    <3>. QED
      BY <2>2, <3>1, <3>2
  <2>. QED
    BY <1>1, <2>1, <2>2
<1>. HIDE DEF raw, text
<1>3. HashResults = IF ~Encodes THEN raw
                    ELSE IF encode_string = "OK" THEN Put(raw, "encoded", text)
                    ELSE clear_internal_memory(raw, "encoded")
  BY <1>1 DEF HashResults, raw, text
<1>4. CASE ~Encodes
  BY <1>1, <1>2, <1>3, <1>4
<1>5. CASE Encodes /\ encode_string = "OK"
  <2> DEFINE put == Put(raw, "encoded", text)
  <2>1. call.api = "encoded" /\ raw["encoded"].status = "callers"
    BY <1>1, <1>2, <1>5 DEF Encodes
  <2>2. /\ IsHeap(put) /\ \A d \in Cell : d # "encoded" => put[d] = raw[d]
        /\ put["encoded"] = [status |-> "callers", content |-> text]
    BY <1>1, <1>2, <2>1, PutFacts
  <2>3. HashResults = put
    BY <1>3, <1>5
  <2>. HIDE DEF put
  <2>4. put["hash"] = raw["hash"] /\ raw["hash"].content = heap["hash"].content
    BY <1>1, <1>2, <2>1, <2>2
  <2>5. \A d \in Cell : HashResults[d].status = heap[d].status
    BY <1>1, <1>2, <2>1, <2>2, <2>3, <2>4
  <2>. QED
    BY <1>1, <1>2, <1>5, <2>1, <2>2, <2>3, <2>4, <2>5 DEF text
<1>6. CASE Encodes /\ encode_string # "OK"
  <2> DEFINE put == clear_internal_memory(raw, "encoded")
  <2>1. call.api = "encoded" /\ raw["encoded"].status = "callers"
    BY <1>1, <1>2, <1>6 DEF Encodes
  <2>2. /\ IsHeap(put) /\ \A d \in Cell : d # "encoded" => put[d] = raw[d]
        /\ put["encoded"] = [status |-> "callers", content |-> Zero]
    BY <1>1, <1>2, <2>1, ClearFacts
  <2>3. HashResults = put
    BY <1>3, <1>6
  <2>. HIDE DEF put
  <2>4. put["hash"] = raw["hash"] /\ raw["hash"].content = heap["hash"].content
    BY <1>1, <1>2, <2>1, <2>2
  <2>5. \A d \in Cell : HashResults[d].status = heap[d].status
    BY <1>1, <1>2, <2>1, <2>2, <2>3, <2>4
  <2>. QED
    BY <1>1, <1>2, <1>6, <2>1, <2>2, <2>3, <2>4, <2>5
<1>. QED
  BY <1>4, <1>5, <1>6

LEMMA HashEndStep == Inv /\ HashEnd => Inv'
<1>. SUFFICES ASSUME Inv, HashEnd PROVE Inv'
  OBVIOUS
<1>1. /\ pc = "done" /\ pc' = After /\ ~Verifies /\ ptr = OutFirst /\ heap["out"].status = "live"
      /\ code' = IF code = "OK" /\ Encodes /\ encode_string # "OK" THEN "ENCODING_FAIL" ELSE code
  BY DEF HashEnd, Inv, PtrInv, BlockInv, Status, Verifies, Inside, Before, Late
<1>2. /\ IsHeap(heap') /\ heap'["out"] = [status |-> "freed", content |-> Zero]
      /\ \A d \in Cell : d # "out" => heap'[d].status = heap[d].status
      /\ \A d \in Cell \ {"hash", "encoded", "out"} : heap'[d] = heap[d]
      /\ released' = released \cup {[api |-> call.api, cell |-> "out", content |-> Zero]}
      /\ code # "OK" => /\ heap'["hash"] = heap["hash"] /\ heap'["encoded"] = heap["encoded"]
      /\ code = "OK" =>
             /\ heap'["hash"].content \in {heap["hash"].content, Tag}
             /\ call.api = "raw" => heap'["hash"].content = Tag
             /\ call.api = "encoded" => heap'["hash"].content = heap["hash"].content
             /\ ~Encodes => heap'["encoded"].content = heap["encoded"].content
             /\ Encodes /\ encode_string = "OK" =>
                    heap'["encoded"].content = [kind |-> "text", of |-> Tag]
             /\ Encodes /\ encode_string # "OK" => heap'["encoded"].content = Zero
  <2> DEFINE results == IF code = "OK" THEN HashResults ELSE heap
             wiped == clear_internal_memory(results, "out")
  <2>1. {"hash", "encoded", "out"} \subseteq Cell /\ IsHeap(heap)
    BY DEF Cell, Inv
  <2>2. /\ IsHeap(results) /\ \A d \in Cell : results[d].status = heap[d].status
        /\ \A d \in Cell \ {"hash", "encoded"} : results[d] = heap[d]
    BY <1>1, <2>1, HashResultsFacts
  <2>3. heap' = Free(wiped, "out") /\ released' = released \cup Remains(wiped, {"out"})
    BY DEF HashEnd
  <2>4. results = IF code = "OK" THEN HashResults ELSE heap
    OBVIOUS
  <2>. HIDE DEF results
  <2>5. results["out"].status = "live"
    BY <1>1, <2>1, <2>2
  <2>6. /\ IsHeap(wiped) /\ wiped["out"] = [status |-> "live", content |-> Zero]
        /\ \A d \in Cell : d # "out" => wiped[d] = results[d]
    BY <2>1, <2>2, <2>5, ClearFacts
  <2>. HIDE DEF wiped
  <2>7. Remains(wiped, {"out"}) = {[api |-> call.api, cell |-> "out", content |-> Zero]}
    BY <2>6 DEF Remains
  <2>8. /\ IsHeap(heap') /\ heap'["out"] = [status |-> "freed", content |-> Zero]
        /\ \A d \in Cell : d # "out" => heap'[d] = wiped[d]
    BY <2>1, <2>3, <2>6, FreeFacts
  <2>9. \A d \in Cell : d # "out" => heap'[d] = results[d]
    BY <2>6, <2>8
  <2>a. code = "OK" =>
             /\ results["hash"].content \in {heap["hash"].content, Tag}
             /\ call.api = "raw" => results["hash"].content = Tag
             /\ call.api = "encoded" => results["hash"].content = heap["hash"].content
             /\ ~Encodes => results["encoded"].content = heap["encoded"].content
             /\ Encodes /\ encode_string = "OK" =>
                    results["encoded"].content = [kind |-> "text", of |-> Tag]
             /\ Encodes /\ encode_string # "OK" => results["encoded"].content = Zero
    BY <1>1, <2>4, HashResultsFacts
  <2>b. heap'["hash"] = results["hash"] /\ heap'["encoded"] = results["encoded"]
    BY <2>1, <2>9
  <2>c. /\ \A d \in Cell : d # "out" => heap'[d].status = heap[d].status
        /\ \A d \in Cell \ {"hash", "encoded", "out"} : heap'[d] = heap[d]
    BY <2>2, <2>9
  <2>d. code # "OK" => heap'["hash"] = heap["hash"] /\ heap'["encoded"] = heap["encoded"]
    BY <2>4, <2>b
  <2>. QED
    BY <2>3, <2>7, <2>8, <2>a, <2>b, <2>c, <2>d
<1>3. /\ UNCHANGED <<call, ctx, ptr>> /\ Tag' = Tag /\ TheInstance' = TheInstance
      /\ After' = After /\ After \in {"answer", "return"} /\ Encodes' = Encodes
      /\ call.api # "ffi" => After = "return"
      /\ call.api = "ffi" => After = "answer"
  BY Unchanged DEF HashEnd, After, Encodes
<1>4. PcInv' /\ LayoutInv' /\ PtrInv'
  BY <1>1, <1>2, <1>3 DEF Inv, PcInv, LayoutInv, PtrInv, Before, Inside, Late, Verifies,
     OutFirst, FieldFirst, Swapped, After
<1>5. BufferInv'
  BY <1>1, <1>2, <1>3 DEF Inv, BufferInv, PcInv, Status, Cell, Before, Inside, Late, Verifies,
     OutFirst, FieldFirst, Swapped, After
<1>6. BlockInv'
  BY <1>1, <1>2, <1>3 DEF Inv, BlockInv, PcInv, PtrInv, Status, Cell, Before, Inside, Late,
     Verifies, OutFirst, FieldFirst, Swapped, After
<1>b. CodeInv'
  BY <1>1, <1>2, <1>3 DEF Inv, CodeInv, BlockInv, PcInv, Status, Cell, Before, Inside, Late,
     Verifies, OutFirst, FieldFirst, Swapped, After
<1>7. ContentInv'
  BY <1>1, <1>2, <1>3 DEF Inv, ContentInv, CodeInv, PcInv, PtrInv, Content, Cell, Before,
     Inside, Late, Verifies, OutFirst, FieldFirst, Swapped
<1>8. AllOrNothing' /\ CorrectVerdict' /\ ClearedBeforeRelease'
  <2>1. call.api \in {"raw", "encoded"} => heap["hash"].content = Junk /\ heap["encoded"].content = Junk
    BY <1>1 DEF Inv, ContentInv, Content
  <2>2. ASSUME call.api = "raw" PROVE AllOrNothing'
    <3>1. ~Encodes
      BY <2>2 DEF Encodes
    <3>2. code' = code
      BY <1>1, <3>1
    <3>3. heap'["hash"].content = IF code = "OK" THEN Tag ELSE Junk
      BY <1>2, <2>1, <2>2
    <3>4. heap'["encoded"].content = Junk
      BY <1>2, <2>1, <2>2, <3>1
    <3>. QED
      BY <1>3, <2>2, <3>1, <3>2, <3>3, <3>4 DEF AllOrNothing, Encodes
  <2>3. ASSUME call.api = "encoded" PROVE AllOrNothing'
    <3>1. heap'["hash"].content = Junk
      BY <1>2, <2>1, <2>3
    <3>2. code # "OK" => code' # "OK" /\ heap'["encoded"].content = Junk
      BY <1>1, <1>2, <2>1, <2>3
    <3>3. code = "OK" /\ ~Encodes => heap'["encoded"].content = Junk
      BY <1>2, <2>1, <2>3
    <3>4. code = "OK" /\ Encodes /\ encode_string = "OK" =>
              code' = "OK" /\ heap'["encoded"].content = [kind |-> "text", of |-> Tag]
      BY <1>1, <1>2
    <3>5. code = "OK" /\ Encodes /\ encode_string # "OK" =>
              code' # "OK" /\ heap'["encoded"].content = Zero
      BY <1>1, <1>2
    <3>6. IF code' = "OK" /\ Encodes
          THEN heap'["encoded"].content = [kind |-> "text", of |-> Tag]
          ELSE heap'["encoded"].content \in {Junk, Zero}
      BY <3>2, <3>3, <3>4, <3>5
    <3>. QED
      BY <1>3, <2>3, <3>1, <3>6 DEF AllOrNothing, Encodes
  <2>4. AllOrNothing'
    BY <1>3, <2>2, <2>3 DEF AllOrNothing
  <2>5. CorrectVerdict' /\ ClearedBeforeRelease'
    BY <1>1, <1>2, <1>3 DEF Inv, CorrectVerdict, ClearedBeforeRelease, Verifies
  <2>. QED
    BY <2>4, <2>5
<1>9. KindInv'
  <2>1. code' \in Codes
    BY <1>1 DEF Inv, KindInv, Codes
  <2>2. /\ Zero.kind \in Kinds /\ Tag.kind \in Kinds /\ [kind |-> "text", of |-> Tag].kind \in Kinds
        /\ "out" \in Cell /\ call.api \in Api
    BY KindFacts DEF Cell, Inv, PcInv, Call
  <2>3. heap'["out"].content.kind \in Kinds
    BY <1>2, <2>2
  <2>4. \A d \in Cell : heap[d].content.kind \in Kinds
    BY DEF Inv, KindInv, Content
  <2>5. "hash" \in Cell /\ "encoded" \in Cell
    BY DEF Cell
  <2>6. heap'["hash"].content.kind \in Kinds
    BY <1>2, <2>2, <2>4, <2>5
  <2>7. heap'["encoded"].content.kind \in Kinds
    BY <1>2, <2>2, <2>4, <2>5
  <2>8. \A d \in Cell : heap'[d].content.kind \in Kinds
    BY <1>2, <2>3, <2>4, <2>6, <2>7
  <2>9. \A x \in released' \ released : x.api \in Api /\ x.cell \in Cell /\ x.content.kind \in Kinds
    BY <1>2, <2>2
  <2>. QED
    BY <2>1, <2>8, <2>9, KindsKept DEF Inv
<1>. QED
  BY <1>2, <1>4, <1>5, <1>6, <1>b, <1>7, <1>8, <1>9 DEF Inv

LEMMA FfiAnswerStep == Inv /\ FfiAnswer => Inv'
<1>. SUFFICES ASSUME Inv, FfiAnswer PROVE Inv'
  OBVIOUS
<1>1. /\ pc = "answer" /\ pc' \in {"return", "crashed"} /\ call.api = "ffi" /\ ~Verifies
      /\ call.platform = "ios" => heap["hash"].status \in {"null", "live"}
      /\ call.platform # "ios" => heap["hash"].status = "callers"
      /\ heap["text"].status = "null"
  BY DEF FfiAnswer, Inv, PcInv, BufferInv, Verifies, Status, Call
<1>2. /\ IsHeap(heap') /\ heap'["text"].status \in {"null", "live"}
      /\ pc' = "crashed" => heap' = heap
      /\ pc' = "return" /\ call.platform = "ios" => heap'["hash"].status \in {"null", "freed"}
      /\ call.platform # "ios" => heap'["hash"] = heap["hash"]
      /\ heap'["hash"].content = heap["hash"].content
      /\ heap'["text"].content \in {heap["text"].content, heap["hash"].content}
      /\ \A d \in Cell \ {"hash", "text"} : heap'[d] = heap[d]
      /\ \A x \in released' \ released :
             x.api = "ffi" /\ x.cell = "hash" /\ x.content = heap["hash"].content
  <2> DEFINE freed == IF call.platform = "ios" THEN Free(heap, "hash") ELSE heap
             fresh == [freed EXCEPT !["text"] = Fresh]
             put == Put(fresh, "text", heap["hash"].content)
  <2>1. "hash" \in Cell /\ "text" \in Cell /\ IsHeap(heap)
    BY DEF Cell, Inv
  <2>2. /\ IsHeap(freed) /\ freed["hash"].content = heap["hash"].content
        /\ call.platform = "ios" => freed["hash"].status \in {"null", "freed"}
        /\ call.platform # "ios" => freed["hash"] = heap["hash"]
        /\ \A d \in Cell : d # "hash" => freed[d] = heap[d]
    <3>1. CASE call.platform = "ios"
      BY <1>1, <2>1, <3>1, ReleaseFacts
    <3>2. CASE call.platform # "ios"
      BY <2>1, <3>2
    <3>. QED
      BY <3>1, <3>2
  <2>3. \/ heap' = freed /\ pc' = "return"
        \/ heap' = heap /\ pc' = "crashed"
        \/ heap' = put /\ pc' = "return"
    BY MallocFacts DEF FfiAnswer
  <2>4. released' \in {released, released \cup Remains(heap, {"hash"})}
    BY DEF FfiAnswer
  <2>5. \A x \in released' \ released :
             x.api = "ffi" /\ x.cell = "hash" /\ x.content = heap["hash"].content
    BY <1>1, <2>4 DEF Remains
  <2>. HIDE DEF freed
  <2>6. /\ IsHeap(fresh) /\ fresh["text"] = Fresh
        /\ \A d \in Cell : d # "text" => fresh[d] = freed[d]
    BY <2>1, <2>2 DEF IsHeap, Fresh
  <2>. HIDE DEF fresh
  <2>7. fresh["text"].status = "live"
    BY <2>6, BlockFacts
  <2>8. /\ IsHeap(put) /\ put["text"] = [status |-> "live", content |-> heap["hash"].content]
        /\ \A d \in Cell : d # "text" => put[d] = fresh[d]
    BY <2>1, <2>6, <2>7, PutFacts
  <2>. HIDE DEF put
  <2>9. CASE heap' = freed /\ pc' = "return"
    BY <1>1, <2>1, <2>2, <2>5, <2>9
  <2>a. CASE heap' = heap /\ pc' = "crashed"
    BY <1>1, <2>1, <2>5, <2>a
  <2>b. CASE heap' = put /\ pc' = "return"
    <3>1. put["hash"] = freed["hash"] /\ \A d \in Cell \ {"hash", "text"} : put[d] = heap[d]
      BY <2>1, <2>2, <2>6, <2>8
    <3>2. put["text"].status = "live" /\ put["text"].content = heap["hash"].content
      BY <2>8
    <3>. QED
      BY <2>2, <2>5, <2>8, <2>b, <3>1, <3>2
  <2>. QED
    BY <2>3, <2>9, <2>a, <2>b
<1>3. UNCHANGED <<call, ctx, ptr, code>> /\ Tag' = Tag /\ TheInstance' = TheInstance
  BY Unchanged DEF FfiAnswer
<1>4. PcInv' /\ LayoutInv' /\ PtrInv'
  BY <1>1, <1>2, <1>3 DEF Inv, PcInv, LayoutInv, PtrInv, Before, Inside, Late, Verifies,
     OutFirst, FieldFirst, Swapped
<1>5. BufferInv'
  BY <1>1, <1>2, <1>3 DEF Inv, BufferInv, PcInv, Status, Cell, Before, Inside, Late, Verifies,
     OutFirst, FieldFirst, Swapped
<1>6. BlockInv'
  <2>1. /\ heap'["out"] = heap["out"] /\ heap'["memory"] = heap["memory"]
        /\ heap'["salt"] = heap["salt"] /\ heap'["field"] = heap["field"]
    BY <1>2 DEF Cell
  <2>. QED
    BY <1>1, <1>3, <2>1 DEF Inv, BlockInv, Status, Before, Inside, Late, Verifies
<1>b. CodeInv'
  BY <1>1, <1>2, <1>3 DEF Inv, CodeInv, BlockInv, PcInv, Status, Cell, Before, Inside, Late,
     Verifies, OutFirst, FieldFirst, Swapped
<1>7. ContentInv'
  BY <1>1, <1>2, <1>3 DEF Inv, ContentInv, CodeInv, PcInv, PtrInv, Content, Cell, Before,
     Inside, Late, Verifies, OutFirst, FieldFirst, Swapped
<1>8. AllOrNothing' /\ CorrectVerdict' /\ ClearedBeforeRelease'
  BY <1>1, <1>2, <1>3 DEF Inv, AllOrNothing, CorrectVerdict, ClearedBeforeRelease
<1>9. KindInv'
  <2>1. "hash" \in Cell /\ "text" \in Cell /\ "ffi" \in Api
    BY DEF Cell, Api
  <2>2. \A d \in Cell : heap[d].content.kind \in Kinds
    BY DEF Inv, KindInv, Content
  <2>3. heap'["hash"].content.kind \in Kinds /\ heap'["text"].content.kind \in Kinds
    BY <1>2, <2>1, <2>2
  <2>4. \A d \in Cell : heap'[d].content.kind \in Kinds
    BY <1>2, <2>2, <2>3
  <2>5. \A x \in released' \ released : x.api \in Api /\ x.cell \in Cell /\ x.content.kind \in Kinds
    BY <1>2, <2>1, <2>2
  <2>. QED
    BY <1>3, <2>4, <2>5, KindsKept DEF Inv, KindInv
<1>. QED
  BY <1>2, <1>4, <1>5, <1>6, <1>b, <1>7, <1>8, <1>9 DEF Inv

\* Under the invariant no block is misused.
LEMMA StatusFacts ==
    ASSUME Inv
    PROVE  \A cell \in Cell : heap[cell].status \in {"null", "live", "callers", "freed"}
<1>1. /\ heap["hash"].status \in {"null", "live", "callers", "freed"}
      /\ heap["encoded"].status \in {"null", "callers"} /\ heap["text"].status \in {"null", "live"}
  BY DEF Inv, PcInv, BufferInv, Status, Call, Api
<1>2. /\ heap["out"].status \in {"null", "live", "freed"}
      /\ heap["memory"].status \in {"null", "live", "freed"}
  BY DEF Inv, PcInv, PtrInv, BlockInv, Status, Verifies, Before, Inside, Late, OutFirst,
     FieldFirst, Swapped
<1>3. \A cell \in {"salt", "field"} : heap[cell].status \in {"null", "live", "freed"}
  BY DEF Inv, PcInv, BlockInv, Status, Verifies, Before, Inside, Late
<1>. QED
  BY <1>1, <1>2, <1>3 DEF Cell

LEMMA InitInv == Init => Inv
<1>. SUFFICES ASSUME Init PROVE Inv
  OBVIOUS
<1>1. /\ call \in Call /\ ctx \in Context /\ ptr = OutFirst /\ code = "OK" /\ released = {}
      /\ pc = CASE call.api = "ffi" -> IF call.platform = "ios" THEN "ffi" ELSE "ffi macos"
               [] call.api \in {"raw", "encoded"} -> "hash"
               [] call.api = "verify" -> "verify"
  BY CallAssumption, ContextFacts DEF Init, OutFirst
<1>2. call.api \in {"ffi", "raw", "encoded", "verify"} /\ call.platform \in {"ios", "macos"}
  BY <1>1 DEF Call, Api
<1>3. /\ call.api = "ffi" /\ call.platform = "ios" => pc = "ffi"
      /\ call.api = "ffi" /\ call.platform = "macos" => pc = "ffi macos"
      /\ call.api \in {"raw", "encoded"} => pc = "hash"
      /\ call.api = "verify" => pc = "verify"
  BY <1>1
<1>4. /\ IsHeap(heap)
      /\ heap["hash"].status = IF call.api = "raw" THEN "callers" ELSE "null"
      /\ heap["encoded"].status = IF call.api = "encoded" THEN "callers" ELSE "null"
      /\ \A d \in Cell \ {"hash", "encoded"} : heap[d].status = "null"
      /\ \A d \in Cell : heap[d].content = Junk
  BY DEF Init, IsHeap, NoHeap, Null, Callers, Cell
<1>5. PcInv /\ LayoutInv
  BY <1>1, <1>2, <1>3 DEF PcInv, LayoutInv, Before, Inside, Late, Verifies
<1>6. PtrInv
  BY <1>1, <1>2, <1>3 DEF PtrInv, Inside, Verifies, OutFirst, FieldFirst, Swapped
<1>7. BufferInv /\ BlockInv
  BY <1>2, <1>3, <1>4 DEF BufferInv, BlockInv, Status, Cell, Before, Inside, Late, Verifies
<1>8. CodeInv /\ ContentInv
  BY <1>1, <1>2, <1>3, <1>4 DEF CodeInv, ContentInv, Status, Content, Cell, Before, Inside,
     Late, Verifies
<1>9. KindInv
  BY <1>1, <1>4, KindFacts DEF KindInv, Content, Codes
<1>a. AllOrNothing /\ CorrectVerdict /\ ClearedBeforeRelease
  BY <1>1, <1>2, <1>3 DEF AllOrNothing, CorrectVerdict, ClearedBeforeRelease
<1>. QED
  BY <1>4, <1>5, <1>6, <1>7, <1>8, <1>9, <1>a DEF Inv

LEMMA Stutter == Inv /\ UNCHANGED vars => Inv'
<1>. SUFFICES ASSUME Inv, UNCHANGED vars PROVE Inv'
  OBVIOUS
<1>1. UNCHANGED <<pc, call, ctx, ptr, heap, code, released>>
  BY DEF vars
<1>2. Tag' = Tag /\ TheInstance' = TheInstance /\ Encodes' = Encodes
  BY <1>1, Unchanged DEF Encodes
<1>3. PcInv' /\ LayoutInv' /\ PtrInv'
  BY <1>1 DEF Inv, PcInv, LayoutInv, PtrInv, Verifies
<1>4. IsHeap(heap)' /\ BufferInv' /\ BlockInv' /\ CodeInv'
  BY <1>1, <1>2 DEF Inv, BufferInv, BlockInv, CodeInv, Status, Verifies
<1>5. ContentInv' /\ KindInv'
  BY <1>1, <1>2 DEF Inv, ContentInv, KindInv, Content, Verifies
<1>6. AllOrNothing' /\ CorrectVerdict' /\ ClearedBeforeRelease'
  BY <1>1, <1>2 DEF Inv, AllOrNothing, CorrectVerdict, ClearedBeforeRelease
<1>. QED
  BY <1>1, <1>3, <1>4, <1>5, <1>6 DEF Inv

LEMMA InvHolds == Spec => []Inv
<1>1. Inv /\ [Next]_vars => Inv'
  BY FfiBufferStep, FfiArrayStep, FfiAnswerStep, HashRejectedStep, HashStartStep, HashEndStep,
     VerifyRejectedStep, VerifyStartStep, VerifyDecodeStep, VerifyAsideStep, VerifyEndStep,
     CtxRejectedStep, CtxAllocateStep, CtxFirstBlocksStep, CtxFillStep, CtxFillFailsStep,
     CtxFinalizeStep, Stutter DEF Next
<1>. QED
  BY InitInv, <1>1, PTL DEF Spec

----------------------------------------------------------------------------
(* The theorems.                                                           *)

\* Every call keeps its variables in their types, whatever its arguments.
THEOREM TypeCorrect == Spec => []TypeOK
<1>1. Inv => TypeOK
  <2>. SUFFICES ASSUME Inv PROVE TypeOK
    OBVIOUS
  <2>1. /\ call \in Call /\ ctx \in Context /\ code \in Codes
        /\ \A r \in released : r.api \in Api /\ r.cell \in Cell /\ r.content.kind \in Kinds
        /\ \A cell \in Cell : heap[cell].content.kind \in Kinds
    BY DEF Inv, PcInv, KindInv, Content
  <2>2. pc \in {"ffi", "ffi macos", "hash", "verify", "decode", "aside", "ctx", "first", "fill",
               "finalize", "done", "answer", "return", "crashed"}
    BY DEF Inv, PcInv, Before, Inside, Late
  <2>3. ptr \in [out : {"out", "field"}, desired : {"none", "field"}]
    BY DEF Inv, PtrInv, OutFirst, FieldFirst, Swapped
  <2>4. \A cell \in Cell : heap[cell].status \in {"null", "live", "callers", "freed"}
    BY StatusFacts
  <2>. QED
    BY <2>1, <2>2, <2>3, <2>4 DEF TypeOK
<1>. QED
  BY <1>1, InvHolds, PTL

\* No path of a call, with or without failures, frees a block twice or writes
\* one that is not allocated.
THEOREM NeverMisusedCorrect == Spec => []NeverMisused
<1>1. Inv => NeverMisused
  BY StatusFacts DEF NeverMisused
<1>. QED
  BY <1>1, InvHolds, PTL

\* The layout of the memory is sound in every call that reaches it, whatever the
\* word size and the limits: the products of core.c:461 and argon2.c:56-63 may
\* wrap, and the contexts for which that matters are rejected.
THEOREM SoundInstanceCorrect == Spec => []SoundInstance
<1>1. Inv => SoundInstance
  BY ValidatedLayout DEF Inv, PcInv, LayoutInv, SoundInstance, TheInstance
<1>. QED
  BY <1>1, InvHolds, PTL

\* The buffers of the caller hold a whole result or none.
THEOREM AllOrNothingCorrect == Spec => []AllOrNothing
  BY InvHolds, PTL DEF Inv

\* A verification accepts the right password alone.
THEOREM CorrectVerdictHolds == Spec => []CorrectVerdict
  BY InvHolds, PTL DEF Inv

\* The memory and the tag are cleared before they are freed.
THEOREM ClearedBeforeReleaseCorrect == Spec => []ClearedBeforeRelease
  BY InvHolds, PTL DEF Inv

\* Only a fill whose threads failed leaves a block behind.
THEOREM LeaksCorrect == Spec => []LeaksOnlyAfterFailedFill
<1>1. Inv => LeaksOnlyAfterFailedFill
  <2>. SUFFICES ASSUME Inv, pc = "return", NEW cell \in Cell \ {"text"}, heap[cell].status = "live"
                PROVE  /\ cell = "memory" /\ TheInstance.threads > 1
                       /\ code \in {"MEMORY_ALLOCATION_ERROR", "THREAD_FAIL"}
    BY DEF LeaksOnlyAfterFailedFill
  <2>1. /\ heap["hash"].status # "live" /\ heap["encoded"].status # "live"
        /\ heap["out"].status # "live" /\ heap["salt"].status # "live"
        /\ heap["field"].status # "live"
    BY DEF Inv, PcInv, BufferInv, BlockInv, Status, Late, Call, Api, Verifies
  <2>2. cell = "memory"
    BY <2>1 DEF Cell
  <2>. QED
    BY <2>2 DEF Inv, CodeInv, Late, Status
<1>. QED
  BY <1>1, InvHolds, PTL

----------------------------------------------------------------------------
(* What the bridge hands to Dart.                                          *)

\* The iOS copy takes every type; the macOS copy computes two.
Computes == call.platform = "ios" \/ call.type \in {Argon2_d, Argon2_i}

\* What is in hash1 when argon2_hash has returned.
Result == IF Computes /\ code = "OK" THEN Tag ELSE Junk

\* hp_argon2_hash answers with the tag if argon2_hash succeeded, and with what was
\* in the memory of hash1 if it failed or was not called (argon2_ffi.c:137-139).
BridgeAnswers ==
    pc = "return" /\ call.api = "ffi" /\ heap["text"].status # "null" =>
        heap["text"].content = Result

BridgeInv ==
    call.api = "ffi" =>
        /\ pc \in Before \cup Inside \cup {"done"} => Content("hash") = Junk
        /\ pc \in {"hash", "done"} \cup Inside => Computes
        /\ pc = "answer" /\ Status("hash") # "null" => Content("hash") = Result

\* Writing a block leaves another block as it was.
LEMMA PutElsewhere ==
    ASSUME NEW h, IsHeap(h), NEW cell \in Cell, NEW d \in Cell, d # cell, NEW x
    PROVE  IsHeap(Put(h, cell, x)) /\ Put(h, cell, x)[d] = h[d]
  BY DEF IsHeap, Put

\* argon2_hash has ended.
LEMMA HashEndBridge ==
    ASSUME Inv, BridgeInv, HashEnd, call.api = "ffi"
    PROVE  Status("hash")' # "null" => Content("hash")' = Result'
<1>1. /\ pc = "done" /\ ~Verifies /\ ~Encodes /\ Computes /\ IsHeap(heap)
      /\ code' = code /\ UNCHANGED <<call, ctx>> /\ Tag' = Tag /\ Computes' = Computes
      /\ heap["hash"].content = Junk /\ heap["hash"].status \in {"null", "live", "callers"}
      /\ heap["out"].status = "live" /\ (code = "OK" => heap["out"].content = Tag)
      /\ "hash" \in Cell /\ "out" \in Cell
  BY Unchanged DEF HashEnd, Inv, BridgeInv, BufferInv, PcInv, BlockInv, ContentInv, Call,
     Status, Content, Verifies, Encodes, Computes, Cell
<1> DEFINE results == IF code = "OK" THEN HashResults ELSE heap
           wiped == clear_internal_memory(results, "out")
<1>2. heap' = Free(wiped, "out")
  BY DEF HashEnd
<1>3. /\ IsHeap(results) /\ results["out"].status = "live"
      /\ results["hash"].status = heap["hash"].status
      /\ results["hash"].status # "null" => results["hash"].content = Result
  <2>1. CASE code # "OK"
    BY <1>1, <2>1 DEF Result
  <2>2. CASE code = "OK" /\ heap["hash"].status = "null"
    <3>1. HashResults = heap
      BY <1>1, <2>2 DEF HashResults
    <3>. QED
      BY <1>1, <2>2, <3>1
  <2>3. CASE code = "OK" /\ heap["hash"].status # "null"
    <3> DEFINE put == Put(heap, "hash", Tag)
    <3>1. HashResults = put
      BY <1>1, <2>3 DEF HashResults
    <3>2. /\ IsHeap(put) /\ put["out"] = heap["out"]
          /\ put["hash"] = [status |-> heap["hash"].status, content |-> Tag]
      BY <1>1, <2>3, PutFacts
    <3>3. results = put
      BY <2>3, <3>1
    <3>4. Result = Tag
      BY <1>1, <2>3 DEF Result
    <3>. HIDE DEF put, results
    <3>. QED
      BY <1>1, <3>2, <3>3, <3>4
  <2>. QED
    BY <2>1, <2>2, <2>3
<1>. HIDE DEF results
<1>4. IsHeap(wiped) /\ wiped["out"].status = "live" /\ wiped["hash"] = results["hash"]
  <2>1. /\ IsHeap(wiped) /\ wiped["out"] = [status |-> "live", content |-> Zero]
        /\ \A d \in Cell : d # "out" => wiped[d] = results[d]
    BY <1>1, <1>3, ClearFacts
  <2>. QED
    BY <1>1, <2>1
<1>. HIDE DEF wiped
<1>5. heap'["hash"] = results["hash"]
  BY <1>1, <1>2, <1>4, FreeFacts
<1>. QED
  BY <1>1, <1>3, <1>5 DEF Status, Content, Result

LEMMA BridgeStep == Inv /\ Inv' /\ BridgeInv /\ [Next]_vars => BridgeInv'
<1>. SUFFICES ASSUME Inv, Inv', BridgeInv, [Next]_vars, call'.api = "ffi" PROVE BridgeInv'
  BY DEF BridgeInv
<1>1. /\ "hash" \in Cell /\ IsHeap(heap) /\ pc \in Before \cup Inside \cup {"done"} \cup Late
      /\ call \in Call
  BY DEF Cell, Inv, PcInv
<1>2. CASE FfiBuffer
  <2>1. pc' = "hash" /\ call'.platform = "ios" /\ heap'["hash"].content = Junk
    <3>1. pc' = "hash" /\ call'.platform = call.platform /\ call.platform = "ios"
      BY <1>1, <1>2 DEF FfiBuffer, Inv, PcInv, Call
    <3>2. PICK block \in Malloc("hash") : heap' = [heap EXCEPT !["hash"] = block]
      BY <1>2 DEF FfiBuffer
    <3>3. heap'["hash"] = block /\ block.content = Junk
      BY <1>1, <3>2, MallocFacts, BlockFacts DEF IsHeap
    <3>. QED
      BY <3>1, <3>3
  <2>. QED
    BY <2>1 DEF BridgeInv, Computes, Content, Before, Inside
<1>3. CASE FfiArray
  <2>1. /\ pc' = IF call.type \in {Argon2_d, Argon2_i} THEN "hash" ELSE "answer"
        /\ call' = call /\ call.platform = "macos" /\ heap'["hash"].content = Junk
    BY <1>1, <1>3, BlockFacts DEF FfiArray, Inv, PcInv, IsHeap
  <2>. QED
    BY <2>1 DEF BridgeInv, Computes, Content, Result, Before, Inside
<1>4. CASE FfiAnswer
  <2>1. pc' \in {"return", "crashed"}
    BY <1>4 DEF FfiAnswer
  <2>. QED
    BY <2>1 DEF BridgeInv, Before, Inside
<1>5. CASE HashEnd
  <2>1. call.api = "ffi" /\ pc' = "answer"
    BY <1>5 DEF HashEnd, After
  <2>. QED
    BY <1>5, <2>1, HashEndBridge DEF BridgeInv, Before, Inside
<1>. DEFINE onward == /\ call' = call /\ heap'["hash"] = heap["hash"]
                      /\ pc' \in {"ctx", "first", "fill", "finalize", "done"}
                      /\ pc \in {"hash", "done"} \cup Inside
<1>7. CASE onward
  BY <1>7 DEF BridgeInv, Content, Before, Computes
<1>8. CASE HashRejected \/ (HashStart /\ pc' # "ctx")
  <2>1. /\ call' = call /\ heap'["hash"] = heap["hash"] /\ code' # "OK" /\ pc' = "answer"
        /\ pc = "hash" /\ call.api = "ffi"
    BY <1>1, <1>8 DEF HashRejected, HashStart, After, Cell, IsHeap
  <2>. QED
    BY <2>1 DEF BridgeInv, Result, Content, Before, Inside
<1>9. CASE \/ (HashStart /\ pc' = "ctx") \/ CtxRejected \/ CtxAllocate \/ CtxFirstBlocks
           \/ CtxFill \/ CtxFillFails \/ CtxFinalize
  <2>1. /\ call' = call /\ pc' \in {"ctx", "first", "fill", "finalize", "done"}
        /\ pc \in {"hash", "done"} \cup Inside
    BY <1>9 DEF HashStart, CtxRejected, CtxAllocate, CtxFirstBlocks, CtxFill, CtxFillFails,
       CtxFinalize, Inside
  <2>2. heap'["hash"] = heap["hash"]
    <3>1. CASE \/ HashStart \/ CtxRejected \/ CtxAllocate
      BY <1>1, <3>1 DEF HashStart, CtxRejected, CtxAllocate, IsHeap, Cell
    <3>2. CASE CtxFirstBlocks \/ CtxFill \/ CtxFillFails
      <4>1. PICK x : heap' = Put(heap, "memory", x)
        BY <3>2 DEF CtxFirstBlocks, CtxFill, CtxFillFails
      <4>2. "memory" \in Cell /\ "hash" # "memory"
        BY DEF Cell
      <4>3. IsHeap(heap) /\ "hash" \in Cell
        BY <1>1
      <4>4. Put(heap, "memory", x)["hash"] = heap["hash"]
        BY ONLY <4>2, <4>3, PutElsewhere
      <4>. QED
        BY <4>1, <4>4
    <3>3. CASE CtxFinalize
      <4> DEFINE tagged == Put(heap, ptr.out, Tag)
                 wiped == clear_internal_memory(tagged, "memory")
      <4>1. ptr.out = "out" /\ "out" \in Cell /\ "memory" \in Cell
        BY <3>3 DEF CtxFinalize, Inv, PtrInv, Inside, OutFirst, Swapped, Cell
      <4>2. IsHeap(tagged) /\ tagged["hash"] = heap["hash"]
        <5>1. IsHeap(heap) /\ "hash" \in Cell /\ "out" \in Cell /\ "hash" # "out"
          BY <1>1, <4>1
        <5>2. IsHeap(Put(heap, "out", Tag)) /\ Put(heap, "out", Tag)["hash"] = heap["hash"]
          BY ONLY <5>1, PutElsewhere
        <5>. QED
          BY <4>1, <5>2
      <4>3. heap' = Free(wiped, "memory")
        BY <3>3 DEF CtxFinalize
      <4>. HIDE DEF tagged
      <4>4. IsHeap(wiped) /\ wiped["hash"] = tagged["hash"]
        BY <1>1, <4>1, <4>2, ClearFacts
      <4>. HIDE DEF wiped
      <4>. QED
        BY <1>1, <4>1, <4>2, <4>3, <4>4, FreeFacts
    <3>. QED
      BY <1>9, <3>1, <3>2, <3>3
  <2>. QED
    BY <1>7, <2>1, <2>2
<1>10. CASE VerifyRejected \/ VerifyStart \/ VerifyDecode \/ VerifyAside \/ VerifyEnd
  <2>1. call' = call /\ Verifies
    BY <1>10 DEF VerifyRejected, VerifyStart, VerifyDecode, VerifyAside, VerifyEnd, Inv, PcInv,
       Verifies
  <2>. QED
    BY <2>1 DEF Verifies
<1>11. CASE UNCHANGED vars
  <2>1. UNCHANGED <<pc, call, ctx, heap, code>> /\ Tag' = Tag
    BY <1>11, Unchanged DEF vars
  <2>. QED
    BY <2>1 DEF BridgeInv, Content, Status, Computes, Result
<1>. QED
  BY <1>2, <1>3, <1>4, <1>5, <1>8, <1>9, <1>10, <1>11 DEF Next

\* The text is written once, on the way out.
LEMMA AnswerStep == Inv /\ BridgeInv /\ BridgeAnswers /\ [Next]_vars => BridgeAnswers'
<1>. SUFFICES ASSUME Inv, BridgeInv, BridgeAnswers, [Next]_vars,
                     pc' = "return", call'.api = "ffi", heap'["text"].status # "null"
              PROVE  heap'["text"].content = Result'
  BY DEF BridgeAnswers
<1>1. /\ "hash" \in Cell /\ "text" \in Cell /\ IsHeap(heap)
      /\ pc # "return" => heap["text"].status = "null"
  BY DEF Cell, Inv, BufferInv, Status
<1>2. CASE FfiAnswer
  <2> DEFINE freed == IF call.platform = "ios" THEN Free(heap, "hash") ELSE heap
             fresh == [freed EXCEPT !["text"] = Fresh]
             put == Put(fresh, "text", heap["hash"].content)
  <2>1. /\ pc = "answer" /\ UNCHANGED <<call, ctx, code>> /\ Tag' = Tag /\ Result' = Result
        /\ heap["text"].status = "null" /\ call.api = "ffi"
    BY <1>1, <1>2, Unchanged DEF FfiAnswer, Result, Computes
  <2>2. /\ IsHeap(freed) /\ freed["text"] = heap["text"]
    BY <1>1, FreeFacts
  <2>3. \/ heap' = freed
        \/ heap' = put /\ heap["hash"].status # "null"
    BY <1>2, MallocFacts DEF FfiAnswer
  <2>. HIDE DEF freed
  <2>4. heap' = put /\ heap["hash"].status # "null"
    BY <2>1, <2>2, <2>3
  <2>5. IsHeap(fresh) /\ fresh["text"] = Fresh
    BY <1>1, <2>2 DEF IsHeap, Fresh
  <2>. HIDE DEF fresh
  <2>6. put["text"].content = heap["hash"].content
    <3>1. fresh["text"].status = "live"
      BY <2>5, BlockFacts
    <3>2. put["text"] = [status |-> "live", content |-> heap["hash"].content]
      BY <1>1, <2>5, <3>1, PutFacts
    <3>. QED
      BY <3>2
  <2>. HIDE DEF put
  <2>. QED
    BY <2>1, <2>4, <2>6 DEF BridgeInv, Status, Content
<1>3. CASE UNCHANGED vars
  <2>1. UNCHANGED <<pc, call, ctx, heap, code>> /\ Tag' = Tag
    BY <1>3, Unchanged DEF vars
  <2>. QED
    BY <2>1 DEF BridgeAnswers, Computes, Result
<1>4. CASE Next /\ ~FfiAnswer
  <2>1. call.api # "ffi"
    BY <1>4 DEF Next, FfiBuffer, FfiArray, HashRejected, HashStart, HashEnd, VerifyRejected,
       VerifyStart, VerifyDecode, VerifyAside, VerifyEnd, CtxRejected, CtxAllocate,
       CtxFirstBlocks, CtxFill, CtxFillFails, CtxFinalize, After, Inv, PcInv, Verifies
  <2>2. call' = call \/ FfiBuffer
    BY <1>4 DEF Next, FfiArray, HashRejected, HashStart, HashEnd, VerifyRejected,
       VerifyStart, VerifyDecode, VerifyAside, VerifyEnd, CtxRejected, CtxAllocate,
       CtxFirstBlocks, CtxFill, CtxFillFails, CtxFinalize
  <2>. QED
    BY <2>1, <2>2 DEF FfiBuffer
<1>. QED
  BY <1>2, <1>3, <1>4

\* What the bridge returns is the tag if argon2_hash succeeded and memory that nobody
\* wrote otherwise: the counterexamples of ResultIsTag, an Argon2id on macOS and a
\* hash that failed, are all there are.
THEOREM BridgeCorrect == Spec => []BridgeAnswers
<1>1. Init => BridgeInv /\ BridgeAnswers
  <2>. SUFFICES ASSUME Init, call.api = "ffi"
                PROVE  heap["hash"].content = Junk /\ pc \in {"ffi", "ffi macos"}
    BY DEF BridgeInv, BridgeAnswers, Content, Inside
  <2>1. call.platform \in {"ios", "macos"}
    BY CallAssumption DEF Init, Call
  <2>. QED
    BY <2>1, BlockFacts DEF Init, NoHeap, Cell
<1>. QED
  BY <1>1, BridgeStep, AnswerStep, InvHolds, PTL DEF Spec
=============================================================================
