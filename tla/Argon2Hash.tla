----------------------------- MODULE Argon2Hash -----------------------------
(***************************************************************************)
(* A call of the Argon2 library from its entry to its return: the bridge   *)
(* hp_argon2_hash of argon2_ffi.c, the functions argon2_hash and           *)
(* argon2_verify of argon2.c with their wrappers, and argon2_ctx under     *)
(* them. The state is the blocks the call allocates, what they hold, and   *)
(* what the freed ones held last. An allocation or the creation of a       *)
(* thread may fail wherever Failing says so.                               *)
(*                                                                         *)
(* What is hashed is symbolic: a tag is the record of what initial_hash    *)
(* feeds to Blake2b. Filling the memory is one step here (Argon2Fill).     *)
(***************************************************************************)
EXTENDS Argon2Context

CONSTANTS
    Password, Salt, \* the values of the two inputs
    Calls,          \* the calls explored
    Failing         \* the blocks whose malloc may fail, and "thread"

Api == {"ffi", "raw", "encoded", "verify"}

\* The arguments of a call: "stored" is the password in the string of a
\* verification, "string" what is wrong with it, and "room" what the caller has
\* for the string of a hash. The lengths are size_t.
Call ==
    [api : Api, platform : {"ios", "macos"}, type : Nat, pwd : Password, stored : Password,
     salt : Salt, pwdlen : Nat, saltlen : Nat, hashlen : Nat, m_cost : Uint32,
     t_cost : Uint32, lanes : Uint32, version : Uint32,
     string : {"null", "too long", "malformed", "trailing", "good"},
     room : {"enough", "short", "none"}]

ASSUME CallAssumption == Calls \subseteq Call /\ VERSION_NUMBER \in Uint32

Cell == {"hash", "encoded", "out", "memory", "salt", "field", "text"}

VARIABLES
    pc,
    call,           \* the arguments; the type may be changed by the bridge
    ctx,            \* the argon2_context
    ptr,            \* argon2_verify: ctx.out and desired_result
    heap,           \* Cell -> status and content of a block
    code,           \* the result so far
    released        \* what blocks held when they were freed

vars == <<pc, call, ctx, ptr, heap, code, released>>

----------------------------------------------------------------------------
(* Blocks and what they hold.                                              *)

Junk == [kind |-> "junk"]
Zero == [kind |-> "zero"]

Null == [status |-> "null", content |-> Junk]
Fresh == [status |-> "live", content |-> Junk]
Callers == [status |-> "callers", content |-> Junk]
NoHeap == [cell \in Cell |-> Null]

Malloc(cell) == IF cell \in Failing THEN {Fresh, Null} ELSE {Fresh}

Put(h, cell, content) ==
    [h EXCEPT ![cell] =
        IF @.status \in {"live", "callers"} THEN [@ EXCEPT !.content = content]
        ELSE [@ EXCEPT !.status = "misused"]]

\* FLAG_clear_internal_memory is 1; a null pointer is left alone.
clear_internal_memory(h, cell) ==
    IF h[cell].status = "null" THEN h ELSE Put(h, cell, Zero)

\* free() of a block, or of a null pointer.
Free(h, cell) ==
    [h EXCEPT ![cell].status =
        CASE @ = "live" -> "freed" [] @ = "null" -> "null" [] OTHER -> "misused"]

Remains(h, cells) ==
    {[api |-> call.api, cell |-> cell, content |-> h[cell].content] :
        cell \in {d \in cells : h[d].status = "live"}}

----------------------------------------------------------------------------
(* What is computed.                                                       *)

\* The lengths go before the bytes, so the record has what the stream has. No
\* caller in this library gives a secret or associated data.
initial_hash(c, type, pwd, salt) ==
    [lanes |-> c.lanes, outlen |-> c.outlen, m_cost |-> c.m_cost, t_cost |-> c.t_cost,
     version |-> c.version, type |-> type, pwdlen |-> c.pwdlen, pwd |-> pwd,
     saltlen |-> c.saltlen, salt |-> salt]

Inputs == initial_hash(ctx, call.type, call.pwd, call.salt)
Holding(kind) == [kind |-> kind, of |-> Inputs]
Tag == Holding("tag")

\* A mutant: the length is taken from a size_t that was not checked.
HashContextUncut(k) ==
    [out |-> TRUE, outlen |-> k.hashlen, pwd |-> k.pwd # "NULL",
     pwdlen |-> k.pwdlen, salt |-> TRUE, saltlen |-> k.saltlen,
     secret |-> FALSE, secretlen |-> 0, ad |-> FALSE, adlen |-> 0,
     t_cost |-> k.t_cost, m_cost |-> k.m_cost, lanes |-> k.lanes, threads |-> k.lanes,
     version |-> VERSION_NUMBER, allocate_cbk |-> FALSE, free_cbk |-> FALSE]

\* The context of argon2_hash: the lengths of the call, cut to 32 bits.
HashContext(k) ==
    [out |-> TRUE, outlen |-> k.hashlen % Word, pwd |-> k.pwd # "NULL",
     pwdlen |-> k.pwdlen % Word, salt |-> TRUE, saltlen |-> k.saltlen % Word,
     secret |-> FALSE, secretlen |-> 0, ad |-> FALSE, adlen |-> 0,
     t_cost |-> k.t_cost, m_cost |-> k.m_cost, lanes |-> k.lanes, threads |-> k.lanes,
     version |-> VERSION_NUMBER, allocate_cbk |-> FALSE, free_cbk |-> FALSE]

\* The context decode_string makes of a string (module Argon2Encoding).
DecodedContext(k) == [HashContext(k) EXCEPT !.version = k.version]

\* What the string of a verification holds in its last field.
Stored(k) ==
    LET c == DecodedContext(k)
    IN  [kind |-> "tag", of |-> initial_hash(c, k.type, k.stored, k.salt)]

HashSizeCheck(k) ==
    When(k.pwdlen > MAX_PWD_LENGTH, "PWD_TOO_LONG")
    ++ When(k.saltlen > MAX_SALT_LENGTH, "SALT_TOO_LONG")
    ++ When(k.hashlen > MAX_OUTLEN, "OUTPUT_TOO_LONG")
    ++ When(k.hashlen < MIN_OUTLEN, "OUTPUT_TOO_SHORT")

VerifySizeCheck(k) ==
    When(k.pwdlen > MAX_PWD_LENGTH, "PWD_TOO_LONG")
    ++ When(k.string \in {"null", "too long"}, "DECODING_FAIL")

decode_string(k) ==
    When(k.type \notin Type, "INCORRECT_TYPE")
    ++ When(k.string = "malformed", "DECODING_FAIL")
    ++ validate_inputs(DecodedContext(k))
    ++ When(k.string = "trailing", "DECODING_FAIL")

encode_string ==
    When(call.type \notin Type, "ENCODING_FAIL") ++ validate_inputs(ctx)
    ++ When(call.room = "short", "ENCODING_FAIL")

\* encoded && encodedlen
Encodes == call.api = "encoded" /\ call.room # "none"

----------------------------------------------------------------------------
(* hp_argon2_hash.                                                         *)

After == IF call.api = "ffi" THEN "answer" ELSE "return"

\* hash1 is allocated. The type is a byte; every value but 0 and 1 is Argon2id.
FfiBuffer ==
    /\ pc = "ffi"
    /\ \E block \in Malloc("hash") : heap' = [heap EXCEPT !["hash"] = block]
    /\ call' = [call EXCEPT !.type = IF @ \in {Argon2_d, Argon2_i} THEN @ ELSE Argon2_id]
    /\ pc' = "hash"
    /\ UNCHANGED <<ctx, ptr, code, released>>

\* The macOS copy: hash1 is an array of the stack, and the other types compute
\* nothing.
FfiArray ==
    /\ pc = "ffi macos"
    /\ heap' = [heap EXCEPT !["hash"] = Callers]
    /\ pc' = IF call.type \in {Argon2_d, Argon2_i} THEN "hash" ELSE "answer"
    /\ UNCHANGED <<call, ctx, ptr, code, released>>

\* b64_encode and the return. What argon2_hash returned is not looked at, and
\* neither is malloc's result: a null pointer is written through.
FfiAnswer ==
    /\ pc = "answer"
    /\ LET nothing == heap["hash"].status = "null" \/ call.hashlen = 0
           freed == IF call.platform = "ios" THEN Free(heap, "hash") ELSE heap
       IN  \/ /\ nothing
              /\ heap' = freed
              /\ pc' = "return"
           \/ /\ ~nothing
              /\ \E block \in Malloc("text") :
                     IF block = Null THEN pc' = "crashed" /\ UNCHANGED heap
                     ELSE /\ heap' = Put([freed EXCEPT !["text"] = block], "text", heap["hash"].content)
                          /\ pc' = "return"
    /\ released' = IF pc' = "return" THEN released \cup Remains(heap, {"hash"}) ELSE released
    /\ UNCHANGED <<call, ctx, ptr, code>>

----------------------------------------------------------------------------
(* argon2_hash: the part before argon2_ctx and the part after it.          *)

HashRejected ==
    /\ pc = "hash" /\ HashSizeCheck(call) # "OK"
    /\ code' = HashSizeCheck(call)
    /\ pc' = After
    /\ UNCHANGED <<call, ctx, ptr, heap, released>>

HashStart ==
    /\ pc = "hash" /\ HashSizeCheck(call) = "OK"
    /\ \E block \in Malloc("out") :
           /\ heap' = [heap EXCEPT !["out"] = block]
           /\ IF block = Null
              THEN code' = "MEMORY_ALLOCATION_ERROR" /\ pc' = After /\ UNCHANGED ctx
              ELSE ctx' = HashContext(call) /\ pc' = "ctx" /\ UNCHANGED code
    /\ ptr' = [ptr EXCEPT !.out = "out"]
    /\ UNCHANGED <<call, released>>

\* A mutant: the string stays in a buffer that is too short for it.
HashResultsUnwiped ==
    LET raw == IF heap["hash"].status = "null" THEN heap
               ELSE Put(heap, "hash", heap["out"].content)
    IN  IF ~Encodes THEN raw
        ELSE Put(raw, "encoded", [kind |-> "text", of |-> heap["out"].content])

\* Written to the caller's buffers only after argon2_ctx succeeded; wiped if the
\* string does not fit.
HashResults ==
    LET raw == IF heap["hash"].status = "null" THEN heap
               ELSE Put(heap, "hash", heap["out"].content)
    IN  IF ~Encodes THEN raw
        ELSE IF encode_string = "OK"
        THEN Put(raw, "encoded", [kind |-> "text", of |-> heap["out"].content])
        ELSE clear_internal_memory(raw, "encoded")

HashEnd ==
    /\ pc = "done" /\ call.api # "verify"
    /\ LET wiped == clear_internal_memory(IF code = "OK" THEN HashResults ELSE heap, "out")
       IN  /\ heap' = Free(wiped, "out")
           /\ released' = released \cup Remains(wiped, {"out"})
    /\ code' = IF code = "OK" /\ Encodes /\ encode_string # "OK"
               THEN "ENCODING_FAIL" ELSE code
    /\ pc' = After
    /\ UNCHANGED <<call, ctx, ptr>>

----------------------------------------------------------------------------
(* argon2_verify.                                                          *)

VerifyRejected ==
    /\ pc = "verify" /\ VerifySizeCheck(call) # "OK"
    /\ code' = VerifySizeCheck(call)
    /\ pc' = "return"
    /\ UNCHANGED <<call, ctx, ptr, heap, released>>

\* Buffers for the salt and the tag of the string; ctx.out is the second.
VerifyStart ==
    /\ pc = "verify" /\ VerifySizeCheck(call) = "OK"
    /\ \E salt \in Malloc("salt"), field \in Malloc("field") :
           /\ heap' = [heap EXCEPT !["salt"] = salt, !["field"] = field]
           /\ IF Null \in {salt, field}
              THEN code' = "MEMORY_ALLOCATION_ERROR" /\ pc' = "done"
              ELSE pc' = "decode" /\ UNCHANGED code
    /\ ptr' = [out |-> "field", desired |-> "none"]
    /\ UNCHANGED <<call, ctx, released>>

VerifyDecode ==
    /\ pc = "decode"
    /\ code' = decode_string(call)
    /\ pc' = IF code' = "OK" THEN "aside" ELSE "done"
    /\ ctx' = DecodedContext(call)
    /\ heap' = IF call.type \notin Type \/ call.string = "malformed" THEN heap
               ELSE Put(Put(heap, "salt", [kind |-> "salt", of |-> call.salt]), ptr.out, Stored(call))
    /\ UNCHANGED <<call, ptr, released>>

\* Mutants: ctx.out keeps the buffer of the string's tag; it gets a new buffer and
\* the old one is not remembered.
VerifySameBuffer ==
    /\ pc = "aside"
    /\ pc' = "ctx"
    /\ ptr' = [out |-> ptr.out, desired |-> ptr.out]
    /\ UNCHANGED <<call, ctx, heap, code, released>>
VerifyForget ==
    /\ pc = "aside"
    /\ \E block \in Malloc("out") :
           /\ heap' = [heap EXCEPT !["out"] = block]
           /\ code' = IF block = Null THEN "MEMORY_ALLOCATION_ERROR" ELSE code
    /\ pc' = "done"
    /\ ptr' = [ptr EXCEPT !.out = "out"]
    /\ UNCHANGED <<call, ctx, released>>

\* The desired result is set aside and ctx.out gets a new buffer.
VerifyAside ==
    /\ pc = "aside"
    /\ \E block \in Malloc("out") :
           /\ heap' = [heap EXCEPT !["out"] = block]
           /\ IF block = Null
              THEN code' = "MEMORY_ALLOCATION_ERROR" /\ pc' = "done"
              ELSE pc' = "ctx" /\ UNCHANGED code
    /\ ptr' = [out |-> "out", desired |-> ptr.out]
    /\ UNCHANGED <<call, ctx, released>>

argon2_compare == heap[ptr.desired].content # heap[ptr.out].content

\* What argon2_verify_ctx makes of the code argon2_ctx returned.
argon2_verify_ctx == IF code = "OK" /\ argon2_compare THEN "VERIFY_MISMATCH" ELSE code

\* The buffers are freed as they are.
VerifyEnd ==
    /\ pc = "done" /\ call.api = "verify"
    /\ code' = argon2_verify_ctx
    /\ LET freed == Free(Free(heap, "salt"), ptr.out)
       IN  /\ heap' = IF ptr.desired = "none" THEN freed ELSE Free(freed, ptr.desired)
           /\ released' = released \cup Remains(heap, {"salt", ptr.out, ptr.desired} \cap Cell)
    /\ pc' = "return"
    /\ UNCHANGED <<call, ctx, ptr>>

----------------------------------------------------------------------------
(* argon2_ctx.                                                             *)

ContextCheck == validate_inputs(ctx) ++ When(call.type \notin Type, "INCORRECT_TYPE")
TheInstance == Instance(ctx, call.type)

CtxRejected ==
    /\ pc = "ctx" /\ ContextCheck # "OK"
    /\ code' = ContextCheck
    /\ pc' = "done"
    /\ UNCHANGED <<call, ctx, ptr, heap, released>>

\* initialize: allocate_memory.
CtxAllocate ==
    /\ pc = "ctx" /\ ContextCheck = "OK"
    /\ \E block \in IF Overflows(TheInstance.memory_blocks, BLOCK_SIZE) THEN {Null}
                    ELSE Malloc("memory") :
           /\ heap' = [heap EXCEPT !["memory"] = block]
           /\ IF block = Null
              THEN code' = "MEMORY_ALLOCATION_ERROR" /\ pc' = "done"
              ELSE pc' = "first" /\ UNCHANGED code
    /\ UNCHANGED <<call, ctx, ptr, released>>

\* The rest of initialize: initial_hash and fill_first_blocks.
CtxFirstBlocks ==
    /\ pc = "first"
    /\ heap' = Put(heap, "memory", Holding("first"))
    /\ pc' = "fill"
    /\ UNCHANGED <<call, ctx, ptr, code, released>>

CtxFill ==
    /\ pc = "fill"
    /\ heap' = Put(heap, "memory", Holding("filled"))
    /\ pc' = "finalize"
    /\ UNCHANGED <<call, ctx, ptr, code, released>>

\* Only several threads can fail; the memory is not freed then.
CtxFillFails ==
    /\ pc = "fill" /\ TheInstance.threads > 1 /\ "thread" \in Failing
    /\ code' \in {"MEMORY_ALLOCATION_ERROR", "THREAD_FAIL"}
    /\ heap' = Put(heap, "memory", Holding("filled"))
    /\ pc' = "done"
    /\ UNCHANGED <<call, ctx, ptr, released>>

\* A mutant: the memory is freed as the fill left it.
CtxFinalizeUncleared ==
    /\ pc = "finalize"
    /\ LET tagged == Put(heap, ptr.out, Tag)
       IN  /\ heap' = Free(tagged, "memory")
           /\ released' = released \cup Remains(tagged, {"memory"})
    /\ pc' = "done"
    /\ UNCHANGED <<call, ctx, ptr, code>>

\* finalize: the tag, and free_memory, which clears the memory first.
CtxFinalize ==
    /\ pc = "finalize"
    /\ LET tagged == Put(heap, ptr.out, Tag)
           wiped == clear_internal_memory(tagged, "memory")
       IN  /\ heap' = Free(wiped, "memory")
           /\ released' = released \cup Remains(wiped, {"memory"})
    /\ pc' = "done"
    /\ UNCHANGED <<call, ctx, ptr, code>>

----------------------------------------------------------------------------
\* The wrappers argon2X_hash_raw, argon2X_hash_encoded and argon2X_verify, and
\* the bridge: the buffers of the caller are there when it has them.
Init ==
    /\ call \in Calls
    /\ pc = CASE call.api = "ffi" -> IF call.platform = "ios" THEN "ffi" ELSE "ffi macos"
              [] call.api \in {"raw", "encoded"} -> "hash"
              [] call.api = "verify" -> "verify"
    /\ ctx = HashContext(call)
    /\ ptr = [out |-> "out", desired |-> "none"]
    /\ heap = [NoHeap EXCEPT
           !["hash"] = IF call.api = "raw" THEN Callers ELSE Null,
           !["encoded"] = IF call.api = "encoded" THEN Callers ELSE Null]
    /\ code = "OK"
    /\ released = {}

Next ==
    \/ FfiBuffer \/ FfiArray \/ FfiAnswer
    \/ HashRejected \/ HashStart \/ HashEnd
    \/ VerifyRejected \/ VerifyStart \/ VerifyDecode \/ VerifyAside \/ VerifyEnd
    \/ CtxRejected \/ CtxAllocate \/ CtxFirstBlocks \/ CtxFill \/ CtxFillFails \/ CtxFinalize

Spec == Init /\ [][Next]_vars

----------------------------------------------------------------------------
Kinds == {"junk", "zero", "salt", "first", "filled", "tag", "text"}

TypeOK ==
    /\ pc \in {"ffi", "ffi macos", "hash", "verify", "decode", "aside", "ctx", "first", "fill",
               "finalize", "done", "answer", "return", "crashed"}
    /\ call \in Call
    /\ ctx \in Context
    /\ ptr \in [out : {"out", "field"}, desired : {"none", "field"}]
    /\ \A cell \in Cell : /\ heap[cell].status \in {"null", "live", "callers", "freed", "misused"}
                          /\ heap[cell].content.kind \in Kinds
    /\ code \in Codes
    /\ \A r \in released : r.api \in Api /\ r.cell \in Cell /\ r.content.kind \in Kinds

\* No block is freed twice, and none is written that is not allocated: neither
\* after the failures nor when argon2_verify has swapped its two buffers
\* (argon2.c:296-309). A write through the null pointer of b64_encode ends the
\* process and is not counted here.
NeverMisused == \A cell \in Cell : heap[cell].status # "misused"

\* The layout that fill_memory_blocks relies on, for every context that reaches
\* it, though the products of core.c:461 and argon2.c:56-63 wrap at 2^32.
SoundInstance ==
    pc \in {"first", "fill", "finalize"} => Sound(TheInstance, ctx.m_cost)

\* The caller's buffers hold the whole result of a success and nothing of a
\* failure (argon2.c:150-175), whichever step fails.
AllOrNothing ==
    pc = "return" /\ call.api \in {"raw", "encoded"} =>
        /\ heap["hash"].content = IF code = "OK" /\ call.api = "raw" THEN Tag ELSE Junk
        /\ IF code = "OK" /\ Encodes
           THEN heap["encoded"].content = [kind |-> "text", of |-> Tag]
           ELSE heap["encoded"].content \in {Junk, Zero}

\* argon2_verify accepts only the password whose tag is in the string, and says
\* that it does not match only if it does not (argon2.c:342-354).
CorrectVerdict ==
    pc = "return" /\ call.api = "verify" =>
        /\ code = "OK" => call.pwd = call.stored /\ call.string = "good"
        /\ code = "VERIFY_MISMATCH" => call.pwd # call.stored

\* The memory, and the buffer of argon2_hash, are given back to the allocator
\* cleared, on every path (core.c:120-130, argon2.c:143-174). What the bridge
\* and argon2_verify free is not cleared.
ClearedBeforeRelease ==
    \A r \in released :
        r.cell = "memory" \/ (r.cell = "out" /\ r.api # "verify") => r.content = Zero

\* When a call returns, nothing it allocated is left but the text, unless the
\* threads failed: argon2_ctx then returns without free_memory (argon2.c:89-93).
LeaksOnlyAfterFailedFill ==
    pc = "return" =>
        \A cell \in Cell \ {"text"} :
            heap[cell].status = "live" =>
                /\ cell = "memory" /\ TheInstance.threads > 1
                /\ code \in {"MEMORY_ALLOCATION_ERROR", "THREAD_FAIL"}

\* "restituiva memoria non inizializzata -> KEK diversa tra setup e login"
\* (argon2_ffi.c:137-139): what the bridge returns is the tag or nothing.
ResultIsTag ==
    pc = "return" /\ call.api = "ffi" /\ heap["text"].status # "null" =>
        heap["text"].content = Tag
=============================================================================
