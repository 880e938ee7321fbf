----------------------------- MODULE Argon2Fill -----------------------------
(***************************************************************************)
(* How Argon2 fills its memory: fill_memory_blocks of core.c, fill_segment *)
(* of ref.c and the threads of thread.c. The main thread starts one thread *)
(* per lane for each of the four slices of a pass and joins them before    *)
(* the next slice; a thread builds the blocks of its segment from blocks   *)
(* that index_alpha picks in any lane. Nothing else orders the threads, so *)
(* what they read must be finished by then.                                *)
(*                                                                         *)
(* A block is an abstract value; the permutation of fill_block is the      *)
(* constant Permute (module Blamka). Offsets are relative to their lane.   *)
(***************************************************************************)
EXTENDS Integers

CONSTANTS
    Lanes,              \* instance->lanes
    ThreadCounts,       \* the values of instance->threads explored
    Passes,             \* instance->passes
    SegmentLength,      \* instance->segment_length
    AddressesInBlock,   \* ARGON2_ADDRESSES_IN_BLOCK
    Word,               \* 2^32: a 32-bit word is below it
    Type,               \* "d", "i" or "id"
    Version,            \* 16 or 19
    Block,              \* the values of a block
    Junk,               \* what malloc leaves in a block
    First(_, _),        \* lane and 0 or 1: the blocks of fill_first_blocks
    Xor(_, _),          \* xor_block
    Permute(_),         \* the rounds of fill_block
    Rand(_, _),         \* block and word number: the halves of a 64-bit word
    Addresses(_, _, _, _), \* pass, lane, slice, counter: next_addresses
    Golden              \* pass, lane, index: the blocks the recurrence defines

SyncPoints == 4
LaneLength == SyncPoints * SegmentLength
Lane == 0 .. Lanes - 1
Slice == 0 .. SyncPoints - 1
Index == 0 .. LaneLength - 1
Pass == 0 .. Passes - 1

\* argon2_ctx never asks for less: Argon2Context derives it from validate_inputs.
ASSUME SizeAssumption ==
    /\ Lanes \in Nat \ {0} /\ Passes \in Nat \ {0}
    /\ SegmentLength \in Nat /\ SegmentLength >= 2
    /\ AddressesInBlock \in Nat /\ AddressesInBlock >= 2 /\ Word \in Nat \ {0}
    /\ ThreadCounts \subseteq 1 .. Lanes
    /\ Type \in {"d", "i", "id"} /\ Version \in {16, 19}

ASSUME BlockAssumption ==
    /\ Junk \in Block
    /\ \A l \in Lane, i \in {0, 1} : First(l, i) \in Block
    /\ \A a, b \in Block : Xor(a, b) \in Block
    /\ \A a \in Block : Permute(a) \in Block
    /\ \A a \in Block, k \in 0 .. AddressesInBlock - 1 :
           Rand(a, k) \in [low : 0 .. Word - 1, high : Nat]
    /\ \A p \in Pass, l \in Lane, s \in Slice, n \in 1 .. SegmentLength :
           Addresses(p, l, s, n) \in Block

----------------------------------------------------------------------------
(* The addressing of a block.                                              *)

Independent(pass, slice) ==
    \/ Type = "i"
    \/ Type = "id" /\ pass = 0 /\ slice < SyncPoints \div 2

WithXor(pass) == Version # 16 /\ pass # 0

ReferenceArea(pass, slice, index, same) ==
    LET finished == IF pass = 0 THEN slice * SegmentLength ELSE LaneLength - SegmentLength
    IN  IF pass = 0 /\ slice = 0 THEN index - 1
        ELSE IF same THEN finished + index - 1
        ELSE finished - (IF index = 0 THEN 1 ELSE 0)

StartPosition(pass, slice) ==
    IF pass = 0 \/ slice = SyncPoints - 1 THEN 0 ELSE (slice + 1) * SegmentLength

RelativePosition(area, rand) == area - 1 - (area * ((rand * rand) \div Word)) \div Word

index_alpha(pass, slice, index, rand, same) ==
    LET area == ReferenceArea(pass, slice, index, same)
    IN  (StartPosition(pass, slice) + RelativePosition(area, rand)) % LaneLength

RefLane(pass, slice, lane, word) ==
    IF pass = 0 /\ slice = 0 THEN lane ELSE word.high % Lanes

RefBlock(pass, slice, lane, index, word) ==
    LET l == RefLane(pass, slice, lane, word)
    IN  [lane |-> l, index |-> index_alpha(pass, slice, index, word.low, l = lane)]

\* The two halves of fill_block: what is copied to the next block, and what is
\* then XORed onto it.
Mixed(prev, ref) == Xor(ref, prev)
Base(prev, ref, old, pass) ==
    IF WithXor(pass) THEN Xor(Mixed(prev, ref), old) ELSE Mixed(prev, ref)

----------------------------------------------------------------------------
(* The recurrence of Argon2: what one thread computes that builds pass by  *)
(* pass, slice by slice and lane by lane.                                  *)

Previous(p, l, i) == IF i = 0 THEN Golden[p - 1][l][LaneLength - 1] ELSE Golden[p][l][i - 1]

WordOf(p, l, s, k) ==
    IF Independent(p, s)
    THEN Rand(Addresses(p, l, s, (k \div AddressesInBlock) + 1), k % AddressesInBlock)
    ELSE Rand(Previous(p, l, s * SegmentLength + k), 0)

RefOf(p, l, s, k) == RefBlock(p, s, l, k, WordOf(p, l, s, k))

\* A block of this pass if the recurrence has built it by then, else of the last.
Referenced(p, l, s, k) ==
    LET ref == RefOf(p, l, s, k)
        built == s * SegmentLength + (IF ref.lane = l THEN k ELSE 0)
    IN  Golden[IF ref.index < built THEN p ELSE p - 1][ref.lane][ref.index]

Recurrence(p, l, s, k) ==
    LET i == s * SegmentLength + k
        prev == Previous(p, l, i)
        ref == Referenced(p, l, s, k)
    IN  Xor(Base(prev, ref, Golden[p - 1][l][i], p), Permute(Mixed(prev, ref)))

ASSUME GoldenAssumption ==
    /\ Golden \in [Pass -> [Lane -> [Index -> Block]]]
    /\ \A p \in Pass, l \in Lane, s \in Slice, k \in 0 .. SegmentLength - 1 :
           Golden[p][l][s * SegmentLength + k] =
               IF p = 0 /\ s = 0 /\ k < 2 THEN First(l, k) ELSE Recurrence(p, l, s, k)

----------------------------------------------------------------------------
VARIABLES
    memory,     \* instance->memory: lane, index -> block
    main,       \* the loops of fill_memory_blocks
    thread,     \* thread[]: whether the lane's last thread was joined
    thr_data,   \* thr_data[]: the position a lane's thread is given
    local,      \* the variables of a lane's fill_segment
    undefined,  \* a thread was joined twice, or read freed memory
    abandoned   \* a join failed: fill_memory_blocks left threads behind

vars == <<memory, main, thread, thr_data, local, undefined, abandoned>>

Position == [pass : Pass, slice : Slice]
Phases == {"created", "address", "fill", "copy", "xor", "exited"}

Main == [pc : {"start", "create", "join", "drain", "done"}, threads : ThreadCounts,
         pass : 0 .. Passes, slice : Slice, lane : 0 .. Lanes, until : 0 .. Lanes,
         rc : {"OK", "MEMORY_ALLOCATION_ERROR", "THREAD_FAIL"}]

Local == [phase : Phases, pass : Pass, slice : Slice, i : 0 .. SegmentLength,
          curr : 0 .. LaneLength, prev : 0 .. LaneLength, count : Nat,
          ref : [lane : Lane, index : Index], tmp : Block, r : Block]

Init ==
    /\ memory = [l \in Lane |-> [i \in Index |-> IF i < 2 THEN First(l, i) ELSE Junk]]
    /\ main \in [pc : {"start"}, threads : ThreadCounts, pass : {0}, slice : {0},
                 lane : {0}, until : {0}, rc : {"OK"}]
    /\ thread = [l \in Lane |-> "none"]
    /\ thr_data = [l \in Lane |-> [pass |-> 0, slice |-> 0]]
    /\ local = [l \in Lane |-> [phase |-> "exited", pass |-> 0, slice |-> 0, i |-> 0,
                                curr |-> 0, prev |-> 0, count |-> 0,
                                ref |-> [lane |-> l, index |-> 0], tmp |-> Junk, r |-> Junk]]
    /\ undefined = FALSE
    /\ abandoned = FALSE

----------------------------------------------------------------------------
(* The main thread. With one thread fill_memory_blocks_st calls            *)
(* fill_segment itself: creating and joining are then call and return.     *)

Begin ==
    /\ main.pc = "start"
    /\ main' = [main EXCEPT !.pc = "create"]
    /\ UNCHANGED <<memory, thread, thr_data, local, undefined, abandoned>>

AllocationFails ==
    /\ main.pc = "start" /\ main.threads > 1
    /\ main' = [main EXCEPT !.pc = "done", !.rc = "MEMORY_ALLOCATION_ERROR"]
    /\ UNCHANGED <<memory, thread, thr_data, local, undefined, abandoned>>

Exited(l) == local[l].phase = "exited"

\* argon2_thread_join(thread[l]) returns 0: the thread was created, no join has
\* taken it yet, and it has come to its end.
Join(l) ==
    /\ thread[l] = "running" /\ Exited(l)
    /\ thread' = [thread EXCEPT ![l] = "joined"]

\* The thread whose end makes room for that of main.lane.
Blocking == main.lane - main.threads
HasRoom == main.lane >= main.threads => thread[Blocking] = "joined"

\* Mutant: the thread waited for is the one about to be created.
JoinLimitSelf ==
    /\ main.pc = "create" /\ ~HasRoom /\ Join(main.lane)
    /\ UNCHANGED <<memory, main, thr_data, local, undefined, abandoned>>

JoinLimit ==
    /\ main.pc = "create" /\ ~HasRoom /\ Join(Blocking)
    /\ UNCHANGED <<memory, main, thr_data, local, undefined, abandoned>>

Create ==
    /\ main.pc = "create" /\ HasRoom
    /\ thr_data' = [thr_data EXCEPT ![main.lane] = [pass |-> main.pass, slice |-> main.slice]]
    /\ thread' = [thread EXCEPT ![main.lane] = "running"]
    /\ local' = [local EXCEPT ![main.lane].phase = "created"]
    /\ main' = IF main.lane + 1 < Lanes
               THEN [main EXCEPT !.lane = @ + 1]
               ELSE [main EXCEPT !.pc = "join", !.lane = Lanes - main.threads]
    /\ UNCHANGED <<memory, undefined, abandoned>>

\* Mutant: the thread that was not created is joined too.
CreateFailsLate ==
    /\ main.pc = "create" /\ HasRoom /\ main.threads > 1
    /\ main' = [main EXCEPT !.pc = "drain", !.until = main.lane + 1, !.lane = 0, !.rc = "THREAD_FAIL"]
    /\ UNCHANGED <<memory, thread, thr_data, local, undefined, abandoned>>

CreateFails ==
    /\ main.pc = "create" /\ HasRoom /\ main.threads > 1
    /\ main' = [main EXCEPT !.pc = "drain", !.until = main.lane, !.lane = 0, !.rc = "THREAD_FAIL"]
    /\ UNCHANGED <<memory, thread, thr_data, local, undefined, abandoned>>

\* A creation failed: the loop joins the threads of the slice ...
Drain ==
    /\ main.pc = "drain" /\ main.lane < main.until
    /\ Join(main.lane)
    /\ main' = [main EXCEPT !.lane = @ + 1]
    /\ UNCHANGED <<memory, thr_data, local, undefined, abandoned>>

\* ... ignores a join that fails ...
DrainFails ==
    /\ main.pc = "drain" /\ main.lane < main.until
    /\ thread[main.lane] = "running"
    /\ main' = [main EXCEPT !.lane = @ + 1]
    /\ abandoned' = TRUE
    /\ UNCHANGED <<memory, thread, thr_data, local, undefined>>

\* ... and joins again those joined to make room, which need not return.
JoinAgain ==
    /\ main.pc = "drain" /\ main.lane < main.until
    /\ thread[main.lane] # "running"
    /\ main' = [main EXCEPT !.lane = @ + 1]
    /\ undefined' = TRUE
    /\ UNCHANGED <<memory, thread, thr_data, local, abandoned>>

Drained ==
    /\ main.pc = "drain" /\ main.lane = main.until
    /\ main' = [main EXCEPT !.pc = "done"]
    /\ UNCHANGED <<memory, thread, thr_data, local, undefined, abandoned>>

NextSlice ==
    IF main.slice + 1 < SyncPoints
    THEN [main EXCEPT !.pc = "create", !.lane = 0, !.slice = @ + 1]
    ELSE [main EXCEPT !.pc = IF main.pass + 1 < Passes THEN "create" ELSE "done",
                      !.lane = 0, !.slice = 0, !.pass = @ + 1]

\* Mutant: the end of the thread is not waited for.
JoinRemainingAtOnce ==
    /\ main.pc = "join"
    /\ thread' = [thread EXCEPT ![main.lane] = "joined"]
    /\ main' = IF main.lane + 1 < Lanes THEN [main EXCEPT !.lane = @ + 1] ELSE NextSlice
    /\ UNCHANGED <<memory, thr_data, local, undefined, abandoned>>

\* Mutant: the last loop joins one thread.
JoinRemainingOne ==
    /\ main.pc = "join" /\ Join(main.lane)
    /\ main' = NextSlice
    /\ UNCHANGED <<memory, thr_data, local, undefined, abandoned>>

JoinRemaining ==
    /\ main.pc = "join" /\ Join(main.lane)
    /\ main' = IF main.lane + 1 < Lanes THEN [main EXCEPT !.lane = @ + 1] ELSE NextSlice
    /\ UNCHANGED <<memory, thr_data, local, undefined, abandoned>>

JoinFails ==
    /\ main.threads > 1
    /\ main.pc = "join" \/ (main.pc = "create" /\ ~HasRoom)
    /\ main' = [main EXCEPT !.pc = "done", !.rc = "THREAD_FAIL"]
    /\ abandoned' = TRUE
    /\ UNCHANGED <<memory, thread, thr_data, local, undefined>>

----------------------------------------------------------------------------
(* A lane's thread: fill_segment.                                          *)

StartingIndex(pos) == IF pos.pass = 0 /\ pos.slice = 0 THEN 2 ELSE 0

Start(l) ==
    /\ local[l].phase = "created" /\ main.pc # "done"
    /\ LET pos == thr_data[l]
           first == StartingIndex(pos)
           curr == pos.slice * SegmentLength + first
       IN  local' = [local EXCEPT ![l] =
               [@ EXCEPT !.pass = pos.pass, !.slice = pos.slice, !.i = first, !.curr = curr,
                         !.prev = IF curr = 0 THEN LaneLength - 1 ELSE curr - 1,
                         !.count = IF Independent(pos.pass, pos.slice) /\ first = 2 THEN 1 ELSE 0,
                         !.phase = IF first < SegmentLength THEN "address" ELSE "exited"]]
    /\ UNCHANGED <<memory, main, thread, thr_data, undefined, abandoned>>

\* A thread left behind: thr_data is freed and the instance, on the stack of
\* argon2_ctx, is gone.
RunOn(l) ==
    /\ ~Exited(l) /\ main.pc = "done"
    /\ local' = [local EXCEPT ![l].phase = "exited"]
    /\ undefined' = TRUE
    /\ UNCHANGED <<memory, main, thread, thr_data, abandoned>>

PrevOffset(t) == IF t.curr = 1 THEN t.curr - 1 ELSE t.prev

\* Mutant: the address block is not renewed when it is used up.
AddressCountOnce(t) ==
    IF Independent(t.pass, t.slice) /\ t.i = 0 THEN t.count + 1 ELSE t.count

AddressCount(t) ==
    IF Independent(t.pass, t.slice) /\ t.i % AddressesInBlock = 0 THEN t.count + 1 ELSE t.count

PseudoRand(l, t) ==
    IF Independent(t.pass, t.slice)
    THEN Rand(Addresses(t.pass, l, t.slice, AddressCount(t)), t.i % AddressesInBlock)
    ELSE Rand(memory[l][PrevOffset(t)], 0)

ChooseRef(l) ==
    LET t == local[l]
    IN  /\ t.phase = "address" /\ main.pc # "done"
        /\ local' = [local EXCEPT ![l] =
               [t EXCEPT !.prev = PrevOffset(t), !.count = AddressCount(t), !.phase = "fill",
                         !.ref = RefBlock(t.pass, t.slice, l, t.i, PseudoRand(l, t))]]
        /\ UNCHANGED <<memory, main, thread, thr_data, undefined, abandoned>>

Fill(l) ==
    LET t == local[l]
        prev == memory[l][t.prev]
        ref == memory[t.ref.lane][t.ref.index]
    IN  /\ t.phase = "fill" /\ main.pc # "done"
        /\ local' = [local EXCEPT ![l] =
               [t EXCEPT !.tmp = Base(prev, ref, memory[l][t.curr], t.pass),
                         !.r = Permute(Mixed(prev, ref)), !.phase = "copy"]]
        /\ UNCHANGED <<memory, main, thread, thr_data, undefined, abandoned>>

Copy(l) ==
    /\ local[l].phase = "copy" /\ main.pc # "done"
    /\ memory' = [memory EXCEPT ![l][local[l].curr] = local[l].tmp]
    /\ local' = [local EXCEPT ![l].phase = "xor"]
    /\ UNCHANGED <<main, thread, thr_data, undefined, abandoned>>

\* Mutant: a segment has one block more.
XorOntoPast(l) ==
    LET t == local[l]
    IN  /\ t.phase = "xor" /\ main.pc # "done"
        /\ memory' = [memory EXCEPT ![l][t.curr] = Xor(@, t.r)]
        /\ local' = [local EXCEPT ![l] =
               [t EXCEPT !.i = @ + 1, !.curr = @ + 1,
                         !.prev = @ + 1,
                         !.phase = IF t.i < SegmentLength THEN "address" ELSE "exited"]]
        /\ UNCHANGED <<main, thread, thr_data, undefined, abandoned>>

XorOnto(l) ==
    LET t == local[l]
    IN  /\ t.phase = "xor" /\ main.pc # "done"
        /\ memory' = [memory EXCEPT ![l][t.curr] = Xor(@, t.r)]
        /\ local' = [local EXCEPT ![l] =
               [t EXCEPT !.i = @ + 1, !.curr = @ + 1,
                         !.prev = @ + 1,
                         !.phase = IF t.i + 1 < SegmentLength THEN "address" ELSE "exited"]]
        /\ UNCHANGED <<main, thread, thr_data, undefined, abandoned>>

\* What the main thread does once it is scheduled, and what befalls it.
MainRuns == Begin \/ JoinLimit \/ Create \/ Drain \/ Drained \/ JoinRemaining
MainFails == AllocationFails \/ CreateFails \/ JoinFails \/ DrainFails \/ JoinAgain

ThreadStep(l) == Start(l) \/ RunOn(l) \/ ChooseRef(l) \/ Fill(l) \/ Copy(l) \/ XorOnto(l)

Next == MainRuns \/ MainFails \/ \E l \in Lane : ThreadStep(l)

Spec == Init /\ [][Next]_vars

\* The scheduler runs every thread that can run. No failure is fair: a main thread
\* that waits for ever is not released by one, and a join of a thread joined before
\* need not return.
FairSpec == Spec /\ WF_vars(MainRuns) /\ \A l \in Lane : WF_vars(ThreadStep(l))
----------------------------------------------------------------------------
TypeOK ==
    /\ memory \in [Lane -> [Index -> Block]]
    /\ main \in Main
    /\ thread \in [Lane -> {"none", "running", "joined"}]
    /\ thr_data \in [Lane -> Position]
    /\ local \in [Lane -> Local]
    /\ undefined \in BOOLEAN /\ abandoned \in BOOLEAN

Building == {l \in Lane : local[l].phase \in {"address", "fill", "copy", "xor"}}

\* No thread reads, as its reference, the block another thread (or itself) is
\* building: within a slice only index_alpha keeps the threads apart.
NoRace ==
    main.pc # "done" =>
        \A l, m \in Building : local[l].phase = "fill" =>
            local[l].ref # [lane |-> m, index |-> local[m].curr]

\* However many threads there are and whatever their order, a fill that
\* succeeds leaves the blocks of the recurrence: the tag depends on no schedule.
FillIsDetermined == main.pc = "done" /\ main.rc = "OK" => memory = Golden[Passes - 1]

\* fill_memory_blocks returns, a thread still writing to the memory its caller
\* then uses or wipes, only if the system failed to join one.
NoThreadOutlivesFill == main.pc = "done" /\ ~abandoned => \A l \in Lane : Exited(l)

\* Only a failed join, or a failed creation with fewer threads than lanes,
\* leads to what C does not define.
JoinedOnce == undefined => abandoned \/ main.threads < Lanes

\* The main thread waits only for a thread that it created for this slice and has
\* not joined since: its loops join each thread exactly once.
WaitsForRunning ==
    /\ main.pc = "create" /\ ~HasRoom => thread[Blocking] = "running"
    /\ main.pc = "join" => thread[main.lane] = "running"

AtJoined == main.pc = "drain" /\ main.lane < main.until /\ thread[main.lane] = "joined"

\* fill_memory_blocks returns if every thread is scheduled and no failure helps it:
\* each thread it waits for was created and comes to its end. The exception is the
\* loop after a failed creation that comes to a thread joined before.
FillEnds == <>(main.pc = "done" \/ (AtJoined /\ main.threads < Lanes))
=============================================================================
