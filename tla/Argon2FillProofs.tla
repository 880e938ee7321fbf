-------------------------- MODULE Argon2FillProofs --------------------------
(***************************************************************************)
(* The fill is safe and determined for every number of lanes, threads and  *)
(* passes and every segment length of two blocks or more, and takes a      *)
(* number of steps that is bounded when it starts.                         *)
(***************************************************************************)
EXTENDS Argon2Fill, TLAPS

----------------------------------------------------------------------------
(* Division: what the words of index_alpha are bounded by.                 *)

LEMMA DivBounds ==
    ASSUME NEW a \in Nat, NEW w \in Nat \ {0}
    PROVE  /\ a \div w \in Nat /\ a % w \in 0 .. w - 1
           /\ a = w * (a \div w) + (a % w)
OBVIOUS

LEMMA DivBelow ==
    ASSUME NEW a \in Nat, NEW w \in Nat \ {0}, NEW m \in Nat, a < m * w
    PROVE  a \div w \in 0 .. m - 1
<1> DEFINE q == a \div w
<1>1. q \in Nat /\ a >= w * q
  BY DivBounds
<1>. HIDE DEF q
<1>2. q >= m => q * w >= m * w
  BY <1>1
<1>. QED
  BY <1>1, <1>2 DEF q

LEMMA DivUnique ==
    ASSUME NEW w \in Nat \ {0}, NEW q \in Nat, NEW r \in 0 .. w - 1
    PROVE  (w * q + r) \div w = q /\ (w * q + r) % w = r
<1> DEFINE a == w * q + r
           d == a \div w
           m == a % w
<1>1. a \in Nat
  OBVIOUS
<1>2. d \in Nat /\ m \in 0 .. w - 1 /\ a = w * d + m
  BY <1>1, DivBounds
<1>. HIDE DEF d, m
<1>3. w * d + m = w * q + r
  BY <1>2
<1>4. d > q => w * d >= w * q + w
  BY <1>2
<1>5. q > d => w * q >= w * d + w
  BY <1>2
<1>6. w * d \in Nat /\ w * q \in Nat
  BY <1>2
<1>. QED
  BY <1>2, <1>3, <1>4, <1>5, <1>6 DEF d, m, a

\* The position modulo the lane length, for a sum below two lanes.
LEMMA Wrap ==
    ASSUME NEW n \in Nat \ {0}, NEW x \in 0 .. 2 * n - 1
    PROVE  x % n = IF x < n THEN x ELSE x - n
<1>1. CASE x < n
  BY <1>1, DivUnique, x = n * 0 + x
<1>2. CASE x >= n
  <2>1. x - n \in 0 .. n - 1 /\ x = n * 1 + (x - n)
    BY <1>2
  <2>. QED
    BY <1>2, <2>1, DivUnique
<1>. QED
  BY <1>1, <1>2

----------------------------------------------------------------------------
(* index_alpha never picks a block that is being built.                    *)

LEMMA Sizes ==
    /\ Lanes \in Nat \ {0} /\ Passes \in Nat \ {0}
    /\ SegmentLength \in Nat /\ SegmentLength >= 2
    /\ LaneLength = 4 * SegmentLength /\ SyncPoints = 4 /\ Slice = 0 .. 3
    /\ Word \in Nat \ {0} /\ AddressesInBlock \in Nat /\ AddressesInBlock >= 2
    /\ ThreadCounts \subseteq 1 .. Lanes
BY SizeAssumption DEF LaneLength, SyncPoints, Slice

LEMMA PositionInLane ==
    ASSUME NEW s \in Slice, NEW k \in 0 .. SegmentLength - 1
    PROVE  s * SegmentLength + k \in Index
<1>. s = 0 \/ s = 1 \/ s = 2 \/ s = 3
  BY Sizes
<1>. QED
  BY Sizes DEF Index

LEMMA RelativeInArea ==
    ASSUME NEW area \in Nat \ {0}, NEW rand \in 0 .. Word - 1
    PROVE  RelativePosition(area, rand) \in 0 .. area - 1
<1> DEFINE x == (rand * rand) \div Word
<1>1. rand * rand < Word * Word /\ rand * rand \in Nat
  <2>1. rand * rand <= rand * Word /\ rand * Word <= (Word - 1) * Word
    BY Sizes
  <2>. QED
    BY <2>1, Sizes
<1>2. x \in 0 .. Word - 1
  BY <1>1, Sizes, DivBelow
<1>. HIDE DEF x
<1>3. area * x < area * Word /\ area * x \in Nat
  <2>1. area * x <= area * (Word - 1)
    BY <1>2, Sizes
  <2>. QED
    BY <1>2, <2>1, Sizes
<1>4. (area * x) \div Word \in 0 .. area - 1
  BY <1>3, Sizes, DivBelow
<1>. QED
  BY <1>4 DEF RelativePosition, x

\* What index_alpha returns: a finished block, never the one being built and,
\* in another lane, none of the slice's segment.
LEMMA IndexAlpha ==
    ASSUME NEW p \in Nat, NEW s \in Slice, NEW k \in 0 .. SegmentLength - 1,
           NEW rand \in 0 .. Word - 1, NEW same \in BOOLEAN,
           p = 0 /\ s = 0 => same /\ k >= 2
    PROVE  LET r == index_alpha(p, s, k, rand, same)
           IN  /\ r \in Index
               /\ p = 0 => r < s * SegmentLength + (IF same THEN k ELSE 0)
               /\ same => r # s * SegmentLength + k
               /\ ~same => r < s * SegmentLength \/ r >= (s + 1) * SegmentLength
<1> DEFINE area == ReferenceArea(p, s, k, same)
           rel == RelativePosition(area, rand)
           x == StartPosition(p, s) + rel
<1>. s = 0 \/ s = 1 \/ s = 2 \/ s = 3
  BY Sizes
<1>1. /\ area \in Nat \ {0}
      /\ p = 0 => area < s * SegmentLength + (IF same THEN k ELSE 1)
      /\ p # 0 => area <= 3 * SegmentLength + (IF same THEN k - 1 ELSE 0)
  BY Sizes DEF ReferenceArea
<1>2. rel \in 0 .. area - 1
  BY <1>1, RelativeInArea
<1>. HIDE DEF area, rel
<1>3. x \in 0 .. 2 * LaneLength - 1
  BY <1>1, <1>2, Sizes DEF StartPosition
<1>4. index_alpha(p, s, k, rand, same) = IF x < LaneLength THEN x ELSE x - LaneLength
  <2>1. LaneLength \in Nat \ {0} /\ index_alpha(p, s, k, rand, same) = x % LaneLength
    BY Sizes DEF index_alpha, area, rel
  <2>. QED
    BY <1>3, <2>1, Wrap
<1>5. CASE p = 0
  BY <1>1, <1>2, <1>4, <1>5, Sizes DEF StartPosition, Index
<1>6. CASE p # 0
  <2>1. CASE s = 3
    BY <1>1, <1>2, <1>4, <1>6, <2>1, Sizes DEF StartPosition, Index
  <2>2. ASSUME NEW n \in 0 .. 2, s = n
        PROVE  /\ x = (n + 1) * SegmentLength + rel
               /\ rel \in Nat /\ rel <= 3 * SegmentLength + (IF same THEN k - 2 ELSE 0 - 1)
    BY <1>1, <1>2, <1>6, <2>2, Sizes DEF StartPosition
  <2>3. CASE s = 0
    BY <1>4, <1>6, <2>2, <2>3, Sizes DEF Index
  <2>4. CASE s = 1
    BY <1>4, <1>6, <2>2, <2>4, Sizes DEF Index
  <2>5. CASE s = 2
    BY <1>4, <1>6, <2>2, <2>5, Sizes DEF Index
  <2>. QED
    BY <2>1, <2>3, <2>4, <2>5
<1>. QED
  BY <1>5, <1>6
----------------------------------------------------------------------------
(* The recurrence.                                                         *)

LEMMA DivStep ==
    ASSUME NEW n \in Nat, NEW w \in Nat \ {0}
    PROVE  (n + 1) \div w = IF (n + 1) % w = 0 THEN (n \div w) + 1 ELSE n \div w
<1> DEFINE q == n \div w
           r == n % w
<1>1. q \in Nat /\ r \in 0 .. w - 1 /\ n = w * q + r
  BY DivBounds
<1>. HIDE DEF q, r
<1>2. CASE r + 1 < w
  <2>1. r + 1 \in 0 .. w - 1 /\ n + 1 = w * q + (r + 1)
    BY <1>1, <1>2
  <2>2. (n + 1) \div w = q /\ (n + 1) % w = r + 1
    BY <1>1, <2>1, DivUnique
  <2>. QED
    BY <1>1, <2>2 DEF q
<1>3. CASE r + 1 = w
  <2>1. 0 \in 0 .. w - 1 /\ q + 1 \in Nat /\ n + 1 = w * (q + 1) + 0
    BY <1>1, <1>3
  <2>2. (w * (q + 1) + 0) \div w = q + 1 /\ (w * (q + 1) + 0) % w = 0
    BY <2>1, DivUnique
  <2>. QED
    BY <2>1, <2>2 DEF q
<1>. QED
  BY <1>1, <1>2, <1>3

LEMMA GoldenType ==
    ASSUME NEW p \in Pass, NEW l \in Lane, NEW i \in Index
    PROVE  Golden[p][l][i] \in Block
BY GoldenAssumption

LEMMA PreviousType ==
    ASSUME NEW p \in Pass, NEW l \in Lane, NEW i \in Index, i = 0 => p > 0
    PROVE  Previous(p, l, i) \in Block
<1>1. CASE i = 0
  <2>1. p - 1 \in Pass /\ LaneLength - 1 \in Index
    BY <1>1, Sizes DEF Pass, Index
  <2>. QED
    BY <1>1, <2>1, GoldenType DEF Previous
<1>2. CASE i # 0
  <2>1. i - 1 \in Index
    BY <1>2, Sizes DEF Index
  <2>. QED
    BY <1>2, <2>1, GoldenType DEF Previous
<1>. QED
  BY <1>1, <1>2

LEMMA WordType ==
    ASSUME NEW p \in Pass, NEW l \in Lane, NEW s \in Slice, NEW k \in 0 .. SegmentLength - 1,
           p = 0 /\ s = 0 => k >= 2
    PROVE  WordOf(p, l, s, k) \in [low : 0 .. Word - 1, high : Nat]
<1>1. CASE Independent(p, s)
  <2>1. k % AddressesInBlock \in 0 .. AddressesInBlock - 1
    BY DivBounds, Sizes
  <2>2. k \div AddressesInBlock \in 0 .. SegmentLength - 1
    <3>1. k < SegmentLength * AddressesInBlock
      BY Sizes
    <3>. QED
      BY <3>1, DivBelow, Sizes
  <2>3. Addresses(p, l, s, (k \div AddressesInBlock) + 1) \in Block
    <3>1. (k \div AddressesInBlock) + 1 \in 1 .. SegmentLength
      BY <2>2, Sizes
    <3>. QED
      BY <3>1, BlockAssumption
  <2>. QED
    BY <1>1, <2>1, <2>3, BlockAssumption DEF WordOf
<1>2. CASE ~Independent(p, s)
  <2>1. s * SegmentLength + k \in Index /\ (s * SegmentLength + k = 0 => p > 0)
    <3>1. p \in Nat /\ s \in 0 .. 3 /\ s * SegmentLength + k \in Index
      BY PositionInLane, Sizes DEF Pass
    <3>2. s >= 1 => s * SegmentLength >= SegmentLength
      BY <3>1, Sizes
    <3>. QED
      BY <3>1, <3>2, Sizes
  <2>2. Previous(p, l, s * SegmentLength + k) \in Block
    BY <2>1, PreviousType
  <2>3. 0 \in 0 .. AddressesInBlock - 1
    BY Sizes
  <2>. QED
    BY <1>2, <2>2, <2>3, BlockAssumption DEF WordOf
<1>. QED
  BY <1>1, <1>2

\* The reference of a block, in the terms of the recurrence.
LEMMA Reference ==
    ASSUME NEW p \in Pass, NEW l \in Lane, NEW s \in Slice, NEW k \in 0 .. SegmentLength - 1,
           p = 0 /\ s = 0 => k >= 2
    PROVE  LET ref == RefOf(p, l, s, k)
           IN  /\ ref \in [lane : Lane, index : Index]
               /\ p = 0 => ref.index < s * SegmentLength + (IF ref.lane = l THEN k ELSE 0)
               /\ ref.lane = l => ref.index # s * SegmentLength + k
               /\ ref.lane # l => \/ ref.index < s * SegmentLength
                                  \/ ref.index >= (s + 1) * SegmentLength
<1> DEFINE word == WordOf(p, l, s, k)
           rl == RefLane(p, s, l, word)
<1>1. word \in [low : 0 .. Word - 1, high : Nat]
  BY WordType
<1>. HIDE DEF word
<1>2. rl \in Lane /\ (p = 0 /\ s = 0 => rl = l)
  <2>1. word.high \in Nat /\ word.high % Lanes \in 0 .. Lanes - 1
    BY <1>1, DivBounds, Sizes
  <2>. QED
    BY <2>1 DEF RefLane, Lane
<1>. HIDE DEF rl
<1>3. RefOf(p, l, s, k) = [lane |-> rl, index |-> index_alpha(p, s, k, word.low, rl = l)]
  BY DEF RefOf, RefBlock, rl, word
<1>4. p \in Nat /\ word.low \in 0 .. Word - 1 /\ (rl = l) \in BOOLEAN
  BY <1>1, Sizes DEF Pass
<1> DEFINE r == index_alpha(p, s, k, word.low, rl = l)
<1>5. /\ r \in Index
      /\ p = 0 => r < s * SegmentLength + (IF rl = l THEN k ELSE 0)
      /\ rl = l => r # s * SegmentLength + k
      /\ rl # l => r < s * SegmentLength \/ r >= (s + 1) * SegmentLength
  BY <1>2, <1>4, IndexAlpha
<1>. HIDE DEF r
<1>. QED
  BY <1>2, <1>3, <1>5 DEF r
----------------------------------------------------------------------------
(* The inductive invariant. main.slice * SegmentLength is where the slice  *)
(* starts; Frontier(l) is how far lane l has got in this pass.             *)

Created(l) ==
    \/ main.pc = "join"
    \/ main.pc = "create" /\ l < main.lane
    \/ main.pc = "drain" /\ l < main.until

Started(l) == Created(l) /\ local[l].phase # "created"

Sound == main.pc # "done" \/ main.rc = "OK"

Frontier(l) ==
    IF Started(l) THEN local[l].curr ELSE main.slice * SegmentLength + StartingIndex(main)

\* The block before curr in its lane.
Before(i) == IF i = 0 THEN LaneLength - 1 ELSE i - 1

MainInv ==
    /\ main.pc \in {"start", "create", "join"} => main.rc = "OK"
    /\ main.pc = "start" => main.pass = 0 /\ main.slice = 0 /\ main.lane = 0
    /\ main.pc \in {"create", "join", "drain"} => main.pass \in Pass
    /\ main.pc \in {"create", "join"} => main.lane < Lanes
    /\ main.pc = "drain" => main.rc = "THREAD_FAIL" /\ main.lane <= main.until
                            /\ main.until < Lanes
    /\ main.pc = "done" /\ main.rc = "OK" => main.pass = Passes /\ main.slice = 0
    /\ abandoned => main.pc \in {"drain", "done"} /\ main.rc # "OK"

\* Which threads the main thread has joined.
ThreadInv(l) ==
    /\ Created(l) => /\ thread[l] # "none"
                     /\ thread[l] = "joined" => Exited(l)
                     /\ thr_data[l] = [pass |-> main.pass, slice |-> main.slice]
    /\ ~Created(l) /\ (abandoned => main.pc # "done") => Exited(l)
    /\ main.pc = "create" /\ l + main.threads < main.lane => thread[l] = "joined"
    /\ main.pc = "create" /\ l < main.lane /\ l + main.threads > main.lane => thread[l] = "running"
    /\ main.pc = "join" => thread[l] = IF l < main.lane THEN "joined" ELSE "running"
    /\ main.pc = "drain" /\ l < main.lane /\ ~abandoned => Exited(l)
    /\ main.threads = Lanes /\ Created(l) /\ main.pc # "join" /\ (main.pc = "drain" => l >= main.lane)
          => thread[l] = "running"

\* What fill_segment has computed.
LocalInv(l) ==
    LET t == local[l]
    IN  Started(l) =>
            /\ t.pass = main.pass /\ t.slice = main.slice
            /\ t.curr = main.slice * SegmentLength + t.i
            /\ t.i >= StartingIndex(main)
            /\ IF t.phase = "exited" THEN t.i = SegmentLength ELSE t.i < SegmentLength
            /\ t.phase = "address" =>
                   /\ PrevOffset(t) = Before(t.curr)
                   /\ Independent(t.pass, t.slice) =>
                          AddressCount(t) = (t.i \div AddressesInBlock) + 1
            /\ t.phase \in {"fill", "copy", "xor"} =>
                   /\ t.prev = Before(t.curr)
                   /\ Independent(t.pass, t.slice) => t.count = (t.i \div AddressesInBlock) + 1
            /\ t.phase = "fill" => t.ref = RefOf(t.pass, l, t.slice, t.i)
            /\ t.phase \in {"copy", "xor"} => Xor(t.tmp, t.r) = Golden[t.pass][l][t.curr]
            /\ t.phase = "xor" => memory[l][t.curr] = t.tmp

MemoryInv(l) ==
    \A i \in Index :
        /\ i < Frontier(l) => memory[l][i] = Golden[main.pass][l][i]
        /\ i >= Frontier(l) /\ main.pass > 0
           /\ ~(Started(l) /\ local[l].phase = "xor" /\ i = Frontier(l))
              => memory[l][i] = Golden[main.pass - 1][l][i]

Inv ==
    /\ TypeOK /\ MainInv
    /\ \A l \in Lane : ThreadInv(l)
    /\ Sound => \A l \in Lane : LocalInv(l) /\ MemoryInv(l)
    /\ undefined => abandoned \/ main.threads < Lanes

----------------------------------------------------------------------------
LEMMA TypeFacts ==
    ASSUME TypeOK
    PROVE  /\ main.threads \in 1 .. Lanes /\ main.pass \in 0 .. Passes
           /\ main.slice \in 0 .. 3 /\ main.lane \in 0 .. Lanes /\ main.until \in 0 .. Lanes
           /\ main \in Main
           /\ \A l \in Lane : /\ local[l] \in Local /\ thread[l] \in {"none", "running", "joined"}
                              /\ l \in 0 .. Lanes - 1
                              /\ memory[l] \in [Index -> Block]
           /\ StartingIndex(main) \in {0, 2}
           /\ StartingIndex(main) = 2 <=> main.pass = 0 /\ main.slice = 0
<1>1. main \in Main
  BY DEF TypeOK
<1>2. /\ main.threads \in 1 .. Lanes /\ main.pass \in 0 .. Passes /\ main.slice \in 0 .. 3
      /\ main.lane \in 0 .. Lanes /\ main.until \in 0 .. Lanes
  BY <1>1, Sizes DEF Main
<1>3. StartingIndex(main) \in {0, 2} /\ (StartingIndex(main) = 2 <=> main.pass = 0 /\ main.slice = 0)
  BY DEF StartingIndex
<1>. QED
  BY <1>1, <1>2, <1>3 DEF TypeOK, Lane

LEMMA InitInv == Init => Inv
<1>. SUFFICES ASSUME Init PROVE Inv
  OBVIOUS
<1>1. TypeOK
  <2>1. 2 * 2 <= LaneLength /\ 0 \in Index /\ 0 \in Pass /\ 0 \in Slice /\ Lanes >= 1
    BY Sizes DEF Index, Pass
  <2>2. memory \in [Lane -> [Index -> Block]]
    BY BlockAssumption DEF Init, Index
  <2>3. main \in Main
    BY <2>1, Sizes DEF Init, Main
  <2>4. local \in [Lane -> Local]
    BY <2>1, BlockAssumption, Sizes DEF Init, Local, Phases
  <2>. QED
    BY <2>1, <2>2, <2>3, <2>4 DEF Init, TypeOK, Position
<1>2. /\ main.pc = "start" /\ main.pass = 0 /\ main.slice = 0 /\ main.lane = 0 /\ main.rc = "OK"
      /\ ~abandoned /\ ~undefined
  BY DEF Init
<1>3. MainInv /\ \A l \in Lane : ThreadInv(l) /\ ~Created(l)
  BY <1>2 DEF MainInv, ThreadInv, Created, Exited, Init
<1>4. ASSUME NEW l \in Lane PROVE LocalInv(l) /\ MemoryInv(l)
  <2>1. ~Started(l) /\ Frontier(l) = 2
    BY <1>2, <1>3, Sizes DEF Started, Frontier, StartingIndex
  <2>2. ASSUME NEW i \in Index, i < 2 PROVE memory[l][i] = Golden[0][l][i]
    <3>1. i \in 0 .. SegmentLength - 1 /\ 0 \in Pass /\ 0 \in Slice /\ 0 * SegmentLength + i = i
      BY <2>2, Sizes DEF Index, Pass
    <3>2. Golden[0][l][i] = First(l, i)
      BY <2>2, <3>1, GoldenAssumption
    <3>. QED
      BY <2>2, <3>2 DEF Init
  <2>. QED
    BY <1>2, <2>1, <2>2, Sizes DEF LocalInv, MemoryInv
<1>. QED
  BY <1>1, <1>2, <1>3, <1>4 DEF Inv

----------------------------------------------------------------------------
(* A step of a lane's thread leaves the main thread and the other lanes as *)
(* they are.                                                               *)

LEMMA LaneStep ==
    ASSUME Inv, NEW l \in Lane, ~Exited(l), main.pc # "done",
           UNCHANGED <<main, thread, thr_data, undefined, abandoned>>,
           NEW u \in Local, local' = [local EXCEPT ![l] = u], u.phase # "created",
           memory' \in [Lane -> [Index -> Block]],
           \A m \in Lane \ {l} : memory'[m] = memory[m],
           LocalInv(l)', MemoryInv(l)'
    PROVE  Inv'
<1>1. TypeOK'
  BY DEF Inv, TypeOK
<1>2. MainInv'
  BY DEF Inv, MainInv
<1>3. \A m \in Lane : Created(m)' = Created(m)
  BY DEF Created
<1>4. \A m \in Lane \ {l} : local'[m] = local[m]
  BY DEF Inv, TypeOK
<1>5. ASSUME NEW m \in Lane \ {l} PROVE ThreadInv(m)' /\ LocalInv(m)' /\ MemoryInv(m)'
  <2>1. ThreadInv(m) /\ LocalInv(m) /\ MemoryInv(m)
    BY DEF Inv, Sound
  <2>2. Started(m)' = Started(m) /\ Frontier(m)' = Frontier(m)
    BY <1>3, <1>4 DEF Started, Frontier, StartingIndex
  <2>3. ThreadInv(m)'
    BY <1>3, <1>4, <2>1 DEF ThreadInv, Exited
  <2>4. LocalInv(m)'
    BY <1>4, <2>1, <2>2 DEF LocalInv, PrevOffset, AddressCount, StartingIndex
  <2>5. MemoryInv(m)'
    BY <1>4, <2>1, <2>2 DEF MemoryInv
  <2>. QED
    BY <2>3, <2>4, <2>5
<1>6. ThreadInv(l)'
  <2>1. ThreadInv(l)
    BY DEF Inv
  <2>2. Created(l) /\ thread[l] # "joined"
    BY <2>1 DEF ThreadInv
  <2>. QED
    BY <1>3, <2>1, <2>2 DEF ThreadInv, Exited
<1>. QED
  BY <1>1, <1>2, <1>5, <1>6 DEF Inv

\* What a running thread of lane l knows.
LEMMA Running ==
    ASSUME Inv, NEW l \in Lane, ~Exited(l), main.pc # "done"
    PROVE  /\ TypeOK /\ Created(l) /\ LocalInv(l) /\ MemoryInv(l)
           /\ thr_data[l] = [pass |-> main.pass, slice |-> main.slice]
           /\ main.pass \in Pass /\ main.slice \in Slice
<1>1. ThreadInv(l) /\ MainInv /\ TypeOK /\ LocalInv(l) /\ MemoryInv(l)
  BY DEF Inv, Sound
<1>2. Created(l)
  BY <1>1 DEF ThreadInv
<1>. QED
  BY <1>1, <1>2, TypeFacts, Sizes DEF ThreadInv, MainInv, Created

LEMMA Curr ==
    ASSUME Inv, NEW l \in Lane, local[l].phase \in {"address", "fill", "copy", "xor"},
           main.pc # "done"
    PROVE  LET t == local[l]
           IN  /\ t.pass \in Pass /\ t.slice \in Slice /\ t.i \in 0 .. SegmentLength - 1
               /\ t.curr = t.slice * SegmentLength + t.i /\ t.curr \in Index
               /\ t.pass = main.pass /\ t.slice = main.slice
               /\ t.pass = 0 /\ t.slice = 0 => t.i >= 2
               /\ t.curr = 0 => t.pass > 0
               /\ Frontier(l) = t.curr /\ Started(l)
               /\ Before(t.curr) \in Index
<1>1. ~Exited(l)
  BY DEF Exited
<1>2. Started(l) /\ LocalInv(l) /\ TypeOK /\ main.pass \in Pass /\ main.slice \in Slice
  BY <1>1, Running DEF Started
<1>3. local[l].i \in 0 .. SegmentLength - 1
  BY <1>2, TypeFacts, Sizes DEF LocalInv, Local
<1>4. local[l].curr \in Index
  BY <1>2, <1>3, PositionInLane DEF LocalInv
<1>5. Before(local[l].curr) \in Index
  BY <1>4, Sizes DEF Before, Index
<1>6. local[l].pass = 0 /\ local[l].slice = 0 => local[l].i >= 2
  BY <1>2, TypeFacts DEF LocalInv
<1>7. local[l].curr = 0 => local[l].pass > 0
  <2>1. main.slice >= 1 => main.slice * SegmentLength >= SegmentLength
    BY <1>2, Sizes
  <2>. QED
    BY <1>2, <1>3, <1>6, <2>1, TypeFacts, Sizes DEF LocalInv
<1>. QED
  BY <1>2, <1>3, <1>4, <1>5, <1>6, <1>7 DEF LocalInv, Frontier

\* The previous block of a running thread is that of the recurrence.
LEMMA PreviousRead ==
    ASSUME Inv, NEW l \in Lane, local[l].phase \in {"address", "fill"}, main.pc # "done"
    PROVE  memory[l][Before(local[l].curr)] = Previous(local[l].pass, l, local[l].curr)
<1> DEFINE c == local[l].curr
<1>1. /\ c \in Index /\ Before(c) \in Index /\ Frontier(l) = c /\ Started(l)
      /\ c = 0 => local[l].pass > 0 
      /\ local[l].pass = main.pass /\ MemoryInv(l)
  BY Curr, Running DEF Exited
<1>2. CASE c = 0
  BY <1>1, <1>2, Sizes DEF MemoryInv, Before, Previous, Index
<1>3. CASE c # 0
  BY <1>1, <1>3, Sizes DEF MemoryInv, Before, Previous, Index
<1>. QED
  BY <1>2, <1>3

\* The reference block of a running thread is that of the recurrence: what
\* the other lanes build meanwhile is out of its reach.
LEMMA ReferenceRead ==
    ASSUME Inv, NEW l \in Lane, local[l].phase = "fill", main.pc # "done"
    PROVE  LET t == local[l]
           IN  /\ t.ref \in [lane : Lane, index : Index]
               /\ memory[t.ref.lane][t.ref.index] = Referenced(t.pass, l, t.slice, t.i)
<1> DEFINE t == local[l]
           p == t.pass
           s == t.slice
           k == t.i
           ref == RefOf(p, l, s, k)
           m == ref.lane
           start == s * SegmentLength
<1>1. /\ p \in Pass /\ s \in Slice /\ k \in 0 .. SegmentLength - 1 /\ t.curr = start + k
      /\ p = main.pass /\ s = main.slice /\ (p = 0 /\ s = 0 => k >= 2)
      /\ Started(l) /\ Frontier(l) = t.curr /\ t.curr \in Index
  BY Curr
<1>2. t.ref = ref /\ TypeOK
  BY <1>1, Running DEF LocalInv, Exited
<1>8. ref \in [lane : Lane, index : Index]
  BY <1>1, Reference
<1>. SUFFICES memory[m][ref.index] = Referenced(p, l, s, k)
  BY <1>2, <1>8
<1>. HIDE DEF p, s, k
<1>3. /\ ref \in [lane : Lane, index : Index]
      /\ p = 0 => ref.index < start + (IF m = l THEN k ELSE 0)
      /\ m = l => ref.index # start + k
      /\ m # l => ref.index < start \/ ref.index >= (s + 1) * SegmentLength
  BY <1>1, Reference
<1>. HIDE DEF ref
<1>4. MemoryInv(m) /\ LocalInv(m) /\ m \in Lane /\ ref.index \in Index
  BY <1>3 DEF Inv, Sound
<1>5. start \in Nat /\ (s + 1) * SegmentLength = start + SegmentLength /\ p \in Nat
  BY <1>1, Sizes DEF Pass
<1>. HIDE DEF start
<1>6. CASE m = l
  <2>1. CASE ref.index < start + k
    BY <1>1, <1>4, <1>5, <1>6, <2>1 DEF MemoryInv, Referenced, ref, start
  <2>2. CASE ref.index > start + k
    <3>1. p > 0 /\ ~(ref.index < start + k)
      BY <1>1, <1>3, <1>5, <1>6, <2>2, Sizes DEF Index
    <3>2. memory[m][ref.index] = Golden[p - 1][m][ref.index]
      BY <1>1, <1>4, <1>5, <1>6, <2>2, <3>1 DEF MemoryInv, Index
    <3>. QED
      BY <1>6, <3>1, <3>2 DEF Referenced, ref, start
  <2>. QED
    BY <1>1, <1>3, <1>5, <1>6, <2>1, <2>2 DEF Index
<1>7. CASE m # l
  <2>1. /\ Frontier(m) \in start .. start + SegmentLength
        /\ Started(m) /\ local[m].phase = "xor" => Frontier(m) < start + SegmentLength
    <3>1. CASE Started(m)
      <4>1. local[m].i \in 0 .. SegmentLength /\ local[m].curr = start + local[m].i
        BY <1>1, <1>2, <1>4, <3>1, TypeFacts DEF LocalInv, Local, start
      <4>2. local[m].phase = "xor" => local[m].i < SegmentLength
        BY <1>4, <3>1 DEF LocalInv
      <4>. QED
        BY <1>5, <3>1, <4>1, <4>2, Sizes DEF Frontier
    <3>2. CASE ~Started(m)
      <4>1. Frontier(m) = start + StartingIndex(main)
        BY <1>1, <3>2 DEF Frontier, start
      <4>. QED
        BY <1>2, <1>5, <3>2, <4>1, TypeFacts, Sizes
    <3>. QED
      BY <3>1, <3>2
  <2>2. CASE ref.index < start
    <3>1. memory[m][ref.index] = Golden[p][m][ref.index]
      BY <1>1, <1>4, <1>5, <2>1, <2>2 DEF MemoryInv, Index
    <3>2. ref.index < start + 0
      BY <1>5, <2>2
    <3>. QED
      BY <1>7, <3>1, <3>2 DEF Referenced, ref, start
  <2>3. CASE ref.index >= start + SegmentLength
    <3>1. p > 0 /\ ~(ref.index < start + 0) /\ ref.index >= Frontier(m)
      BY <1>1, <1>3, <1>5, <1>7, <2>1, <2>3, Sizes DEF Index
    <3>2. ~(Started(m) /\ local[m].phase = "xor" /\ ref.index = Frontier(m))
      BY <1>4, <1>5, <2>1, <2>3, Sizes DEF Index
    <3>3. memory[m][ref.index] = Golden[p - 1][m][ref.index]
      BY <1>1, <1>4, <3>1, <3>2 DEF MemoryInv
    <3>. QED
      BY <1>7, <3>1, <3>3 DEF Referenced, ref, start
  <2>. QED
    BY <1>3, <1>5, <1>7, <2>2, <2>3
<1>. QED
  BY <1>6, <1>7

----------------------------------------------------------------------------
(* The steps of a thread.                                                  *)

LEMMA StartKeeps == ASSUME Inv, NEW l \in Lane, Start(l) PROVE Inv'
<1> DEFINE s == main.slice
           first == StartingIndex(main)
           c == s * SegmentLength + first
           u == [local[l] EXCEPT !.pass = main.pass, !.slice = s, !.i = first, !.curr = c,
                    !.prev = IF c = 0 THEN LaneLength - 1 ELSE c - 1,
                    !.count = IF Independent(main.pass, s) /\ first = 2 THEN 1 ELSE 0,
                    !.phase = IF first < SegmentLength THEN "address" ELSE "exited"]
<1>1. /\ ~Exited(l) /\ main.pc # "done" /\ local[l].phase = "created"
      /\ UNCHANGED <<main, thread, thr_data, undefined, abandoned>> /\ memory' = memory
  BY DEF Start, Exited
<1>2. /\ TypeOK /\ Created(l) /\ MemoryInv(l) /\ main.pass \in Pass /\ s \in Slice
      /\ thr_data[l] = [pass |-> main.pass, slice |-> s]
  BY <1>1, Running
<1>3. /\ local[l] \in Local /\ first \in {0, 2} /\ (first = 2 <=> main.pass = 0 /\ s = 0)
  BY <1>2, TypeFacts
<1>4. local' = [local EXCEPT ![l] = u]
  BY <1>2 DEF Start, StartingIndex
<1>5. c \in 0 .. LaneLength - 2 /\ c # 1 /\ first \in 0 .. SegmentLength
  <2>1. s = 0 \/ s = 1 \/ s = 2 \/ s = 3
    BY <1>2, Sizes
  <2>. QED
    BY <1>3, <2>1, Sizes
<1>. HIDE DEF c, first
<1>6. u \in Local /\ u.phase # "created"
  <2>1. (IF c = 0 THEN LaneLength - 1 ELSE c - 1) \in 0 .. LaneLength /\ c \in 0 .. LaneLength
    BY <1>5, Sizes
  <2>. HIDE DEF s
  <2>. QED
    BY <1>2, <1>3, <1>5, <2>1 DEF Local, Phases
<1>7. local'[l] = u /\ memory' \in [Lane -> [Index -> Block]]
  BY <1>1, <1>2, <1>4 DEF TypeOK
<1>8. Created(l)' /\ Started(l)' /\ Frontier(l)' = c /\ Frontier(l) = c /\ ~Started(l)
  BY <1>1, <1>2, <1>6, <1>7 DEF Created, Started, Frontier, c, first, StartingIndex
<1>9. /\ PrevOffset(u) = Before(u.curr)
      /\ Independent(u.pass, u.slice) => AddressCount(u) = (u.i \div AddressesInBlock) + 1
  <2>1. PrevOffset(u) = Before(u.curr)
    BY <1>3, <1>5 DEF PrevOffset, Before, Local
  <2>2. CASE first = 0
    <3>1. AddressesInBlock * 0 + 0 = 0 /\ 0 \in 0 .. AddressesInBlock - 1
      BY Sizes
    <3>2. 0 \div AddressesInBlock = 0 /\ 0 % AddressesInBlock = 0
      BY <3>1, DivUnique, Sizes
    <3>. QED
      BY <1>3, <2>1, <2>2, <3>2 DEF AddressCount, Local
  <2>3. CASE first = 2
    <3>1. CASE AddressesInBlock = 2
      <4>1. 2 \div 2 = 1 /\ 2 % 2 = 0
        OBVIOUS
      <4>. QED
        BY <1>3, <2>1, <2>3, <3>1, <4>1 DEF AddressCount, Local
    <3>2. CASE AddressesInBlock > 2
      <4>1. AddressesInBlock * 0 + 2 = 2 /\ 2 \in 0 .. AddressesInBlock - 1
        BY <3>2, Sizes
      <4>2. 2 \div AddressesInBlock = 0 /\ 2 % AddressesInBlock = 2
        BY <4>1, DivUnique, Sizes
      <4>. QED
        BY <1>3, <2>1, <2>3, <4>2 DEF AddressCount, Local
    <3>. QED
      BY <3>1, <3>2, Sizes
  <2>. QED
    BY <1>3, <2>2, <2>3
<1>10. LocalInv(l)'
  BY <1>1, <1>3, <1>5, <1>7, <1>9, Sizes DEF LocalInv, Local, StartingIndex, first, c,
     PrevOffset, AddressCount
<1>11. MemoryInv(l)'
  BY <1>1, <1>2, <1>7, <1>8 DEF MemoryInv, Local
<1>. HIDE DEF u
<1>. QED
  BY <1>1, <1>4, <1>6, <1>7, <1>10, <1>11, LaneStep

LEMMA ChooseRefKeeps == ASSUME Inv, NEW l \in Lane, ChooseRef(l) PROVE Inv'
<1> DEFINE t == local[l]
           u == [t EXCEPT !.prev = PrevOffset(t), !.count = AddressCount(t), !.phase = "fill",
                     !.ref = RefBlock(t.pass, t.slice, l, t.i, PseudoRand(l, t))]
<1>1. /\ t.phase = "address" /\ main.pc # "done" /\ local' = [local EXCEPT ![l] = u]
      /\ UNCHANGED <<main, thread, thr_data, undefined, abandoned>> /\ memory' = memory
      /\ ~Exited(l)
  BY DEF ChooseRef, Exited
<1>2. /\ TypeOK /\ Created(l) /\ MemoryInv(l) /\ LocalInv(l) /\ t \in Local
  BY <1>1, Running, TypeFacts
<1>3. /\ t.pass \in Pass /\ t.slice \in Slice /\ t.i \in 0 .. SegmentLength - 1
      /\ t.pass = 0 /\ t.slice = 0 => t.i >= 2
      /\ t.curr = t.slice * SegmentLength + t.i /\ t.curr \in Index
      /\ Frontier(l) = t.curr /\ Started(l) /\ Before(t.curr) \in Index
  BY <1>1, Curr
<1>4. PrevOffset(t) = Before(t.curr)
      /\ (Independent(t.pass, t.slice) => AddressCount(t) = (t.i \div AddressesInBlock) + 1)
  BY <1>1, <1>2, <1>3 DEF LocalInv
<1>5. PseudoRand(l, t) = WordOf(t.pass, l, t.slice, t.i)
  BY <1>1, <1>3, <1>4, PreviousRead DEF PseudoRand, WordOf
<1>6. u.ref = RefOf(t.pass, l, t.slice, t.i)
  BY <1>2, <1>5 DEF RefOf, Local
<1>7. u \in Local
  <2>1. PrevOffset(t) \in 0 .. LaneLength /\ AddressCount(t) \in Nat
    <3>1. PrevOffset(t) \in 0 .. LaneLength
      BY <1>3, <1>4, Sizes DEF Index
    <3>2. t.count \in Nat
      BY <1>2 DEF Local
    <3>. QED
      BY <3>1, <3>2 DEF AddressCount
  <2>2. RefBlock(t.pass, t.slice, l, t.i, PseudoRand(l, t)) \in [lane : Lane, index : Index]
    BY <1>3, <1>5, Reference DEF RefOf
  <2>. QED
    BY <1>2, <2>1, <2>2 DEF Local, Phases
<1>8. local'[l] = u /\ Started(l)' /\ Frontier(l)' = t.curr /\ memory' \in [Lane -> [Index -> Block]]
  BY <1>1, <1>2, <1>3 DEF TypeOK, Started, Frontier, Created, Local
<1>9. u.count = AddressCount(t) /\ u.prev = Before(u.curr) /\ u.curr = t.curr /\ u.i = t.i
      /\ u.pass = t.pass /\ u.slice = t.slice /\ u.phase = "fill"
  BY <1>2, <1>4 DEF Local
<1>. HIDE DEF u
<1>10. LocalInv(l)'
  BY <1>1, <1>2, <1>3, <1>4, <1>6, <1>8, <1>9 DEF LocalInv, StartingIndex
<1>11. MemoryInv(l)'
  BY <1>1, <1>2, <1>3, <1>8, <1>9 DEF MemoryInv
<1>. QED
  BY <1>1, <1>7, <1>8, <1>9, <1>10, <1>11, LaneStep

LEMMA FillKeeps == ASSUME Inv, NEW l \in Lane, Fill(l) PROVE Inv'
<1> DEFINE t == local[l]
           prev == memory[l][t.prev]
           ref == memory[t.ref.lane][t.ref.index]
           old == memory[l][t.curr]
           u == [t EXCEPT !.tmp = Base(prev, ref, old, t.pass),
                          !.r = Permute(Mixed(prev, ref)), !.phase = "copy"]
<1>1. /\ t.phase = "fill" /\ main.pc # "done" /\ local' = [local EXCEPT ![l] = u]
      /\ UNCHANGED <<main, thread, thr_data, undefined, abandoned>> /\ memory' = memory
      /\ ~Exited(l)
  BY DEF Fill, Exited
<1>2. /\ TypeOK /\ Created(l) /\ MemoryInv(l) /\ LocalInv(l) /\ t \in Local
  BY <1>1, Running, TypeFacts
<1>3. /\ t.pass \in Pass /\ t.slice \in Slice /\ t.i \in 0 .. SegmentLength - 1
      /\ t.pass = 0 /\ t.slice = 0 => t.i >= 2
      /\ t.curr = t.slice * SegmentLength + t.i /\ t.curr \in Index
      /\ t.pass = main.pass /\ Frontier(l) = t.curr /\ Started(l) /\ Before(t.curr) \in Index
  BY <1>1, Curr
<1>4. prev = Previous(t.pass, l, t.curr) /\ t.prev = Before(t.curr)
  BY <1>1, <1>2, <1>3, PreviousRead DEF LocalInv
<1>5. ref = Referenced(t.pass, l, t.slice, t.i) /\ t.ref \in [lane : Lane, index : Index]
  BY <1>1, ReferenceRead
<1>6. t.pass > 0 => old = Golden[t.pass - 1][l][t.curr]
  BY <1>1, <1>2, <1>3, Sizes DEF MemoryInv, Index
<1>7. prev \in Block /\ ref \in Block /\ old \in Block
  BY <1>2, <1>3, <1>4, <1>5 DEF TypeOK
<1>. HIDE DEF prev, ref, old
<1>8. u.tmp = Base(prev, ref, old, t.pass) /\ u.r = Permute(Mixed(prev, ref)) /\ u.phase = "copy"
      /\ u.pass = t.pass /\ u.slice = t.slice /\ u.i = t.i /\ u.curr = t.curr
      /\ u.prev = t.prev /\ u.count = t.count
  BY <1>2 DEF Local
<1>9. u \in Local
  <2>1. Base(prev, ref, old, t.pass) \in Block /\ Permute(Mixed(prev, ref)) \in Block
    BY <1>7, BlockAssumption DEF Base, Mixed
  <2>. QED
    BY <1>2, <2>1 DEF Local, Phases
<1>. HIDE DEF u
<1>10. Xor(u.tmp, u.r) = Golden[t.pass][l][t.curr]
  <2>1. Base(prev, ref, old, t.pass) = Base(prev, ref, Golden[t.pass - 1][l][t.curr], t.pass)
    BY <1>3, <1>6, Sizes DEF Base, WithXor, Pass
  <2>2. Golden[t.pass][l][t.curr] = Recurrence(t.pass, l, t.slice, t.i)
    BY <1>3, GoldenAssumption
  <2>. QED
    BY <1>3, <1>4, <1>5, <1>8, <2>1, <2>2 DEF Recurrence
<1>11. local'[l] = u /\ Started(l)' /\ Frontier(l)' = t.curr /\ memory' \in [Lane -> [Index -> Block]]
  BY <1>1, <1>2, <1>3, <1>8 DEF TypeOK, Started, Frontier, Created
<1>12. LocalInv(l)'
  BY <1>1, <1>2, <1>3, <1>4, <1>8, <1>10, <1>11 DEF LocalInv, StartingIndex
<1>13. MemoryInv(l)'
  BY <1>1, <1>2, <1>3, <1>8, <1>11 DEF MemoryInv
<1>. QED
  BY <1>1, <1>8, <1>9, <1>11, <1>12, <1>13, LaneStep

LEMMA CopyKeeps == ASSUME Inv, NEW l \in Lane, Copy(l) PROVE Inv'
<1> DEFINE t == local[l]
           u == [t EXCEPT !.phase = "xor"]
<1>1. /\ t.phase = "copy" /\ main.pc # "done" /\ local' = [local EXCEPT ![l] = u]
      /\ UNCHANGED <<main, thread, thr_data, undefined, abandoned>> /\ ~Exited(l)
      /\ memory' = [memory EXCEPT ![l][t.curr] = t.tmp]
  BY DEF Copy, Exited
<1>2. /\ TypeOK /\ Created(l) /\ MemoryInv(l) /\ LocalInv(l) /\ t \in Local
  BY <1>1, Running, TypeFacts
<1>3. t.curr \in Index /\ Frontier(l) = t.curr /\ Started(l) /\ t.pass = main.pass
  BY <1>1, Curr
<1>4. /\ u \in Local /\ u.phase = "xor" /\ u.tmp = t.tmp /\ u.r = t.r /\ u.pass = t.pass
      /\ u.slice = t.slice /\ u.i = t.i /\ u.curr = t.curr /\ u.prev = t.prev /\ u.count = t.count
  BY <1>2 DEF Local, Phases
<1>. HIDE DEF u
<1>5. /\ local'[l] = u /\ Started(l)' /\ Frontier(l)' = t.curr
      /\ memory' \in [Lane -> [Index -> Block]]
      /\ \A m \in Lane \ {l} : memory'[m] = memory[m]
      /\ memory'[l][t.curr] = t.tmp
      /\ \A i \in Index \ {t.curr} : memory'[l][i] = memory[l][i]
  BY <1>1, <1>2, <1>3, <1>4 DEF TypeOK, Started, Frontier, Created, Local
<1>6. LocalInv(l)'
  BY <1>1, <1>2, <1>3, <1>4, <1>5 DEF LocalInv, StartingIndex
<1>7. MemoryInv(l)'
  BY <1>1, <1>2, <1>3, <1>4, <1>5 DEF MemoryInv, Index
<1>. QED
  BY <1>1, <1>4, <1>5, <1>6, <1>7, LaneStep

LEMMA XorOntoKeeps == ASSUME Inv, NEW l \in Lane, XorOnto(l) PROVE Inv'
<1> DEFINE t == local[l]
           u == [t EXCEPT !.i = @ + 1, !.curr = @ + 1, !.prev = @ + 1,
                          !.phase = IF t.i + 1 < SegmentLength THEN "address" ELSE "exited"]
<1>1. /\ t.phase = "xor" /\ main.pc # "done" /\ local' = [local EXCEPT ![l] = u]
      /\ UNCHANGED <<main, thread, thr_data, undefined, abandoned>> /\ ~Exited(l)
      /\ memory' = [memory EXCEPT ![l][t.curr] = Xor(@, t.r)]
  BY DEF XorOnto, Exited
<1>2. /\ TypeOK /\ Created(l) /\ MemoryInv(l) /\ LocalInv(l) /\ t \in Local
  BY <1>1, Running, TypeFacts
<1>3. /\ t.pass \in Pass /\ t.slice \in Slice /\ t.i \in 0 .. SegmentLength - 1
      /\ t.curr = t.slice * SegmentLength + t.i /\ t.curr \in Index
      /\ t.pass = main.pass /\ t.slice = main.slice
      /\ Frontier(l) = t.curr /\ Started(l) /\ Before(t.curr) \in Index
  BY <1>1, Curr
<1>4. /\ t.prev = Before(t.curr) /\ memory[l][t.curr] = t.tmp
      /\ Xor(t.tmp, t.r) = Golden[t.pass][l][t.curr]
      /\ Independent(t.pass, t.slice) => t.count = (t.i \div AddressesInBlock) + 1
      /\ t.i >= StartingIndex(main)
  BY <1>1, <1>2, <1>3 DEF LocalInv
<1>5. /\ u.i = t.i + 1 /\ u.curr = t.curr + 1 /\ u.prev = t.prev + 1
      /\ u.phase = IF t.i + 1 < SegmentLength THEN "address" ELSE "exited"
      /\ u.tmp = t.tmp /\ u.r = t.r /\ u.pass = t.pass /\ u.slice = t.slice /\ u.count = t.count
  BY <1>2 DEF Local
<1>6. u \in Local
  <2>1. t.i + 1 \in 0 .. SegmentLength /\ t.curr + 1 \in 0 .. LaneLength /\ t.prev + 1 \in 0 .. LaneLength
    BY <1>3, <1>4, Sizes DEF Index
  <2>. QED
    BY <1>2, <2>1 DEF Local, Phases
<1>. HIDE DEF u
<1>7. /\ local'[l] = u /\ Started(l)' /\ Frontier(l)' = t.curr + 1
      /\ memory' \in [Lane -> [Index -> Block]]
      /\ \A m \in Lane \ {l} : memory'[m] = memory[m]
      /\ memory'[l][t.curr] = Golden[t.pass][l][t.curr]
      /\ \A i \in Index \ {t.curr} : memory'[l][i] = memory[l][i]
  <2>1. Xor(memory[l][t.curr], t.r) \in Block
    BY <1>3, <1>4, GoldenType
  <2>2. local'[l] = u /\ u.phase # "created"
    BY <1>1, <1>2, <1>5 DEF TypeOK
  <2>3. Started(l)' /\ Frontier(l)' = t.curr + 1
    BY <1>1, <1>2, <1>5, <2>2 DEF Started, Frontier, Created
  <2>. QED
    BY <1>1, <1>2, <1>3, <1>4, <2>1, <2>2, <2>3 DEF TypeOK
<1>8. PrevOffset(u) = Before(u.curr)
  BY <1>3, <1>4, <1>5, Sizes DEF PrevOffset, Before, Index
<1>9. Independent(u.pass, u.slice) => AddressCount(u) = (u.i \div AddressesInBlock) + 1
  <2>1. (t.i + 1) \div AddressesInBlock
            = IF (t.i + 1) % AddressesInBlock = 0 THEN (t.i \div AddressesInBlock) + 1
              ELSE t.i \div AddressesInBlock
    <3>1. t.i \in Nat /\ AddressesInBlock \in Nat \ {0}
      BY <1>3, Sizes
    <3>. QED
      BY <3>1, DivStep
  <2>2. t.i \div AddressesInBlock \in Nat
    <3>1. t.i \in Nat /\ AddressesInBlock \in Nat \ {0}
      BY <1>3, Sizes
    <3>. QED
      BY <3>1, DivBounds
  <2>. HIDE DEF t
  <2>. QED
    BY <1>4, <1>5, <2>1, <2>2 DEF AddressCount
<1>10. LocalInv(l)'
  <2>1. StartingIndex(main)' = StartingIndex(main) /\ StartingIndex(main) \in {0, 2}
    BY <1>1, <1>2, TypeFacts DEF StartingIndex
  <2>2. /\ u.curr = main.slice * SegmentLength + u.i /\ u.i >= StartingIndex(main)
        /\ IF u.phase = "exited" THEN u.i = SegmentLength ELSE u.i < SegmentLength
    <3>1. main.slice * SegmentLength \in Nat
      BY <1>3, Sizes
    <3>. QED
      BY <1>3, <1>4, <1>5, <2>1, <3>1, Sizes
  <2>. QED
    BY <1>1, <1>3, <1>5, <1>7, <1>8, <1>9, <2>1, <2>2
       DEF LocalInv, PrevOffset, AddressCount
<1>11. MemoryInv(l)'
  <2>1. u.phase # "xor"
    BY <1>5
  <2>2. ASSUME NEW i \in Index
        PROVE  /\ i < t.curr + 1 => memory'[l][i] = Golden[main.pass][l][i]
               /\ i >= t.curr + 1 /\ main.pass > 0 => memory'[l][i] = Golden[main.pass - 1][l][i]
    <3>1. CASE i = t.curr
      BY <1>3, <1>7, <3>1, Sizes DEF Index
    <3>2. CASE i # t.curr
      BY <1>2, <1>3, <1>7, <3>2, Sizes DEF Index, MemoryInv
    <3>. QED
      BY <3>1, <3>2
  <2>. QED
    BY <1>1, <1>7, <2>1, <2>2 DEF MemoryInv
<1>. QED
  BY <1>1, <1>5, <1>6, <1>7, <1>10, <1>11, LaneStep

----------------------------------------------------------------------------
(* The steps of the main thread.                                           *)

\* Threads, lanes and memory are as they were for every lane the step does
\* not start or join.
LEMMA MainFrame ==
    ASSUME Inv, NEW m \in Lane, UNCHANGED memory, local'[m] = local[m],
           Started(m)' = Started(m), main'.pass = main.pass, main'.slice = main.slice,
           Sound
    PROVE  LocalInv(m)' /\ MemoryInv(m)'
<1>1. LocalInv(m) /\ MemoryInv(m)
  BY DEF Inv
<1>2. Frontier(m)' = Frontier(m)
  BY DEF Frontier, StartingIndex
<1>3. LocalInv(m)'
  BY <1>1, <1>2 DEF LocalInv, PrevOffset, AddressCount, StartingIndex
<1>4. MemoryInv(m)'
  BY <1>1, <1>2 DEF MemoryInv
<1>. QED
  BY <1>3, <1>4

LEMMA MainFacts ==
    ASSUME Inv
    PROVE  /\ TypeOK /\ MainInv /\ main \in Main /\ Lanes \in Nat /\ Lanes >= 1
           /\ main.threads \in Nat /\ main.threads >= 1 /\ main.threads <= Lanes
           /\ main.lane \in Nat /\ main.lane <= Lanes /\ main.until \in Nat /\ main.pass \in Nat
           /\ \A m \in Lane : m \in Nat /\ m < Lanes
           /\ \A n \in Nat : n < Lanes => n \in Lane
<1>1. TypeOK /\ MainInv
  BY DEF Inv
<1>. QED
  BY <1>1, TypeFacts, Sizes DEF Lane

LEMMA BeginKeeps == ASSUME Inv, Begin PROVE Inv'
<1>1. /\ TypeOK /\ MainInv /\ main.pc = "start" /\ main.rc = "OK" /\ main.pass = 0
      /\ main.slice = 0 /\ main.lane = 0 /\ ~abandoned
      /\ UNCHANGED <<memory, thread, thr_data, local, undefined, abandoned>>
  BY MainFacts DEF MainInv, Begin
<1>2. /\ main'.pc = "create" /\ main'.rc = main.rc /\ main'.pass = main.pass
      /\ main'.slice = main.slice /\ main'.lane = main.lane /\ main'.threads = main.threads
      /\ main' \in Main
  BY <1>1, MainFacts DEF Main, Begin
<1>3. TypeOK' /\ MainInv'
  <2>1. 0 \in Pass /\ 0 < Lanes
    BY Sizes DEF Pass
  <2>. QED
    BY <1>1, <1>2, <2>1 DEF TypeOK, MainInv
<1>4. \A m \in Lane : /\ ~Created(m) /\ ~Created(m)' /\ ~(m + main.threads < 0) /\ ~(m < 0)
                     /\ ThreadInv(m)
  BY <1>1, <1>2, MainFacts DEF Created, Inv
<1>5. \A m \in Lane : ThreadInv(m)'
  BY <1>1, <1>2, <1>4 DEF ThreadInv, Exited
<1>6. \A m \in Lane : LocalInv(m)' /\ MemoryInv(m)'
  BY <1>1, <1>2, <1>4, MainFrame DEF Started, Sound
<1>. QED
  BY <1>1, <1>2, <1>3, <1>5, <1>6 DEF Inv

LEMMA FailKeeps == ASSUME Inv, AllocationFails \/ JoinFails PROVE Inv'
<1>1. /\ TypeOK /\ MainInv
      /\ main'.pc = "done" /\ main'.rc # "OK" /\ main'.pass = main.pass
      /\ main'.threads = main.threads /\ main' \in Main
      /\ UNCHANGED <<memory, thread, thr_data, local, undefined>> /\ abandoned' \in BOOLEAN
      /\ main.pc = "start" \/ abandoned'
  BY MainFacts DEF TypeOK, Main, AllocationFails, JoinFails
<1>2. TypeOK' /\ MainInv' /\ ~Sound'
  BY <1>1 DEF TypeOK, MainInv, Sound
<1>3. ASSUME NEW m \in Lane PROVE ThreadInv(m)'
  <2>1. main.pc = "start" /\ ~abandoned => Exited(m)
    BY DEF Inv, ThreadInv, Created
  <2>. QED
    BY <1>1, <2>1 DEF Inv, MainInv, ThreadInv, Created, Exited
<1>4. undefined => abandoned' \/ main'.threads < Lanes
  BY <1>1 DEF Inv, MainInv
<1>. QED
  BY <1>1, <1>2, <1>3, <1>4 DEF Inv

LEMMA JoinLimitKeeps == ASSUME Inv, JoinLimit PROVE Inv'
<1>1. /\ TypeOK /\ MainInv /\ main.pc = "create" /\ main.lane < Lanes
      /\ main.lane >= main.threads /\ Exited(Blocking)
      /\ UNCHANGED <<memory, main, thr_data, local, undefined, abandoned>>
  BY MainFacts DEF JoinLimit, Join, MainInv, HasRoom
<1>2. Blocking \in Lane /\ Blocking + main.threads = main.lane
  <2>1. Blocking \in Nat /\ Blocking < Lanes
    BY <1>1, MainFacts DEF Blocking
  <2>. QED
    BY <2>1, MainFacts DEF Blocking
<1>3. /\ thread'[Blocking] = "joined" /\ TypeOK'
      /\ \A m \in Lane \ {Blocking} : thread'[m] = thread[m]
  BY <1>1, <1>2 DEF TypeOK, JoinLimit, Join
<1>4. \A m \in Lane : Created(m)' = Created(m)
  BY <1>1 DEF Created
<1>5. ASSUME NEW m \in Lane PROVE ThreadInv(m)'
  <2>1. ThreadInv(m)
    BY DEF Inv
  <2>2. CASE m = Blocking
    BY <1>1, <1>2, <1>3, <1>4, <2>1, <2>2, MainFacts DEF ThreadInv, Exited
  <2>3. CASE m # Blocking
    BY <1>1, <1>3, <1>4, <2>1, <2>3 DEF ThreadInv, Exited
  <2>. QED
    BY <2>2, <2>3
<1>6. \A m \in Lane : LocalInv(m)' /\ MemoryInv(m)'
  BY <1>1, <1>4, MainFrame DEF Started, Sound
<1>. QED
  BY <1>1, <1>3, <1>5, <1>6 DEF Inv, MainInv

LEMMA CreateKeeps == ASSUME Inv, Create PROVE Inv'
<1>0. PICK c \in Nat : c = main.lane
  BY MainFacts
<1>. USE <1>0
<1>1. /\ TypeOK /\ MainInv /\ main.pc = "create" /\ c < Lanes /\ c \in Lane /\ main.rc = "OK"
      /\ main.pass \in Pass /\ main.slice \in Slice /\ main.threads \in 1 .. Lanes
      /\ ~abandoned
      /\ UNCHANGED <<memory, undefined, abandoned>>
  BY MainFacts, TypeFacts, Sizes DEF Create, MainInv
<1>2. /\ main'.pass = main.pass /\ main'.slice = main.slice /\ main'.rc = main.rc
      /\ main'.threads = main.threads /\ main' \in Main
      /\ \/ main'.pc = "create" /\ main'.lane = c + 1 /\ c + 1 < Lanes
         \/ main'.pc = "join" /\ main'.lane = Lanes - main.threads /\ c + 1 = Lanes
  <2>1. c + 1 \in 0 .. Lanes /\ Lanes - main.threads \in 0 .. Lanes /\ (~(c + 1 < Lanes) => c + 1 = Lanes)
    BY <1>1, MainFacts
  <2>. QED
    BY <2>1, MainFacts DEF Main, Create
<1>3. /\ local'[c].phase = "created" /\ local' \in [Lane -> Local]
      /\ thread'[c] = "running"
      /\ thr_data'[c] = [pass |-> main.pass, slice |-> main.slice]
      /\ \A m \in Lane \ {c} : /\ local'[m] = local[m] /\ thread'[m] = thread[m]
                               /\ thr_data'[m] = thr_data[m]
  <2>1. [local[c] EXCEPT !.phase = "created"] \in Local
    <3>1. local[c] \in Local
      BY <1>1 DEF TypeOK
    <3>. QED
      BY <3>1 DEF Local, Phases
  <2>2. ([local[c] EXCEPT !.phase = "created"]).phase = "created"
    BY <1>1 DEF TypeOK, Local
  <2>. QED
    BY <1>1, <2>1, <2>2 DEF TypeOK, Create
<1>4. TypeOK'
  <2>1. [pass |-> main.pass, slice |-> main.slice] \in Position
    BY <1>1 DEF Position
  <2>. QED
    BY <1>1, <1>2, <1>3, <2>1 DEF TypeOK, Create
<1>5. MainInv'
  BY <1>1, <1>2, MainFacts DEF MainInv
<1>6. /\ Created(c)' /\ ~Created(c)
      /\ \A m \in Lane \ {c} : Created(m)' = Created(m)
  BY <1>1, <1>2, MainFacts DEF Created
<1>7. ASSUME NEW m \in Lane PROVE ThreadInv(m)'
  <2>1. ThreadInv(m)
    BY DEF Inv
  <2>2. CASE m = c
    BY <1>1, <1>2, <1>3, <1>6, <2>2, MainFacts DEF ThreadInv
  <2>3. CASE m # c
    <3>1. m + main.threads = c => thread[m] = "joined"
      BY <1>1, MainFacts DEF HasRoom, Blocking, Create
    <3>2. m + main.threads < c + 1 => thread[m] = "joined"
      <4>1. m + main.threads < c + 1 => m + main.threads < c \/ m + main.threads = c
        BY <1>1, MainFacts
      <4>2. m + main.threads < c => thread[m] = "joined"
        BY <1>1, <2>1 DEF ThreadInv
      <4>. QED
        BY <3>1, <4>1, <4>2
    <3>3. m < c + 1 /\ m + main.threads > c => thread[m] = "running"
      <4>1. m < c + 1 => m < c
        BY <2>3 DEF Lane
      <4>2. m < c /\ m + main.threads > c => thread[m] = "running"
        BY <1>1, <2>1 DEF ThreadInv
      <4>. QED
        BY <4>1, <4>2
    <3>4. main'.pc = "join" => /\ m < c + 1
                               /\ m < main'.lane <=> m + main.threads < c + 1
                               /\ ~(m < main'.lane) => m + main.threads > c
      BY <1>1, <1>2, MainFacts
    <3>5. m + main.threads > c + 1 => m + main.threads > c
      BY <1>1, MainFacts
    <3>6. main'.pc = "join" => thread'[m] = IF m < main'.lane THEN "joined" ELSE "running"
      BY <1>3, <2>3, <3>2, <3>3, <3>4
    <3>7. main'.pc = "create" => /\ m + main.threads < main'.lane => thread'[m] = "joined"
                                 /\ m < main'.lane /\ m + main.threads > main'.lane
                                       => thread'[m] = "running"
      BY <1>2, <1>3, <2>3, <3>2, <3>3, <3>5
    <3>. QED
      BY <1>1, <1>2, <1>3, <1>6, <2>1, <2>3, <3>6, <3>7 DEF ThreadInv, Exited
  <2>. QED
    BY <2>2, <2>3
<1>8. ASSUME NEW m \in Lane PROVE LocalInv(m)' /\ MemoryInv(m)'
  <2>1. CASE m # c
    BY <1>1, <1>2, <1>3, <1>6, <2>1, MainFrame DEF Started, Sound
  <2>2. CASE m = c
    <3>1. ~Started(c) /\ ~Started(c)' /\ Frontier(c)' = Frontier(c) /\ MemoryInv(c)
      <4>1. ~Started(c) /\ ~Started(c)'
        BY <1>3, <1>6 DEF Started
      <4>2. Frontier(c)' = Frontier(c)
        BY <1>2, <4>1 DEF Frontier, StartingIndex
      <4>. QED
        BY <1>1, <4>1, <4>2 DEF Inv, Sound
    <3>. QED
      <4>1. LocalInv(c)'
        BY <3>1 DEF LocalInv
      <4>2. MemoryInv(c)'
        BY <1>1, <1>2, <3>1 DEF MemoryInv
      <4>. QED
        BY <2>2, <4>1, <4>2
  <2>. QED
    BY <2>1, <2>2
<1>9. undefined' => abandoned' \/ main'.threads < Lanes
  BY <1>1, <1>2 DEF Inv
<1>. QED
  BY <1>4, <1>5, <1>7, <1>8, <1>9 DEF Inv

LEMMA CreateFailsKeeps == ASSUME Inv, CreateFails PROVE Inv'
<1> DEFINE c == main.lane
<1>1. /\ TypeOK /\ MainInv /\ main.pc = "create" /\ c < Lanes /\ c \in Lane
      /\ main.pass \in Pass /\ ~abandoned
      /\ UNCHANGED <<memory, thread, thr_data, local, undefined, abandoned>>
  BY MainFacts DEF MainInv, CreateFails
<1>2. /\ main'.pass = main.pass /\ main'.slice = main.slice /\ main'.rc = "THREAD_FAIL"
      /\ main'.threads = main.threads /\ main' \in Main /\ main'.pc = "drain"
      /\ main'.lane = 0 /\ main'.until = c
  <2>1. 0 \in 0 .. Lanes /\ c \in 0 .. Lanes
    BY MainFacts
  <2>. QED
    BY <2>1, MainFacts DEF Main, CreateFails
<1>3. TypeOK' /\ MainInv'
  BY <1>1, <1>2, MainFacts DEF TypeOK, MainInv
<1>4. \A m \in Lane : /\ Created(m)' = Created(m) /\ ~(m < 0) /\ m >= 0 
                     /\ ThreadInv(m)
  BY <1>1, <1>2, MainFacts DEF Created, Inv
<1>5. \A m \in Lane : ThreadInv(m)'
  BY <1>1, <1>2, <1>4 DEF ThreadInv, Exited
<1>6. \A m \in Lane : LocalInv(m)' /\ MemoryInv(m)'
  BY <1>1, <1>2, <1>4, MainFrame DEF Started, Sound
<1>. QED
  BY <1>1, <1>2, <1>3, <1>5, <1>6 DEF Inv

\* The loop after a failed creation goes on, whatever became of the join.
LEMMA DrainStep ==
    ASSUME Inv, main.pc = "drain", main.lane < main.until,
           main' = [main EXCEPT !.lane = @ + 1], UNCHANGED <<memory, thr_data, local>>,
           \/ UNCHANGED thread
           \/ thread' = [thread EXCEPT ![main.lane] = "joined"] /\ Exited(main.lane),
           abandoned' \in BOOLEAN, abandoned => abandoned', abandoned' \/ Exited(main.lane),
           undefined' \in BOOLEAN,
           undefined' => undefined \/ abandoned' \/ main.threads < Lanes
    PROVE  Inv'
<1> DEFINE c == main.lane
<1>1. /\ TypeOK /\ MainInv /\ main.until < Lanes /\ c \in Lane /\ main.until \in Nat
      /\ Created(c) /\ main.rc = "THREAD_FAIL"
  BY MainFacts DEF MainInv, Created
<1>2. /\ main'.pass = main.pass /\ main'.slice = main.slice /\ main'.rc = main.rc
      /\ main'.threads = main.threads /\ main' \in Main /\ main'.pc = main.pc
      /\ main'.lane = c + 1 /\ main'.until = main.until
  <2>1. c + 1 \in 0 .. Lanes
    BY <1>1, MainFacts
  <2>. QED
    BY <1>1, <2>1, MainFacts DEF Main
<1>3. /\ thread' \in [Lane -> {"none", "running", "joined"}]
      /\ thread'[c] # "none" /\ (thread'[c] = "joined" => Exited(c))
      /\ \A m \in Lane \ {c} : thread'[m] = thread[m]
  <2>1. thread[c] \in {"running", "joined"} /\ (thread[c] = "joined" => Exited(c))
    BY <1>1, TypeFacts DEF Inv, ThreadInv
  <2>. QED
    BY <1>1, <2>1 DEF TypeOK
<1>4. TypeOK' /\ MainInv'
  BY <1>1, <1>2, <1>3, MainFacts DEF TypeOK, MainInv
<1>5. \A m \in Lane : Created(m)' = Created(m)
  BY <1>1, <1>2 DEF Created
<1>6. ASSUME NEW m \in Lane PROVE ThreadInv(m)'
  <2>1. ThreadInv(m)
    BY DEF Inv
  <2>2. CASE m = c
    BY <1>1, <1>2, <1>3, <1>5, <2>1, <2>2, MainFacts DEF ThreadInv, Exited
  <2>3. CASE m # c
    BY <1>1, <1>2, <1>3, <1>5, <2>1, <2>3, MainFacts DEF ThreadInv, Exited
  <2>. QED
    BY <2>2, <2>3
<1>7. \A m \in Lane : LocalInv(m)' /\ MemoryInv(m)'
  BY <1>1, <1>2, <1>5, MainFrame DEF Started, Sound
<1>8. undefined' => abandoned' \/ main'.threads < Lanes
  BY <1>2 DEF Inv
<1>. QED
  BY <1>4, <1>6, <1>7, <1>8 DEF Inv

LEMMA DrainKeeps == ASSUME Inv, Drain \/ DrainFails \/ JoinAgain PROVE Inv'
<1>1. TypeOK /\ main.pc = "drain" /\ main.lane < main.until /\ main.lane \in Lane
  BY MainFacts DEF MainInv, Drain, DrainFails, JoinAgain
<1>2. CASE Drain
  BY <1>1, <1>2, DrainStep DEF Drain, Join, TypeOK
<1>3. CASE DrainFails
  BY <1>1, <1>3, DrainStep DEF DrainFails, TypeOK
<1>4. CASE JoinAgain
  <2>1. Exited(main.lane) /\ main.threads < Lanes
    <3>1. Created(main.lane) /\ ThreadInv(main.lane) /\ thread[main.lane] = "joined"
      BY <1>1, <1>4, TypeFacts DEF JoinAgain, Inv, ThreadInv, Created
    <3>2. main.threads # Lanes
      BY <1>1, <3>1, MainFacts DEF ThreadInv
    <3>. QED
      BY <3>1, <3>2, MainFacts DEF ThreadInv
  <2>. QED
    BY <1>1, <1>4, <2>1, DrainStep DEF JoinAgain, TypeOK
<1>. QED
  BY <1>2, <1>3, <1>4

LEMMA DrainedKeeps == ASSUME Inv, Drained PROVE Inv'
<1>1. /\ TypeOK /\ MainInv /\ main.pc = "drain" /\ main.lane = main.until
      /\ main.rc = "THREAD_FAIL"
      /\ UNCHANGED <<memory, thread, thr_data, local, undefined, abandoned>>
  BY MainFacts DEF MainInv, Drained
<1>2. /\ main'.rc = main.rc /\ main'.threads = main.threads /\ main' \in Main
      /\ main'.pc = "done"
  BY <1>1, MainFacts DEF Main, Drained
<1>3. TypeOK' /\ MainInv' /\ ~Sound'
  BY <1>1, <1>2 DEF TypeOK, MainInv, Sound
<1>4. ASSUME NEW m \in Lane PROVE ThreadInv(m)'
  <2>1. ~abandoned => Exited(m)
    <3>1. Created(m) <=> m < main.until
      BY <1>1 DEF Created
    <3>. QED
      BY <1>1, <3>1 DEF Inv, ThreadInv
  <2>. QED
    BY <1>1, <1>2, <2>1 DEF ThreadInv, Created, Exited
<1>. QED
  BY <1>1, <1>2, <1>3, <1>4 DEF Inv

\* After the last join every thread has built its segment.
LEMMA SliceDone ==
    ASSUME Inv, main.pc = "join", main.lane + 1 = Lanes, Exited(main.lane)
    PROVE  \A l \in Lane : /\ Exited(l)
                           /\ Frontier(l) = main.slice * SegmentLength + SegmentLength
<1>. SUFFICES ASSUME NEW l \in Lane
              PROVE  Exited(l) /\ Frontier(l) = main.slice * SegmentLength + SegmentLength
  OBVIOUS
<1>1. Created(l) /\ ThreadInv(l) /\ LocalInv(l)
  BY DEF Created, Inv, Sound
<1>2. Exited(l)
  <2>1. l < main.lane \/ l = main.lane
    BY MainFacts
  <2>. QED
    BY <1>1, <2>1 DEF ThreadInv
<1>. QED
  BY <1>1, <1>2 DEF LocalInv, Started, Frontier, Exited

LEMMA NextSliceKeeps ==
    ASSUME Inv, main.pc = "join", main.lane + 1 = Lanes, Exited(main.lane), main' = NextSlice,
           UNCHANGED <<memory, thr_data, local, undefined, abandoned>>,
           thread' \in [Lane -> {"none", "running", "joined"}]
    PROVE  Inv'
<1>1. /\ TypeOK /\ MainInv /\ main.pass \in Pass /\ main.rc = "OK" /\ ~abandoned
      /\ main.slice \in 0 .. 3
  BY MainFacts, TypeFacts DEF MainInv
<1>2. /\ main'.pc \in {"create", "done"} /\ main'.lane = 0 /\ main'.rc = "OK"
      /\ main'.threads = main.threads /\ main' \in Main
      /\ \/ /\ main.slice + 1 < 4 /\ main'.slice = main.slice + 1 /\ main'.pass = main.pass
            /\ main'.pc = "create"
         \/ /\ main.slice = 3 /\ main'.slice = 0 /\ main'.pass = main.pass + 1
            /\ IF main.pass + 1 < Passes THEN main'.pc = "create"
               ELSE main'.pc = "done" /\ main.pass + 1 = Passes
  <2>1. main.pass + 1 \in 0 .. Passes /\ 0 \in Slice /\ 0 \in 0 .. Lanes
    BY <1>1, Sizes DEF Pass
  <2>2. CASE main.slice + 1 < SyncPoints
    <3>1. main' = [main EXCEPT !.pc = "create", !.lane = 0, !.slice = main.slice + 1]
      BY <2>2 DEF NextSlice
    <3>2. main.slice + 1 \in Slice
      BY <1>1, <2>2, Sizes
    <3>. QED
      BY <1>1, <2>1, <2>2, <3>1, <3>2, MainFacts, Sizes DEF Main
  <2>3. CASE ~(main.slice + 1 < SyncPoints)
    <3>1. main' = [main EXCEPT !.pc = IF main.pass + 1 < Passes THEN "create" ELSE "done",
                               !.lane = 0, !.slice = 0, !.pass = main.pass + 1]
      BY <2>3 DEF NextSlice
    <3>2. main.slice = 3 /\ (~(main.pass + 1 < Passes) => main.pass + 1 = Passes)
      BY <1>1, <2>1, <2>3, Sizes
    <3>. QED
      BY <1>1, <2>1, <3>1, <3>2, MainFacts DEF Main
  <2>. QED
    BY <2>2, <2>3
<1>3. TypeOK'
  BY <1>1, <1>2 DEF TypeOK
<1>4. MainInv'
  BY <1>1, <1>2, MainFacts, Sizes DEF MainInv, Pass
<1>5. \A l \in Lane : Exited(l) /\ Frontier(l) = main.slice * SegmentLength + SegmentLength
  BY SliceDone
<1>6. \A l \in Lane : ~Created(l)' /\ ~(l + main.threads < 0) /\ ~(l < 0)
  BY <1>2, MainFacts DEF Created
<1>7. \A l \in Lane : ThreadInv(l)'
  BY <1>2, <1>5, <1>6 DEF ThreadInv, Exited
<1>8. \A l \in Lane : LocalInv(l)'
  BY <1>6 DEF LocalInv, Started
<1>9. ASSUME NEW l \in Lane PROVE MemoryInv(l)'
  <2>1. /\ MemoryInv(l) /\ ~Started(l)' /\ ~(local[l].phase = "xor")
        /\ Frontier(l)' = main'.slice * SegmentLength + StartingIndex(main')
        /\ StartingIndex(main') = 0
    <3>1. main'.slice # 0 \/ main'.pass # 0
      BY <1>1, <1>2, MainFacts, Sizes
    <3>. QED
      BY <1>5, <1>6, <3>1 DEF Inv, Sound, Started, Frontier, StartingIndex, Exited
  <2>2. CASE main'.slice = main.slice + 1 /\ main'.pass = main.pass
    <3>1. Frontier(l)' = Frontier(l)
      <4>1. (main.slice + 1) * SegmentLength = main.slice * SegmentLength + SegmentLength
            /\ main.slice * SegmentLength \in Nat
        <5>1. \A n \in Nat : /\ (n + 1) * SegmentLength = n * SegmentLength + SegmentLength
                              /\ n * SegmentLength \in Nat
          BY Sizes
        <5>. QED
          BY <1>1, <5>1
      <4>. QED
        BY <1>5, <2>1, <2>2, <4>1, Sizes
    <3>. QED
      BY <2>1, <2>2, <3>1 DEF MemoryInv
  <2>3. CASE main.slice = 3 /\ main'.slice = 0 /\ main'.pass = main.pass + 1
    <3>1. Frontier(l) = LaneLength /\ Frontier(l)' = 0
      BY <1>5, <2>1, <2>3, Sizes
    <3>2. \A i \in Index : memory[l][i] = Golden[main.pass][l][i]
      BY <2>1, <3>1, Sizes DEF MemoryInv, Index
    <3>3. main'.pass - 1 = main.pass
      BY <2>3, MainFacts
    <3>4. \A i \in Index : ~(i < 0)
      BY DEF Index
    <3>. QED
      BY <2>1, <3>1, <3>2, <3>3, <3>4 DEF MemoryInv
  <2>. QED
    BY <1>2, <2>2, <2>3
<1>10. undefined' => abandoned' \/ main'.threads < Lanes
  BY <1>2 DEF Inv
<1>. QED
  BY <1>3, <1>4, <1>7, <1>8, <1>9, <1>10 DEF Inv

LEMMA JoinRemainingKeeps == ASSUME Inv, JoinRemaining PROVE Inv'
<1>0. PICK c \in Nat : c = main.lane
  BY MainFacts
<1>. USE <1>0
<1>1. /\ TypeOK /\ MainInv /\ main.pc = "join" /\ c < Lanes /\ c \in Lane /\ Exited(c)
      /\ UNCHANGED <<memory, thr_data, local, undefined, abandoned>>
  BY MainFacts DEF JoinRemaining, Join, MainInv
<1>2. /\ thread' \in [Lane -> {"none", "running", "joined"}] /\ thread'[c] = "joined"
      /\ \A m \in Lane \ {c} : thread'[m] = thread[m]
  BY <1>1 DEF TypeOK, JoinRemaining, Join
<1>3. CASE c + 1 < Lanes
  <2>1. /\ main'.pc = main.pc /\ main'.pass = main.pass /\ main'.slice = main.slice
        /\ main'.rc = main.rc /\ main'.threads = main.threads /\ main'.lane = c + 1
        /\ main' \in Main
    <3>1. c + 1 \in 0 .. Lanes
      BY <1>3, MainFacts
    <3>. QED
      BY <1>3, <3>1, MainFacts DEF Main, JoinRemaining
  <2>2. TypeOK' /\ MainInv'
    BY <1>1, <1>2, <1>3, <2>1, MainFacts DEF TypeOK, MainInv
  <2>3. \A m \in Lane : Created(m)' /\ Created(m)
    BY <1>1, <2>1 DEF Created
  <2>4. ASSUME NEW m \in Lane PROVE ThreadInv(m)'
    <3>1. ThreadInv(m)
      BY DEF Inv
    <3>2. CASE m = c
      BY <1>1, <1>2, <2>1, <2>3, <3>1, <3>2 DEF ThreadInv, Exited
    <3>3. CASE m # c
      BY <1>1, <1>2, <2>1, <2>3, <3>1, <3>3, MainFacts DEF ThreadInv, Exited
    <3>. QED
      BY <3>2, <3>3
  <2>5. \A m \in Lane : LocalInv(m)' /\ MemoryInv(m)'
    BY <1>1, <2>1, <2>3, MainFrame DEF Started, Sound
  <2>6. undefined' => abandoned' \/ main'.threads < Lanes
    BY <1>1, <2>1 DEF Inv
  <2>. QED
    BY <2>2, <2>4, <2>5, <2>6 DEF Inv
<1>4. CASE ~(c + 1 < Lanes)
  <2>1. main' = NextSlice /\ c + 1 = Lanes
    BY <1>1, <1>4, MainFacts DEF JoinRemaining
  <2>. QED
    BY <1>1, <1>2, <2>1, NextSliceKeeps
<1>. QED
  BY <1>3, <1>4

LEMMA RunOnKeeps == ASSUME Inv, NEW l \in Lane, RunOn(l) PROVE Inv'
<1>1. /\ TypeOK /\ MainInv /\ main.pc = "done" /\ ~Exited(l)
      /\ UNCHANGED <<memory, main, thread, thr_data, abandoned>> /\ undefined' = TRUE
  BY DEF RunOn, Inv
<1>2. abandoned /\ ~Sound
  BY <1>1 DEF Inv, ThreadInv, Created, MainInv, Sound
<1>3. /\ local' \in [Lane -> Local] /\ \A m \in Lane \ {l} : local'[m] = local[m]
  <2>1. [local[l] EXCEPT !.phase = "exited"] \in Local
    <3>1. local[l] \in Local
      BY <1>1 DEF TypeOK
    <3>. QED
      BY <3>1 DEF Local, Phases
  <2>. QED
    BY <1>1, <2>1 DEF TypeOK, RunOn
<1>4. TypeOK' /\ MainInv' /\ ~Sound'
  BY <1>1, <1>2, <1>3 DEF TypeOK, MainInv, Sound
<1>5. \A m \in Lane : ThreadInv(m)'
  BY <1>1, <1>2 DEF ThreadInv, Created
<1>. QED
  BY <1>1, <1>2, <1>4, <1>5 DEF Inv

----------------------------------------------------------------------------
(* The theorems.                                                           *)

LEMMA NextInv == Inv /\ [Next]_vars => Inv'
<1>. SUFFICES ASSUME Inv, [Next]_vars PROVE Inv'
  OBVIOUS
<1>1. CASE MainRuns \/ MainFails
  BY <1>1, BeginKeeps, FailKeeps, JoinLimitKeeps, CreateKeeps, CreateFailsKeeps, DrainKeeps,
     DrainedKeeps, JoinRemainingKeeps DEF MainRuns, MainFails
<1>2. ASSUME NEW l \in Lane, ThreadStep(l) PROVE Inv'
  BY <1>2, StartKeeps, RunOnKeeps, ChooseRefKeeps, FillKeeps, CopyKeeps, XorOntoKeeps
     DEF ThreadStep
<1>3. CASE UNCHANGED vars
  BY <1>3 DEF vars, Inv, TypeOK, MainInv, ThreadInv, LocalInv, MemoryInv, Created, Started, Sound,
     Frontier, Exited, PrevOffset, AddressCount, StartingIndex
<1>. QED
  BY <1>1, <1>2, <1>3 DEF Next

LEMMA InvHolds == Spec => []Inv
<1>1. Init => Inv
  BY InitInv
<1>2. Inv /\ [Next]_vars => Inv'
  BY NextInv
<1>. QED
  BY <1>1, <1>2, PTL DEF Spec

\* The variables of fill_memory_blocks and fill_segment keep their types: no
\* offset leaves the lane, for any number of lanes and any segment length.
THEOREM TypeCorrect == Spec => []TypeOK
<1>1. Inv => TypeOK
  BY DEF Inv
<1>. QED
  BY <1>1, InvHolds, PTL

\* A thread never reads, as its reference, a block under construction: the
\* positions of index_alpha alone keep unsynchronised threads apart.
THEOREM NoRaceCorrect == Spec => []NoRace
<1>1. Inv => NoRace
  <2>. SUFFICES ASSUME Inv, main.pc # "done", NEW l \in Building, NEW m \in Building,
                       local[l].phase = "fill",
                       local[l].ref = [lane |-> m, index |-> local[m].curr]
                PROVE  FALSE
    BY DEF NoRace
  <2> DEFINE t == local[l]
             ref == RefOf(t.pass, l, t.slice, t.i)
             start == t.slice * SegmentLength
  <2>1. l \in Lane /\ m \in Lane /\ ~Exited(l)
    BY DEF Building, Exited
  <2>2. /\ t.pass \in Pass /\ t.slice \in Slice /\ t.i \in 0 .. SegmentLength - 1
        /\ t.pass = 0 /\ t.slice = 0 => t.i >= 2
        /\ t.curr = start + t.i /\ t.slice = main.slice /\ Started(l)
    BY <2>1, Curr
  <2>3. local[m].i \in 0 .. SegmentLength - 1 /\ local[m].curr = start + local[m].i
    BY <2>1, <2>2, Curr DEF Building
  <2>4. t.ref = ref
    BY <2>1, <2>2, Running DEF LocalInv
  <2>5. /\ ref.lane = l => ref.index # start + t.i
        /\ ref.lane # l => \/ ref.index < start
                           \/ ref.index >= (t.slice + 1) * SegmentLength
        /\ ref.index \in Index
    BY <2>1, <2>2, Reference
  <2>6. start \in Nat /\ (t.slice + 1) * SegmentLength = start + SegmentLength
    BY <2>2, Sizes
  <2>7. ref.lane = m /\ ref.index = start + local[m].i
    BY <2>3, <2>4
  <2>. HIDE DEF ref, start, t
  <2>8. CASE m = l
    BY <2>5, <2>7, <2>8 DEF t
  <2>9. CASE m # l
    BY <2>3, <2>5, <2>6, <2>7, <2>9, Sizes
  <2>. QED
    BY <2>8, <2>9
<1>. QED
  BY <1>1, InvHolds, PTL

\* A fill that succeeds leaves the blocks of the recurrence, whatever the
\* number of threads and the order they run in.
THEOREM FillDeterminedCorrect == Spec => []FillIsDetermined
<1>1. Inv => FillIsDetermined
  <2>. SUFFICES ASSUME Inv, main.pc = "done", main.rc = "OK"
                PROVE  memory = Golden[Passes - 1]
    BY DEF FillIsDetermined
  <2>1. /\ main.pass = Passes /\ main.slice = 0 /\ memory \in [Lane -> [Index -> Block]]
        /\ Passes - 1 \in Pass /\ Passes > 0
    BY MainFacts, Sizes DEF MainInv, TypeOK, Pass
  <2>2. ASSUME NEW l \in Lane, NEW i \in Index PROVE memory[l][i] = Golden[Passes - 1][l][i]
    <3>1. ~Started(l) /\ Frontier(l) = 0 /\ MemoryInv(l)
      BY <2>1, Sizes DEF Inv, Sound, Started, Created, Frontier, StartingIndex
    <3>. QED
      BY <2>1, <3>1 DEF MemoryInv, Index
  <2>3. Golden[Passes - 1] \in [Lane -> [Index -> Block]]
    BY <2>1, GoldenAssumption
  <2>4. ASSUME NEW l \in Lane PROVE memory[l] = Golden[Passes - 1][l]
    <3>1. memory[l] \in [Index -> Block] /\ Golden[Passes - 1][l] \in [Index -> Block]
      BY <2>1, <2>3
    <3>. QED
      BY <2>2, <3>1
  <2>. QED
    BY <2>1, <2>3, <2>4
<1>. QED
  BY <1>1, InvHolds, PTL

\* fill_memory_blocks leaves a thread behind only when a join failed.
THEOREM NoThreadOutlives == Spec => []NoThreadOutlivesFill
<1>1. Inv => NoThreadOutlivesFill
  BY DEF Inv, ThreadInv, Created, NoThreadOutlivesFill
<1>. QED
  BY <1>1, InvHolds, PTL

\* With as many threads as lanes, as argon2_hash asks, only a failed join
\* leads to what C does not define.
THEOREM JoinedOnceCorrect == Spec => []JoinedOnce
<1>1. Inv => JoinedOnce
  BY DEF Inv, JoinedOnce
<1>. QED
  BY <1>1, InvHolds, PTL

\* The loops of fill_memory_blocks wait only for a thread they created and have not
\* joined since, for every number of lanes and threads.
THEOREM WaitsCorrect == Spec => []WaitsForRunning
<1>1. Inv => WaitsForRunning
  <2>. SUFFICES ASSUME Inv PROVE WaitsForRunning
    OBVIOUS
  <2>1. ASSUME main.pc = "create", ~HasRoom PROVE thread[Blocking] = "running"
    <3>1. Blocking \in Lane /\ Blocking < main.lane
      BY <2>1, MainFacts DEF HasRoom, Blocking, MainInv
    <3>2. thread[Blocking] \notin {"none", "joined"}
      BY <2>1, <3>1 DEF HasRoom, Inv, ThreadInv, Created
    <3>. QED
      BY <3>1, <3>2, TypeFacts DEF Inv
  <2>2. ASSUME main.pc = "join" PROVE thread[main.lane] = "running"
    <3>1. main.lane \in Lane /\ ~(main.lane < main.lane)
      BY <2>2, MainFacts DEF MainInv
    <3>. QED
      BY <2>2, <3>1 DEF Inv, ThreadInv
  <2>. QED
    BY <2>1, <2>2 DEF WaitsForRunning
<1>. QED
  BY <1>1, InvHolds, PTL

----------------------------------------------------------------------------
(* The fill is finite: what the main thread and the lanes have left to do. *)

\* What a thread has left: four steps for a block, and its start.
LaneLeft(l) ==
    LET t == local[l]
    IN  CASE t.phase = "created" -> 4 * SegmentLength + 1
          [] t.phase = "address" -> 4 * (SegmentLength - t.i)
          [] t.phase = "fill" -> 4 * (SegmentLength - t.i) - 1
          [] t.phase = "copy" -> 4 * (SegmentLength - t.i) - 2
          [] t.phase = "xor" -> 4 * (SegmentLength - t.i) - 3
          [] t.phase = "exited" -> 0

\* The slices after this one, and the threads joined so far to make room.
SlicesAfter == SyncPoints * (Passes - 1 - main.pass) + SyncPoints - 1 - main.slice
JoinedForRoom ==
    IF main.lane < main.threads THEN 0
    ELSE IF thread[Blocking] = "joined" THEN main.lane - main.threads + 1
    ELSE main.lane - main.threads

\* What the main thread has left: for each lane of a slice a creation and a join, and
\* the joins of a creation that fails.
MainLeft ==
    CASE main.pc = "start" -> SyncPoints * Passes * (2 * Lanes) + Lanes + 2
      [] main.pc = "create" ->
             SlicesAfter * (2 * Lanes) + (2 * Lanes - main.lane - JoinedForRoom) + Lanes + 1
      [] main.pc = "join" -> SlicesAfter * (2 * Lanes) + (Lanes - main.lane) + Lanes + 1
      [] main.pc = "drain" -> main.until - main.lane + 1
      [] main.pc = "done" -> 0

LeftInRange ==
    /\ MainLeft \in 0 .. SyncPoints * Passes * (2 * Lanes) + Lanes + 2
    /\ MainLeft = 0 <=> main.pc = "done"
    /\ \A l \in Lane : /\ LaneLeft(l) \in 0 .. 4 * SegmentLength + 1
                       /\ LaneLeft(l) = 0 <=> Exited(l)

\* The main thread goes on, or one lane's thread does and nobody goes back.
FillAdvances ==
    \/ MainLeft' < MainLeft
    \/ /\ MainLeft' = MainLeft
       /\ \E l \in Lane : /\ LaneLeft(l)' < LaneLeft(l)
                          /\ \A m \in Lane \ {l} : LaneLeft(m)' = LaneLeft(m)

\* A block under construction is one of its segment, also when nobody waits for it.
InSegment ==
    \A l \in Lane : local[l].phase \in {"address", "fill", "copy", "xor"} =>
        local[l].i < SegmentLength

LEMMA NextInSegment == Inv /\ InSegment /\ [Next]_vars => InSegment'
<1>. SUFFICES ASSUME Inv, InSegment, [Next]_vars PROVE InSegment'
  OBVIOUS
<1>1. /\ SegmentLength \in Nat /\ SegmentLength >= 2 /\ local \in [Lane -> Local]
      /\ \A l \in Lane : local[l].i \in Int
  BY Sizes DEF Inv, TypeOK, Local
<1>2. ASSUME NEW l \in Lane, ThreadStep(l) PROVE InSegment'
  <2>1. \A m \in Lane \ {l} : local'[m] = local[m]
    BY <1>1, <1>2 DEF ThreadStep, Start, RunOn, ChooseRef, Fill, Copy, XorOnto
  <2>2. local'[l].phase \in {"address", "fill", "copy", "xor"} => local'[l].i < SegmentLength
    <3>1. local[l] \in Local
      BY <1>1
    <3>2. CASE Start(l)
      <4>1. \E first \in {0, 2} :
               /\ local'[l].i = first
               /\ local'[l].phase = IF first < SegmentLength THEN "address" ELSE "exited"
        BY <1>1, <3>1, <3>2 DEF Start, StartingIndex, Local
      <4>. QED
        BY <4>1
    <3>3. CASE RunOn(l)
      BY <1>1, <3>1, <3>3 DEF RunOn, Local
    <3>4. CASE ChooseRef(l) \/ Fill(l) \/ Copy(l)
      <4>1. local'[l].i = local[l].i /\ local[l].phase \in {"address", "fill", "copy"}
        <5>1. CASE ChooseRef(l)
          BY <1>1, <3>1, <5>1 DEF ChooseRef, Local
        <5>2. CASE Fill(l)
          BY <1>1, <3>1, <5>2 DEF Fill, Local
        <5>3. CASE Copy(l)
          BY <1>1, <3>1, <5>3 DEF Copy, Local
        <5>. QED
          BY <3>4, <5>1, <5>2, <5>3
      <4>. QED
        BY <4>1 DEF InSegment
    <3>5. CASE XorOnto(l)
      BY <1>1, <3>1, <3>5 DEF XorOnto, Local, InSegment
    <3>. QED
      BY <1>2, <3>2, <3>3, <3>4, <3>5 DEF ThreadStep
  <2>. QED
    BY <2>1, <2>2 DEF InSegment
<1>3. CASE MainRuns \/ MainFails
  <2>1. \A m \in Lane : local'[m] = local[m] \/ local'[m].phase = "created"
    BY <1>1, <1>3 DEF MainRuns, MainFails, Begin, AllocationFails, JoinLimit, Create,
       CreateFails, Drain, DrainFails, JoinAgain, Drained, JoinRemaining, JoinFails, Local
  <2>. QED
    BY <2>1 DEF InSegment
<1>4. CASE UNCHANGED vars
  BY <1>4 DEF vars, InSegment
<1>. QED
  BY <1>2, <1>3, <1>4 DEF Next

LEMMA LaneLeftAt ==
    ASSUME Inv, InSegment, NEW l \in Lane
    PROVE  /\ LaneLeft(l) \in 0 .. 4 * SegmentLength + 1
           /\ LaneLeft(l) = 0 <=> Exited(l)
<1>1. /\ local[l].phase \in Phases /\ local[l].i \in 0 .. SegmentLength
      /\ SegmentLength \in Nat /\ SegmentLength >= 2
  BY Sizes DEF Inv, TypeOK, Local
<1>. QED
  BY <1>1 DEF LaneLeft, Phases, Exited, InSegment

\* A step of a lane's thread is one of its own alone.
LEMMA ThreadAdvances ==
    ASSUME Inv, InSegment, NEW l \in Lane, ThreadStep(l)
    PROVE  FillAdvances
<1>1. /\ SegmentLength \in Nat /\ SegmentLength >= 2 /\ local \in [Lane -> Local]
      /\ local[l] \in Local /\ local[l].i \in 0 .. SegmentLength
  BY Sizes DEF Inv, TypeOK, Local
<1>2. main' = main /\ thread' = thread /\ \A m \in Lane \ {l} : local'[m] = local[m]
  BY <1>1 DEF ThreadStep, Start, RunOn, ChooseRef, Fill, Copy, XorOnto
<1>3. MainLeft' = MainLeft
  BY <1>2 DEF MainLeft, SlicesAfter, JoinedForRoom, Blocking
<1>4. \A m \in Lane \ {l} : LaneLeft(m)' = LaneLeft(m)
  BY <1>2 DEF LaneLeft
<1>5. LaneLeft(l)' < LaneLeft(l)
  <2>1. CASE Start(l)
    <3>1. /\ local[l].phase = "created"
          /\ \/ local'[l].phase = "exited"
             \/ local'[l].phase = "address" /\ local'[l].i \in {0, 2}
      BY <1>1, <2>1 DEF Start, StartingIndex, Local
    <3>. QED
      BY <1>1, <3>1 DEF LaneLeft
  <2>2. CASE RunOn(l)
    <3>1. ~Exited(l) /\ local'[l].phase = "exited"
      BY <1>1, <2>2 DEF RunOn, Local
    <3>2. LaneLeft(l) \in Nat /\ LaneLeft(l) # 0
      BY <1>1, <3>1, LaneLeftAt
    <3>3. LaneLeft(l)' = 0
      BY <3>1 DEF LaneLeft
    <3>. QED
      BY <3>2, <3>3
  <2>3. CASE ChooseRef(l)
    <3>1. local[l].phase = "address" /\ local'[l].phase = "fill" /\ local'[l].i = local[l].i
      BY <1>1, <2>3 DEF ChooseRef, Local
    <3>. QED
      BY <1>1, <3>1 DEF LaneLeft
  <2>4. CASE Fill(l)
    <3>1. local[l].phase = "fill" /\ local'[l].phase = "copy" /\ local'[l].i = local[l].i
      BY <1>1, <2>4 DEF Fill, Local
    <3>. QED
      BY <1>1, <3>1 DEF LaneLeft
  <2>5. CASE Copy(l)
    <3>1. local[l].phase = "copy" /\ local'[l].phase = "xor" /\ local'[l].i = local[l].i
      BY <1>1, <2>5 DEF Copy, Local
    <3>. QED
      BY <1>1, <3>1 DEF LaneLeft
  <2>6. CASE XorOnto(l)
    <3>1. /\ local[l].phase = "xor" /\ local'[l].i = local[l].i + 1
          /\ local'[l].phase = IF local[l].i + 1 < SegmentLength THEN "address" ELSE "exited"
      BY <1>1, <2>6 DEF XorOnto, Local
    <3>2. local[l].i < SegmentLength
      BY <3>1 DEF InSegment
    <3>. QED
      BY <1>1, <3>1, <3>2 DEF LaneLeft
  <2>. QED
    BY <2>1, <2>2, <2>3, <2>4, <2>5, <2>6 DEF ThreadStep
<1>. QED
  BY <1>3, <1>4, <1>5 DEF FillAdvances

\* A slice is worth the same number of steps each time.
LEMMA Products ==
    ASSUME NEW n \in Nat, NEW a \in Nat, NEW b \in Nat
    PROVE  /\ a * n \in Nat
           /\ a < b => a * n + n <= b * n
           /\ a + 1 = b => b * n = a * n + n
<1>1. a * n \in Nat /\ b * n \in Nat
  OBVIOUS
<1>2. ASSUME a < b PROVE a * n + n <= b * n
  <2>1. PICK c \in Nat : b = a + 1 + c
    BY <1>2, b - a - 1 \in Nat, b = a + 1 + (b - a - 1)
  <2>2. b * n = a * n + n + c * n /\ c * n \in Nat
    BY <2>1
  <2>. QED
    BY <1>1, <2>2
<1>3. a + 1 = b => b * n = a * n + n
  OBVIOUS
<1>. QED
  BY <1>1, <1>2, <1>3

LEMMA SlicesLeft ==
    Inv /\ main.pc \in {"create", "join"} =>
        /\ SlicesAfter \in Nat /\ SlicesAfter < SyncPoints * Passes
        /\ SlicesAfter * (2 * Lanes) \in Nat
        /\ SlicesAfter * (2 * Lanes) + 2 * Lanes <= SyncPoints * Passes * (2 * Lanes)
<1>. SUFFICES ASSUME Inv, main.pc \in {"create", "join"}
              PROVE  /\ SlicesAfter \in Nat /\ SlicesAfter < SyncPoints * Passes
                     /\ SlicesAfter * (2 * Lanes) \in Nat
                     /\ SlicesAfter * (2 * Lanes) + 2 * Lanes
                            <= SyncPoints * Passes * (2 * Lanes)
  OBVIOUS
<1>1. SlicesAfter \in Nat /\ SlicesAfter < SyncPoints * Passes /\ SyncPoints * Passes \in Nat
  <2>1. main.pass \in 0 .. Passes - 1 /\ main.slice \in 0 .. 3
    BY TypeFacts DEF Inv, MainInv, Pass
  <2>. QED
    BY <2>1, Sizes DEF SlicesAfter
<1>2. 2 * Lanes \in Nat
  BY Sizes
<1>. QED
  BY <1>1, <1>2, Products

LEMMA JoinsForRoom ==
    Inv /\ main.pc = "create" =>
        /\ JoinedForRoom \in Nat /\ main.lane + JoinedForRoom + 1 <= 2 * Lanes
        /\ main.lane < main.threads => JoinedForRoom = 0
        /\ HasRoom /\ main.lane >= main.threads =>
               JoinedForRoom = main.lane - main.threads + 1
        /\ ~HasRoom => main.lane >= main.threads
                       /\ JoinedForRoom = main.lane - main.threads
  BY MainFacts DEF JoinedForRoom, HasRoom, MainInv

\* The same in the next state.
LEMMA MainNext ==
    (Inv /\ main.pc \in {"create", "join"} => main.lane \in Nat /\ main.lane < Lanes)'
<1>1. Inv /\ main.pc \in {"create", "join"} => main.lane \in Nat /\ main.lane < Lanes
  BY MainFacts DEF MainInv
<1>. QED
  BY <1>1, PTL

LEMMA SlicesNext ==
    (Inv /\ main.pc \in {"create", "join"} =>
        /\ SlicesAfter \in Nat /\ SlicesAfter < SyncPoints * Passes
        /\ SlicesAfter * (2 * Lanes) \in Nat
        /\ SlicesAfter * (2 * Lanes) + 2 * Lanes <= SyncPoints * Passes * (2 * Lanes))'
  BY SlicesLeft, PTL

LEMMA JoinsNext ==
    (Inv /\ main.pc = "create" =>
        /\ JoinedForRoom \in Nat /\ main.lane + JoinedForRoom + 1 <= 2 * Lanes
        /\ main.lane < main.threads => JoinedForRoom = 0
        /\ HasRoom /\ main.lane >= main.threads =>
               JoinedForRoom = main.lane - main.threads + 1
        /\ ~HasRoom => main.lane >= main.threads
                       /\ JoinedForRoom = main.lane - main.threads)'
  BY JoinsForRoom, PTL

LEMMA MainLeftAt ==
    ASSUME Inv
    PROVE  /\ MainLeft \in 0 .. SyncPoints * Passes * (2 * Lanes) + Lanes + 2
           /\ MainLeft = 0 <=> main.pc = "done"
           /\ main.pc \in {"create", "join"} => MainLeft > Lanes + 1
<1>1. MainInv /\ main \in Main /\ Lanes \in Nat /\ Lanes >= 1 /\ main.lane \in 0 .. Lanes
      /\ main.until \in 0 .. Lanes
  BY MainFacts, TypeFacts
<1>2. SyncPoints * Passes * (2 * Lanes) \in Nat
  <2>1. SyncPoints * Passes \in Nat /\ 2 * Lanes \in Nat
    BY Sizes
  <2>. QED
    BY <2>1, Products
<1>. DEFINE total == SyncPoints * Passes * (2 * Lanes)
            later == SlicesAfter * (2 * Lanes)
<1>3. main.pc \in {"create", "join"} => later \in Nat /\ later + 2 * Lanes <= total
  BY SlicesLeft
<1>. HIDE DEF total, later
<1>4. CASE main.pc = "start"
  BY <1>1, <1>2, <1>4 DEF MainLeft, total
<1>5. CASE main.pc = "create"
  BY <1>1, <1>2, <1>3, <1>5, JoinsForRoom DEF MainLeft, total, later, MainInv
<1>6. CASE main.pc = "join"
  BY <1>1, <1>2, <1>3, <1>6 DEF MainLeft, total, later, MainInv
<1>7. CASE main.pc = "drain"
  BY <1>1, <1>2, <1>7 DEF MainLeft, total, MainInv
<1>8. CASE main.pc = "done"
  BY <1>1, <1>2, <1>8 DEF MainLeft, total
<1>. QED
  BY <1>1, <1>4, <1>5, <1>6, <1>7, <1>8 DEF Main

\* The main thread.
LEMMA MainAdvances == ASSUME Inv, Inv', MainRuns \/ MainFails PROVE MainLeft' < MainLeft
<1>1. /\ MainInv /\ main \in Main /\ Lanes \in Nat /\ Lanes >= 1 /\ main.lane \in 0 .. Lanes
      /\ main.until \in 0 .. Lanes /\ main.threads \in 1 .. Lanes
      /\ main.pass \in 0 .. Passes /\ main.slice \in 0 .. 3 /\ thread \in [Lane -> {"none", "running", "joined"}]
  BY MainFacts, TypeFacts DEF TypeOK
<1>2. MainLeft \in Nat /\ (MainLeft = 0 <=> main.pc = "done")
  BY MainLeftAt, Products
<1>. DEFINE total == SyncPoints * Passes * (2 * Lanes)
            later == SlicesAfter * (2 * Lanes)
<1>3. main.pc \in {"create", "join"} => later \in Nat /\ later + 2 * Lanes <= total
  BY SlicesLeft
<1>. HIDE DEF total, later
<1>4. CASE Begin
  <2>1. /\ main.pc = "start" /\ main'.pc = "create" /\ main'.pass = 0 /\ main'.slice = 0
        /\ main'.lane = 0
    BY <1>1, <1>4 DEF Begin, MainInv, Main
  <2>2. PICK q \in Nat : SlicesAfter' * (2 * Lanes) = q /\ q + 2 * Lanes <= total
    BY <2>1, SlicesNext DEF total
  <2>3. MainLeft' = q + (2 * Lanes - 0 - JoinedForRoom') + Lanes + 1
    BY <2>1, <2>2 DEF MainLeft
  <2>4. JoinedForRoom' \in Nat
    BY <2>1, JoinsNext
  <2>5. MainLeft = total + Lanes + 2
    BY <2>1 DEF MainLeft, total
  <2>6. total \in Int
    <3>1. SyncPoints * Passes \in Nat /\ 2 * Lanes \in Nat
      BY Sizes
    <3>. QED
      BY <3>1, Products DEF total
  <2>7. PICK j \in Nat : JoinedForRoom' = j
    BY <2>4
  <2>8. Lanes \in Nat
    BY <1>1
  <2>9. MainLeft' = q + 2 * Lanes - j + Lanes + 1
    BY <2>3, <2>7, <2>8
  <2>. QED
    BY <2>2, <2>5, <2>6, <2>8, <2>9
<1>5. CASE AllocationFails \/ JoinFails \/ Drained
  <2>1. main'.pc = "done" /\ main.pc # "done"
    BY <1>1, <1>5 DEF AllocationFails, JoinFails, Drained, Main
  <2>2. MainLeft' = 0
    BY <2>1 DEF MainLeft
  <2>. QED
    BY <1>2, <2>1, <2>2
<1>6. CASE JoinLimit
  <2>1. main.pc = "create" /\ ~HasRoom /\ main' = main /\ thread'[Blocking] = "joined"
    <3>1. Blocking \in Lane
      BY <1>1, <1>6 DEF JoinLimit, HasRoom, Blocking, Lane, MainInv
    <3>. QED
      BY <1>1, <1>6, <3>1 DEF JoinLimit, Join
  <2>2. HasRoom' /\ later' = later
    BY <2>1 DEF HasRoom, Blocking, later, SlicesAfter
  <2>3. JoinedForRoom' = JoinedForRoom + 1 /\ JoinedForRoom \in Nat
    BY <1>1, <2>1, <2>2, JoinsForRoom DEF JoinedForRoom, HasRoom, Blocking
  <2>. QED
    BY <1>1, <1>3, <2>1, <2>2, <2>3 DEF MainLeft, later
<1>7. CASE Create
  <2>1. /\ main.pc = "create" /\ HasRoom /\ main.lane < Lanes
        /\ main'.pass = main.pass /\ main'.slice = main.slice /\ main'.threads = main.threads
        /\ \/ main'.pc = "create" /\ main'.lane = main.lane + 1
           \/ main'.pc = "join" /\ main'.lane = Lanes - main.threads /\ main.lane = Lanes - 1
    BY <1>1, <1>7 DEF Create, MainInv, Main
  <2>2. later' = later
    BY <2>1 DEF later, SlicesAfter
  <2>3. CASE main'.pc = "create"
    <3>1. main'.lane = main.lane + 1 /\ main'.lane < Lanes
      BY <2>1, <2>3, MainNext
    <3>2. JoinedForRoom' \in Nat /\ JoinedForRoom \in Nat /\ JoinedForRoom' >= JoinedForRoom
      <4>1. JoinedForRoom' \in Nat /\ JoinedForRoom \in Nat
        BY <2>1, <2>3, JoinsForRoom, JoinsNext
      <4>2. CASE main.lane < main.threads
        BY <2>1, <4>1, <4>2, JoinsForRoom
      <4>3. CASE main.lane >= main.threads
        <5>1. JoinedForRoom = main.lane - main.threads + 1
          BY <2>1, <4>3, JoinsForRoom
        <5>2. JoinedForRoom' \in {main'.lane - main.threads, main'.lane - main.threads + 1}
          BY <1>1, <2>1, <3>1, <4>3 DEF JoinedForRoom
        <5>3. main.lane \in Int /\ main.threads \in Int
          BY <1>1
        <5>. QED
          BY <3>1, <4>1, <5>1, <5>2, <5>3
      <4>. QED
        BY <1>1, <4>2, <4>3
    <3>3. /\ MainLeft = later + (2 * Lanes - main.lane - JoinedForRoom) + Lanes + 1
          /\ MainLeft' = later + (2 * Lanes - main'.lane - JoinedForRoom') + Lanes + 1
      BY <2>1, <2>2, <2>3 DEF MainLeft, later
    <3>. QED
      BY <1>1, <1>3, <2>1, <3>1, <3>2, <3>3
  <2>4. CASE main'.pc = "join"
    <3>1. /\ MainLeft = later + (2 * Lanes - main.lane - JoinedForRoom) + Lanes + 1
          /\ MainLeft' = later + (Lanes - main'.lane) + Lanes + 1
      BY <2>1, <2>2, <2>4 DEF MainLeft, later
    <3>2. main'.lane = Lanes - main.threads /\ main.lane = Lanes - 1
      BY <2>1, <2>4
    <3>3. JoinedForRoom <= Lanes - main.threads /\ JoinedForRoom \in Nat
      BY <1>1, <2>1, <3>2, JoinsForRoom
    <3>. QED
      BY <1>1, <1>3, <2>1, <3>1, <3>2, <3>3
  <2>. QED
    BY <2>1, <2>3, <2>4
<1>8. CASE CreateFails
  <2>1. /\ main.pc = "create" /\ main'.pc = "drain" /\ main'.until = main.lane
        /\ main'.lane = 0 /\ main.lane < Lanes
    BY <1>1, <1>8 DEF CreateFails, MainInv, Main
  <2>2. MainLeft' = main.lane - 0 + 1
    BY <2>1 DEF MainLeft
  <2>3. MainLeft > Lanes + 1
    BY <2>1, MainLeftAt
  <2>. QED
    BY <1>1, <1>2, <2>1, <2>2, <2>3
<1>9. CASE Drain \/ DrainFails \/ JoinAgain
  <2>1. main.pc = "drain" /\ main'.pc = "drain" /\ main'.until = main.until
        /\ main'.lane = main.lane + 1
    BY <1>1, <1>9 DEF Drain, DrainFails, JoinAgain, Main
  <2>. QED
    BY <1>1, <2>1 DEF MainLeft
<1>10. CASE JoinRemaining
  <2>1. main.pc = "join" /\ main.lane < Lanes
        /\ MainLeft = later + (Lanes - main.lane) + Lanes + 1
    BY <1>1, <1>10 DEF JoinRemaining, MainInv, MainLeft, later
  <2>2. CASE main.lane + 1 < Lanes
    <3>1. main'.pc = "join" /\ main'.lane = main.lane + 1 /\ main'.pass = main.pass
          /\ main'.slice = main.slice
      BY <1>1, <1>10, <2>1, <2>2 DEF JoinRemaining, Main
    <3>2. MainLeft' = later + (Lanes - main'.lane) + Lanes + 1
      BY <3>1 DEF MainLeft, later, SlicesAfter
    <3>. QED
      BY <1>1, <1>3, <2>1, <3>1, <3>2
  <2>3. CASE ~(main.lane + 1 < Lanes)
    <3>1. main' = NextSlice /\ main.lane = Lanes - 1
      BY <1>1, <1>10, <2>1, <2>3 DEF JoinRemaining
    <3>2. CASE main'.pc = "done"
      <4>1. MainLeft' = 0
        BY <3>2 DEF MainLeft
      <4>. QED
        BY <1>2, <2>1, <4>1
    <3>3. CASE main'.pc # "done"
      <4>1. /\ main'.pc = "create" /\ main'.lane = 0 /\ main'.threads = main.threads
            /\ \/ main'.slice = main.slice + 1 /\ main'.pass = main.pass
               \/ main'.slice = 0 /\ main.slice = 3 /\ main'.pass = main.pass + 1
        BY <1>1, <3>1, <3>3, Sizes DEF NextSlice, Main
      <4>2. SlicesAfter' + 1 = SlicesAfter /\ SlicesAfter' \in Nat /\ SlicesAfter \in Nat
        <5>1. SlicesAfter' \in Nat /\ SlicesAfter \in Nat
          BY <2>1, <4>1, SlicesLeft, SlicesNext
        <5>. QED
          BY <1>1, <4>1, <5>1, Sizes DEF SlicesAfter
      <4>3. PICK q \in Nat : SlicesAfter' * (2 * Lanes) = q /\ later = q + 2 * Lanes
        BY <1>1, <4>2, Products DEF later
      <4>4. JoinedForRoom' = 0
        BY <1>1, <4>1 DEF JoinedForRoom
      <4>5. MainLeft' = q + (2 * Lanes - 0 - 0) + Lanes + 1
        BY <4>1, <4>3, <4>4 DEF MainLeft
      <4>. QED
        BY <1>1, <2>1, <3>1, <4>3, <4>5
    <3>. QED
      BY <3>2, <3>3
  <2>. QED
    BY <2>2, <2>3
<1>. QED
  BY <1>4, <1>5, <1>6, <1>7, <1>8, <1>9, <1>10 DEF MainRuns, MainFails

LEMMA NextAdvances == Inv /\ Inv' /\ InSegment /\ [Next]_vars => [FillAdvances]_vars
  BY MainAdvances, ThreadAdvances DEF Next, FillAdvances

\* fill_memory_blocks and its threads take a bounded number of steps, in any schedule
\* and whatever fails: the main thread one for each lane it creates or joins, a lane
\* four for each block of its segment. That it takes them is FillEnds, by fairness.
THEOREM FillIsFinite == Spec => []LeftInRange /\ [][FillAdvances]_vars
<1>1. Init => InSegment
  BY DEF Init, InSegment
<1>2. Inv /\ InSegment => LeftInRange
  BY MainLeftAt, LaneLeftAt DEF LeftInRange
<1>. QED
  BY <1>1, <1>2, NextInSegment, NextAdvances, InvHolds, PTL DEF Spec
=============================================================================
