----------------------------- MODULE RunAllProofs -----------------------------
(***************************************************************************)
(* The nanots backend, a run of the program with it and the scripts, for    *)
(* any command lines, sizes, streams and faults.                            *)
(***************************************************************************)
EXTENDS RunAll, FiniteSetTheorems, SequenceTheorems, WellFoundedInduction, TLAPS

------------------------------------------------------------------------------
(* The layout of a file *)

\* The larger of two numbers.
LEMMA MaxOfTwo ==
    ASSUME NEW a \in Nat, NEW b \in Nat
    PROVE  Max({a, b}) \in {a, b} /\ Max({a, b}) >= a /\ Max({a, b}) >= b
<1>1. CASE a >= b
  <2>1. a \in {a, b} /\ \A y \in {a, b} : a >= y
    BY <1>1
  <2>2. Max({a, b}) \in {a, b} /\ \A y \in {a, b} : Max({a, b}) >= y
    BY <2>1, Zenon DEF Max
  <2>. QED BY <2>2
<1>2. CASE ~(a >= b)
  <2>1. b \in {a, b} /\ \A y \in {a, b} : b >= y
    BY <1>2
  <2>2. Max({a, b}) \in {a, b} /\ \A y \in {a, b} : Max({a, b}) >= y
    BY <2>1, Zenon DEF Max
  <2>. QED BY <2>2
<1>. QED BY <1>1, <1>2

\* Division rounded up.
LEMMA RoundedUp ==
    ASSUME NEW n \in Nat, NEW b \in Nat \ {0}
    PROVE  /\ (n + b - 1) \div b \in Nat
           /\ ((n + b - 1) \div b) * b >= n
<1>. DEFINE m == n + b - 1
            q == m \div b
<1>1. m \in Nat
  OBVIOUS
<1>2. q \in Nat
  BY <1>1
<1>3. m < b * (q + 1)
  BY <1>1
<1>4. b * (q + 1) = q * b + b
  BY <1>2
<1>5. q * b \in Nat
  BY <1>2
<1>. QED BY <1>1, <1>2, <1>3, <1>4, <1>5

\* What fits is not cut.
LEMMA Fits ==
    ASSUME NEW n \in Nat, NEW w \in Nat, n < w
    PROVE  n % w = n
OBVIOUS

LEMMA LargerProduct ==
    ASSUME NEW m \in Nat, NEW n \in Nat, NEW b \in Nat, m >= n
    PROVE  m * b \in Nat /\ n * b \in Nat /\ m * b >= n * b
OBVIOUS

\* "Block size = durability window" (nanots_backend.cpp:116): a durability that fits
\* into 32 bits is the size of a block, or gives way to the minimum; then the block
\* is accepted, and no division is by zero.
THEOREM BlockIsTheWindow ==
    ASSUME NEW durability \in Nat, durability < Word32
    PROVE  /\ BlockSize(durability) \in {MinBlockSize, durability}
           /\ BlockSize(durability) >= MinBlockSize
           /\ BlockSize(durability) >= durability
           /\ \A requested \in Nat : ~DividesByZero(requested, BlockSize(durability))
<1>1. /\ MinBlockSize \in Nat \ {0} /\ Word32 \in Nat
      /\ MinBlockSize < Word32
  BY SizingAssumption
<1>2. /\ Max({MinBlockSize, durability}) \in {MinBlockSize, durability}
      /\ Max({MinBlockSize, durability}) >= MinBlockSize
      /\ Max({MinBlockSize, durability}) >= durability
  BY <1>1, MaxOfTwo
<1>3. BlockSize(durability) = Max({MinBlockSize, durability})
  BY <1>1, <1>2 DEF BlockSize
<1>. QED BY <1>1, <1>2, <1>3 DEF DividesByZero

\* "We need enough blocks so the benchmark's data fits without recycling during a
\* run." (nanots_backend.cpp:17-18): unless the number of bytes or that of blocks is
\* too large for its type, an automatically sized file has room for all bytes expected
\* and for the spare blocks besides them, and no fewer blocks than the minimum.
THEOREM FileHoldsExpectedBytes ==
    ASSUME NEW blockSize \in Nat \ {0}, NEW expected \in Nat \ {0},
           expected + blockSize - 1 < Word64,
           (expected + blockSize - 1) \div blockSize + SpareBlocks < Word32
    PROVE  /\ BlocksFor(0, expected, blockSize) >= MinBlocks
           /\ (BlocksFor(0, expected, blockSize) - SpareBlocks) * blockSize >= expected
<1>. DEFINE q == (expected + blockSize - 1) \div blockSize
            n == Max({MinBlocks, q + SpareBlocks})
<1>1. q \in Nat /\ q * blockSize >= expected
  BY RoundedUp
<1>2. /\ MinBlocks \in Nat /\ SpareBlocks \in Nat /\ Word32 \in Nat /\ Word64 \in Nat
      /\ MinBlocks < Word32
  BY SizingAssumption
<1>3. n \in {MinBlocks, q + SpareBlocks} /\ n >= MinBlocks /\ n >= q + SpareBlocks
  BY <1>1, <1>2, MaxOfTwo
<1>4. BlocksFor(0, expected, blockSize) = n
  <2>1. (expected + blockSize - 1) % Word64 = expected + blockSize - 1
    BY <1>2
  <2>2. n % Word32 = n
    <3>1. n \in Nat /\ n < Word32
      BY <1>1, <1>2, <1>3
    <3>. HIDE DEF n
    <3>. QED BY <3>1, <1>2, Fits
  <2>3. BlocksFor(0, expected, blockSize)
          = Max({MinBlocks,
                 ((expected + blockSize - 1) % Word64) \div blockSize + SpareBlocks}) % Word32
    <3>1. expected > 0
      OBVIOUS
    <3>. QED BY <3>1, Zenon DEF BlocksFor
  <2>. QED BY <2>1, <2>2, <2>3
<1>5. n - SpareBlocks \in Nat /\ n - SpareBlocks >= q
  BY <1>1, <1>2, <1>3
<1>6. (n - SpareBlocks) * blockSize >= q * blockSize
  <2>. HIDE DEF n, q
  <2>. QED BY <1>1, <1>5, LargerProduct
<1>7. q * blockSize \in Nat /\ (n - SpareBlocks) * blockSize \in Nat
  BY <1>1, <1>5
<1>. HIDE DEF n, q
<1>. QED BY <1>1, <1>3, <1>4, <1>6, <1>7

------------------------------------------------------------------------------
(* Blocks of numbers in a row *)

\* m numbers that follow a base, and what precedes the i-th block of a stream of which
\* there are some frames gone.
Run(base, m) == [j \in 1 .. m |-> base + j]
Before(lost, i, per) == lost + (i - 1) * per

\* A set of numbers has a least one.
LEMMA LeastNumber ==
    ASSUME NEW S \in SUBSET Nat, S # {}
    PROVE  \E m \in S : \A k \in S : m <= k
<1>. DEFINE R == {p \in Nat \X Nat : p[1] < p[2]}
<1>1. IsWellFoundedOn(R, Nat)
  BY NatLessThanWellFounded, Zenon DEF OpToRel
<1>2. PICK m \in S : \A k \in S : <<k, m>> \notin R
  <2>. HIDE DEF R
  <2>. QED BY <1>1, WFMin
<1>3. \A k \in S : ~(k < m)
  BY <1>2
<1>. QED BY <1>3

\* A product of naturals, its successor, and its size.
LEMMA Products ==
    ASSUME NEW k \in Nat, NEW F \in Nat
    PROVE  k * F \in Nat /\ (k + 1) * F = k * F + F
OBVIOUS

\* Numbers in a row, put together.
LEMMA Joined ==
    ASSUME NEW m \in Nat, NEW k \in Nat, NEW base \in Nat
    PROVE  [j \in 1 .. m |-> base + j] \o [j \in 1 .. k |-> base + m + j]
             = [j \in 1 .. m + k |-> base + j]
<1>. DEFINE a == [j \in 1 .. m |-> base + j]
            b == [j \in 1 .. k |-> base + m + j]
            c == [j \in 1 .. m + k |-> base + j]
<1>1. a \in Seq(Nat) /\ b \in Seq(Nat) /\ c \in Seq(Nat)
  OBVIOUS
<1>2. Len(a) = m /\ Len(b) = k /\ Len(c) = m + k
  OBVIOUS
<1>3. \A j \in 1 .. m : a[j] = base + j
  OBVIOUS
<1>4. \A j \in 1 .. k : b[j] = base + m + j
  OBVIOUS
<1>5. \A j \in 1 .. m + k : c[j] = base + j
  OBVIOUS
<1>. HIDE DEF a, b, c
<1>6. a \o b \in Seq(Nat) /\ Len(a \o b) = m + k
  BY <1>1, <1>2, ConcatProperties
<1>7. ASSUME NEW j \in 1 .. m + k PROVE (a \o b)[j] = c[j]
  <2>1. (a \o b)[j] = IF j <= m THEN a[j] ELSE b[j - m]
    BY <1>1, <1>2, ConcatProperties
  <2>2. CASE j <= m
    BY <1>3, <1>5, <2>1, <2>2
  <2>3. CASE j > m
    <3>1. j - m \in 1 .. k
      BY <2>3
    <3>. QED BY <1>4, <1>5, <2>1, <2>3, <3>1
  <2>4. j <= m \/ j > m
    OBVIOUS
  <2>. QED BY <2>2, <2>3, <2>4
<1>8. a \o b = c
  BY <1>1, <1>2, <1>6, <1>7, SeqEqual
<1>. QED BY <1>8 DEF a, b, c

\* What flattening gives for blocks that hold numbers in a row: F of them each, fewer
\* maybe in the last one.
LEMMA FlattenedRun ==
    ASSUME NEW n \in Nat \ {0}, NEW F \in Nat, NEW last \in Nat, NEW base \in Nat,
           NEW ss, Len(ss) = n,
           \A i \in 1 .. n : ss[i] = Run(Before(base, i, F), IF i < n THEN F ELSE last)
    PROVE  FlattenSeq(ss) = Run(base, (n - 1) * F + last)
<1>. DEFINE L(i) == IF i < n THEN F ELSE last
            Row(m) == [j \in 1 .. m |-> base + j]
            G == [i \in 1 .. n |-> Row((i - 1) * F + L(i))]
            Step(f) == [i \in 1 .. n |-> IF i = 1 THEN ss[i] ELSE f[i - 1] \o ss[i]]
            flatten == CHOOSE f : f = Step(f)
<1>1. \A i \in 1 .. n : (i - 1) * F \in Nat /\ L(i) \in Nat
  BY Products
<1>2. \A i \in 1 .. n : G[i] = IF i = 1 THEN ss[i] ELSE G[i - 1] \o ss[i]
  <2>. TAKE i \in 1 .. n
  <2>0. G[i] = Row((i - 1) * F + L(i)) /\ ss[i] = [j \in 1 .. L(i) |-> base + (i - 1) * F + j]
    BY DEF Run, Before
  <2>1. CASE i = 1
    <3>1. (i - 1) * F = 0
      BY <2>1
    <3>. QED BY <2>0, <2>1, <3>1
  <2>2. CASE i # 1
    <3>1. i - 1 \in 1 .. n /\ i - 1 < n /\ i - 2 \in Nat
      BY <2>2
    <3>2. (i - 2) * F + F = (i - 1) * F
      BY <3>1
    <3>3. G[i - 1] = Row((i - 1) * F)
      <4>1. G[i - 1] = Row((i - 1 - 1) * F + L(i - 1))
        BY <3>1
      <4>2. (i - 1 - 1) * F + L(i - 1) = (i - 1) * F
        BY <3>1, <3>2
      <4>. QED BY <4>1, <4>2
    <3>4. Row((i - 1) * F) \o [j \in 1 .. L(i) |-> base + (i - 1) * F + j]
            = Row((i - 1) * F + L(i))
      <4>1. \A m \in Nat, k \in Nat :
              Row(m) \o [j \in 1 .. k |-> base + m + j] = Row(m + k)
        BY Joined
      <4>. HIDE DEF Row
      <4>. QED BY <1>1, <4>1
    <3>. HIDE DEF L, Row, G
    <3>. QED BY <2>0, <2>2, <3>3, <3>4
  <2>. QED BY <2>1, <2>2
<1>3. G = Step(G)
  <2>1. G = [i \in 1 .. n |-> G[i]]
    OBVIOUS
  <2>. HIDE DEF G
  <2>. QED BY <1>2, <2>1, Zenon
<1>4. flatten = Step(flatten)
  <2>. HIDE DEF G, Step
  <2>. QED BY <1>3, Zenon
<1>5. \A i \in 1 .. n : flatten[i] = G[i]
  <2>. DEFINE Bad == {i \in 1 .. n : flatten[i] # G[i]}
  <2>. HIDE DEF G, flatten
  <2>1. SUFFICES ASSUME Bad # {} PROVE FALSE
    OBVIOUS
  <2>2. Bad \in SUBSET Nat
    OBVIOUS
  <2>3. PICK i \in Bad : \A k \in Bad : i <= k
    <3>. HIDE DEF Bad
    <3>. QED BY <2>1, <2>2, LeastNumber
  <2>4. flatten[i] = IF i = 1 THEN ss[i] ELSE flatten[i - 1] \o ss[i]
    <3>1. i \in 1 .. n
      OBVIOUS
    <3>2. Step(flatten)[i] = IF i = 1 THEN ss[i] ELSE flatten[i - 1] \o ss[i]
      BY <3>1
    <3>. HIDE DEF Step
    <3>. QED BY <1>4, <3>2
  <2>5. i # 1 => flatten[i - 1] = G[i - 1]
    <3>1. i # 1 => i - 1 \in 1 .. n /\ ~(i <= i - 1)
      OBVIOUS
    <3>. QED BY <2>3, <3>1
  <2>. QED BY <1>2, <2>4, <2>5
<1>6. FlattenSeq(ss) = flatten[n]
  <2>. HIDE DEF G, L, Row
  <2>. QED BY Zenon DEF FlattenSeq
<1>7. G[n] = Row((n - 1) * F + last)
  OBVIOUS
<1>8. Row((n - 1) * F + last) = Run(base, (n - 1) * F + last)
  BY DEF Run
<1>. HIDE DEF G, flatten, Row
<1>. QED BY <1>5, <1>6, <1>7, <1>8

------------------------------------------------------------------------------
(* The script's part of the state *)

Verdicts == {"passed", "skipped", "failed"}
Outcomes == {"not", "succeeded", "killed", "failed"}
NotWell == {"killed", "failed"}
CallPlaces == {"idle", "write", "finalize", "threw"}

FormInv ==
    /\ matrix \in Matrices /\ at \in DOMAIN matrix /\ round \in 1 .. MaxRounds
    /\ phase \in Phases
    /\ writer \in {"none", "keeping", "reclaiming"}
    /\ contexts \subseteq Streams
    /\ call \in [Streams -> CallPlaces]
    /\ sinceSync \in Nat /\ seeks \in 0 .. NumFrames /\ sought \in 0 .. Prefill
    /\ error \in BOOLEAN /\ failed \in BOOLEAN
    /\ files \in [DOMAIN matrix -> FileHolds]
    /\ tally \in [Verdicts -> Nat]
    /\ verdicts \in [DOMAIN matrix -> {"none"} \cup Verdicts]
    /\ ran \in [DOMAIN matrix -> Outcomes]

\* Before there are threads, only the main thread's stream is written; no call is left
\* when there is no thread to make it.
CallsInv ==
    /\ phase \in {"clean", "create", "setup", "seek", "result", "exited", "summary"} =>
           \A s \in Streams : call[s] = "idle"
    /\ phase = "write" => /\ Command.workload # "multi_stream_write"
                          /\ \A s \in Streams \ {Stream0} : call[s] = "idle"
    /\ phase = "seek" => Command.workload = "random_seek"

\* What the program knows of its run, and how that run fared.
OutcomeInv ==
    /\ phase \in {"create", "setup", "write", "seek", "threads"} => ~error /\ ~failed
    /\ phase \in {"clean", "create", "setup", "write", "seek", "threads"} => ran[at] = "not"
    /\ phase \in {"teardown", "result"} =>
           ~failed /\ ran[at] = (IF error THEN "failed" ELSE "succeeded")
    /\ phase = "exited" => ran[at] \in (IF failed THEN NotWell ELSE {"succeeded"})

\* The files of the cells that are still to come are of earlier rounds.
FilesInv ==
    /\ FilesAreTrue
    /\ \A i \in DOMAIN matrix : files[i].since <= round
    /\ phase \notin {"exited", "summary", "off"} => files[at].since < round
    /\ phase \notin {"summary", "off"} =>
           \A i \in DOMAIN matrix : i > at => files[i].since < round

\* A cell that has been judged; while the machine is up.
Judged(i) == i < at \/ phase = "summary"

VerdictInv ==
    /\ NoFailurePasses
    /\ phase # "off" => \A i \in DOMAIN matrix :
           /\ Judged(i) => /\ verdicts[i] # "none" /\ ran[i] # "not"
                           /\ (verdicts[i] = "failed") <=> (ran[i] \in NotWell
                                                            \/ files[i].what = "none")
           /\ ~Judged(i) => verdicts[i] = "none" /\ (i > at => ran[i] = "not")
    /\ phase = "summary" => at = Len(matrix)

Given(v) == {i \in DOMAIN matrix : verdicts[i] = v}

TallyInv == \A v \in Verdicts : tally[v] = Cardinality(Given(v))

ScriptInv == FormInv /\ CallsInv /\ OutcomeInv /\ FilesInv /\ VerdictInv /\ TallyInv

\* The command lines of an instance.
LEMMA MatrixIsAList ==
    ASSUME FormInv
    PROVE  /\ matrix \in Seq(CommandLines)
           /\ Len(matrix) \in Nat \ {0} /\ DOMAIN matrix = 1 .. Len(matrix)
           /\ at \in 1 .. Len(matrix) /\ at \in Nat
           /\ Command \in CommandLines /\ Command.workload \in Workloads
           /\ Command.durability \in Nat /\ Command.blocks \in Nat
           /\ Command.reclaim \in BOOLEAN
<1>1. matrix \in Seq(CommandLines) /\ matrix # <<>>
  BY BenchAssumption DEF FormInv
<1>2. Len(matrix) \in Nat \ {0} /\ DOMAIN matrix = 1 .. Len(matrix)
  BY <1>1
<1>3. at \in 1 .. Len(matrix)
  BY <1>2 DEF FormInv
<1>4. Command \in CommandLines
  BY <1>1, <1>3 DEF Command
<1>5. \A c \in CommandLines : /\ c.workload \in Workloads /\ c.durability \in Nat
                              /\ c.blocks \in Nat /\ c.reclaim \in BOOLEAN
  BY DEF CommandLines
<1>. QED BY <1>1, <1>2, <1>3, <1>4, <1>5

Active == {"create", "setup", "write", "seek", "threads", "teardown", "result"}

\* A step of the program concerns its own cell, which is not judged yet.
LEMMA ProgramKeepsTheScript ==
    ASSUME ScriptInv, UNCHANGED <<matrix, at, round, tally, verdicts>>,
           phase \in Active, phase' \in Active \cup {"exited"},
           \/ ran' = ran
           \/ \E r \in Outcomes : ran' = [ran EXCEPT ![at] = r],
           \/ files' = files
           \/ /\ phase' = "exited"
              /\ \E w \in {"error", "result", "part"} :
                   /\ files' = [files EXCEPT ![at] = [what |-> w, since |-> round]]
                   /\ w = "result" => ran'[at] \in {"succeeded", "killed"}
                   /\ w = "error" => ran'[at] = "failed"
    PROVE  /\ FilesInv' /\ VerdictInv' /\ TallyInv'
           /\ files' \in [DOMAIN matrix -> FileHolds]
           /\ ran' \in [DOMAIN matrix -> Outcomes]
<1>. USE DEF Active
<1>1. /\ at \in DOMAIN matrix /\ DOMAIN matrix \subseteq Nat /\ round \in Nat
      /\ round \in 0 .. MaxRounds
      /\ ran \in [DOMAIN matrix -> Outcomes]
      /\ files \in [DOMAIN matrix -> FileHolds]
  BY MatrixIsAList, RoundsAssumption DEF ScriptInv, FormInv
<1>2. \A f \in FileHolds : f.since \in Nat
  BY RoundsAssumption DEF FileHolds
<1>3. /\ ran' \in [DOMAIN matrix -> Outcomes]
      /\ \A i \in DOMAIN matrix : i # at => ran'[i] = ran[i]
  BY <1>1
<1>4. /\ files' \in [DOMAIN matrix -> FileHolds]
      /\ \A i \in DOMAIN matrix : i # at => files'[i] = files[i]
      /\ \/ files'[at] = files[at]
         \/ /\ phase' = "exited" /\ files'[at].since = round
            /\ files'[at].what = "result" => ran'[at] \in {"succeeded", "killed"}
            /\ files'[at].what = "error" => ran'[at] = "failed"
  <2>1. CASE files' = files
    BY <2>1, <1>1
  <2>2. CASE files' # files
    <3>1. PICK w \in {"error", "result", "part"} :
             /\ files' = [files EXCEPT ![at] = [what |-> w, since |-> round]]
             /\ w = "result" => ran'[at] \in {"succeeded", "killed"}
             /\ w = "error" => ran'[at] = "failed"
             /\ phase' = "exited"
      BY <2>2
    <3>. DEFINE new == [what |-> w, since |-> round]
    <3>2. new \in FileHolds /\ new.since = round /\ new.what = w
      BY <1>1 DEF FileHolds
    <3>3. files' = [files EXCEPT ![at] = new]
      BY <3>1
    <3>. HIDE DEF new
    <3>. QED BY <1>1, <3>1, <3>2, <3>3
  <2>. QED BY <2>1, <2>2
<1>5. files[at].since < round /\ \A i \in DOMAIN matrix : i > at => files[i].since < round
  BY DEF ScriptInv, FilesInv
<1>6. FilesInv'
  <2>1. FilesAreTrue'
    <3>1. FilesAreTrue
      BY DEF ScriptInv, FilesInv
    <3>. QED BY <1>1, <1>2, <1>3, <1>4, <1>5, <3>1 DEF FilesAreTrue
  <2>2. \A i \in DOMAIN matrix : files'[i].since <= round
    <3>1. \A i \in DOMAIN matrix : files[i].since <= round
      BY DEF ScriptInv, FilesInv
    <3>. QED BY <1>1, <1>4, <3>1
  <2>3. phase' # "exited" => files'[at].since < round
    BY <1>4, <1>5
  <2>4. \A i \in DOMAIN matrix : i > at => files'[i].since < round
    <3>1. \A i \in DOMAIN matrix : i > at => i # at
      BY <1>1
    <3>. QED BY <1>4, <1>5, <3>1
  <2>. QED BY <2>1, <2>2, <2>3, <2>4 DEF FilesInv
<1>7. VerdictInv'
  <2>1. ~Judged(at) /\ \A i \in DOMAIN matrix : Judged(i)' <=> Judged(i)
    BY <1>1 DEF Judged
  <2>2. verdicts[at] = "none"
    BY <1>1, <2>1 DEF ScriptInv, VerdictInv
  <2>3. NoFailurePasses'
    <3>1. NoFailurePasses
      BY DEF ScriptInv, VerdictInv
    <3>. QED BY <1>1, <1>3, <1>4, <2>2, <3>1 DEF NoFailurePasses
  <2>4. \A i \in DOMAIN matrix : i # at =>
           /\ Judged(i) => /\ verdicts[i] # "none" /\ ran[i] # "not"
                           /\ (verdicts[i] = "failed") <=> (ran[i] \in NotWell
                                                            \/ files[i].what = "none")
           /\ ~Judged(i) => verdicts[i] = "none" /\ (i > at => ran[i] = "not")
    BY DEF ScriptInv, VerdictInv
  <2>5. \A i \in DOMAIN matrix :
           /\ Judged(i)' => /\ verdicts'[i] # "none" /\ ran'[i] # "not"
                            /\ (verdicts'[i] = "failed") <=> (ran'[i] \in NotWell
                                                             \/ files'[i].what = "none")
           /\ ~Judged(i)' => verdicts'[i] = "none" /\ (i > at => ran'[i] = "not")
    <3>1. \A i \in DOMAIN matrix : i > at => i # at
      BY <1>1
    <3>. QED BY <1>3, <1>4, <2>1, <2>2, <2>4, <3>1
  <2>. QED BY <2>3, <2>5 DEF VerdictInv
<1>8. TallyInv'
  BY DEF ScriptInv, TallyInv, Given
<1>. QED BY <1>3, <1>4, <1>6, <1>7, <1>8

\* A call of stream s, begun, under way or returning.
LEMMA CallSteps ==
    ASSUME NEW s \in Streams, call \in [Streams -> CallPlaces], contexts \subseteq Streams,
           GetContext(s) \/ AppendFrame(s) \/ AdvanceWrite(s)
    PROVE  /\ call' \in [Streams -> CallPlaces]
           /\ \A t \in Streams : t # s => call'[t] = call[t]
           /\ writer' = writer /\ contexts' \subseteq Streams /\ cursor' = cursor
           /\ call[s] = "idle" => GetContext(s)
<1>. USE DEF CallPlaces
<1>1. CASE GetContext(s)
  BY <1>1 DEF GetContext, Goto
<1>2. CASE AppendFrame(s)
  BY <1>2 DEF AppendFrame, Goto
<1>3. CASE FlushBlock(s)
  BY <1>3 DEF FlushBlock, Goto
<1>4. CASE FinalizeBlock(s)
  BY <1>4 DEF FinalizeBlock, Goto
<1>5. CASE TakeFreeBlock(s)
  BY <1>5 DEF TakeFreeBlock, Needy
<1>6. CASE RecycleBlock(s)
  BY <1>6 DEF RecycleBlock, Needy
<1>7. CASE PoolExhausted(s)
  BY <1>7 DEF PoolExhausted, Goto, Needy
<1>. QED BY <1>1, <1>2, <1>3, <1>4, <1>5, <1>6, <1>7 DEF AdvanceWrite

\* The steps that leave the main thread where it is.
QuietStep == \/ NextWrite \/ WriteReturns \/ NextSeek
             \/ \E s \in Streams : ThreadStep(s)
             \/ ReaderStep

LEMMA QuietStepKeeps ==
    ASSUME FormInv, CallsInv, QuietStep
    PROVE  /\ UNCHANGED <<matrix, at, phase, error, failed, files, round, writer>>
           /\ phase \in {"write", "seek", "threads"}
           /\ call' \in [Streams -> CallPlaces] /\ contexts' \subseteq Streams
           /\ sinceSync' \in Nat /\ seeks' \in 0 .. NumFrames /\ sought' \in 0 .. Prefill
           /\ CallsInv'
<1>1. /\ Stream0 \in Streams /\ NumFrames \in Nat \ {0} /\ Prefill \in Nat \ {0}
      /\ FrameSize \in Nat \ {0}
  BY BenchAssumption
<1>2. /\ call \in [Streams -> CallPlaces] /\ contexts \subseteq Streams
      /\ sinceSync \in Nat /\ seeks \in 0 .. NumFrames /\ sought \in 0 .. Prefill
  BY DEF FormInv
<1>3. CASE NextWrite
  <2>1. GetContext(Stream0) /\ phase = "write"
        /\ UNCHANGED <<matrix, at, phase, process, files, round>>
    BY <1>3 DEF NextWrite
  <2>. QED BY <1>1, <1>2, <2>1, CallSteps DEF process, CallsInv, Command
<1>4. CASE WriteReturns
  <2>1. /\ AppendFrame(Stream0) /\ phase = "write"
        /\ UNCHANGED <<matrix, at, phase, seeks, sought, error, failed, files, round>>
        /\ sinceSync' \in {0, sinceSync + FrameSize}
    BY <1>4 DEF WriteReturns
  <2>2. sinceSync' \in Nat
    BY <1>1, <1>2, <2>1
  <2>. QED BY <1>1, <1>2, <2>1, <2>2, CallSteps DEF CallsInv, Command
<1>5. CASE NextSeek
  BY <1>1, <1>2, <1>5 DEF NextSeek, CallsInv, Command, Targets, FormInv
<1>6. CASE ReaderStep
  BY <1>1, <1>2, <1>6 DEF ReaderStep, ReaderFinds, ReaderAdvances, CallsInv, Command, Targets,
                          FormInv
<1>7. ASSUME NEW s \in Streams, ThreadStep(s)
      PROVE  /\ UNCHANGED <<matrix, at, phase, process, files, round, writer>>
             /\ phase \in {"write", "threads"}
             /\ call' \in [Streams -> CallPlaces] /\ contexts' \subseteq Streams
             /\ CallsInv'
  <2>1. CASE ThreadWrites(s)
    <3>1. GetContext(s) /\ phase = "threads"
          /\ UNCHANGED <<matrix, at, phase, process, files, round>>
      BY <2>1 DEF ThreadWrites
    <3>. QED BY <1>2, <3>1, CallSteps DEF CallsInv, Command
  <2>2. CASE ThreadWriteReturns(s)
    <3>1. AppendFrame(s) /\ phase = "threads"
          /\ UNCHANGED <<matrix, at, phase, process, files, round>>
      BY <2>2 DEF ThreadWriteReturns
    <3>. QED BY <1>2, <3>1, CallSteps DEF CallsInv, Command
  <2>3. CASE CallGoesOn(s)
    <3>1. /\ AdvanceWrite(s) /\ phase \in {"write", "threads"}
          /\ UNCHANGED <<matrix, at, phase, process, files, round>>
      BY <2>3 DEF CallGoesOn
    <3>2. call[s] # "idle"
      BY <3>1 DEF AdvanceWrite, FlushBlock, FinalizeBlock, TakeFreeBlock, RecycleBlock,
                  PoolExhausted, Needy
    <3>. QED BY <1>1, <1>2, <3>1, <3>2, CallSteps DEF CallsInv, Command
  <2>4. CASE CallThrows(s)
    BY <1>1, <1>2, <2>4 DEF CallThrows, Goto, CallsInv, Command, CallPlaces
  <2>. QED BY <1>7, <2>1, <2>2, <2>3, <2>4 DEF ThreadStep
<1>8. ASSUME NEW s \in Streams, ThreadStep(s)
      PROVE  /\ UNCHANGED <<matrix, at, phase, error, failed, files, round, writer>>
             /\ phase \in {"write", "threads"}
             /\ call' \in [Streams -> CallPlaces] /\ contexts' \subseteq Streams
             /\ sinceSync' \in Nat /\ seeks' \in 0 .. NumFrames /\ sought' \in 0 .. Prefill
             /\ CallsInv'
  BY <1>2, <1>7, <1>8 DEF process
<1>. QED BY <1>3, <1>4, <1>5, <1>6, <1>8 DEF QuietStep

\* How the run fared is known when the workload is left, or not reached.
RunAccounted ==
    CASE phase' = "teardown" /\ phase # "teardown" ->
              Fares(IF \/ \E s \in Streams : call[s] = "threw"
                       \/ phase = "seek" /\ seeks < NumFrames
                      THEN "failed" ELSE "succeeded")
         [] phase' = "exited" /\ phase # "result" -> Fares("failed")
         [] OTHER -> UNCHANGED ran

\* The cases of RunAccounted.
LEMMA RunAccountedCases ==
    ASSUME RunAccounted
    PROVE  /\ phase' = "teardown" /\ phase # "teardown" =>
                 Fares(IF \/ \E s \in Streams : call[s] = "threw"
                          \/ phase = "seek" /\ seeks < NumFrames
                         THEN "failed" ELSE "succeeded")
           /\ phase' = "exited" /\ phase # "result" => Fares("failed")
           /\ phase' # "exited" /\ (phase' # "teardown" \/ phase = "teardown") => ran' = ran
           /\ phase' = "exited" /\ phase = "result" => ran' = ran
BY DEF RunAccounted

\* Into the workload, or not even that far.
LEMMA StartingKeeps ==
    ASSUME ScriptInv, Create \/ SetUp \/ SetUpFails, RunAccounted,
           UNCHANGED <<tally, verdicts>>
    PROVE  ScriptInv'
<1>. USE DEF Active, Phases
<1>1. FormInv /\ CallsInv /\ OutcomeInv
  BY DEF ScriptInv
<1>2. at \in DOMAIN matrix /\ ran \in [DOMAIN matrix -> Outcomes]
  BY <1>1 DEF FormInv
<1>3. /\ phase \in {"create", "setup"}
      /\ UNCHANGED <<matrix, at, files, round, call, contexts, sinceSync, seeks, sought, error>>
      /\ writer' \in {writer, "keeping", "reclaiming"}
      /\ \/ /\ phase' = "exited" /\ failed' = TRUE
         \/ /\ phase' = "setup" /\ failed' = failed
         \/ /\ phase' = "write" /\ failed' = failed /\ Command.workload # "multi_stream_write"
         \/ /\ phase' = "threads" /\ failed' = failed
  BY <1>1 DEF Create, SetUp, SetUpFails, Setup, nanots, process
<1>4. IF phase' = "exited" THEN ran' = [ran EXCEPT ![at] = "failed"] ELSE ran' = ran
  BY <1>3, RunAccountedCases DEF Fares
<1>5. /\ FilesInv' /\ VerdictInv' /\ TallyInv'
      /\ files' \in [DOMAIN matrix -> FileHolds]
      /\ ran' \in [DOMAIN matrix -> Outcomes]
  <2>1. phase \in Active /\ phase' \in Active \cup {"exited"}
    BY <1>3
  <2>2. ran' = ran \/ \E r \in Outcomes : ran' = [ran EXCEPT ![at] = r]
    BY <1>4 DEF Outcomes
  <2>. QED BY <1>3, <2>1, <2>2, ProgramKeepsTheScript
<1>6. FormInv'
  BY <1>1, <1>3, <1>5 DEF FormInv
<1>7. CallsInv'
  BY <1>1, <1>3 DEF CallsInv, Command
<1>8. OutcomeInv'
  BY <1>1, <1>2, <1>3, <1>4 DEF OutcomeInv, NotWell
<1>. QED BY <1>5, <1>6, <1>7, <1>8 DEF ScriptInv

\* Out of the workload.
LEMMA LeavingKeeps ==
    ASSUME ScriptInv, FinalSync \/ SeeksEnd \/ RunThrows \/ ThreadsEnd, RunAccounted,
           UNCHANGED <<tally, verdicts>>
    PROVE  ScriptInv'
<1>. USE DEF Active, Phases
<1>1. FormInv /\ CallsInv /\ OutcomeInv
  BY DEF ScriptInv
<1>2. /\ at \in DOMAIN matrix /\ ran \in [DOMAIN matrix -> Outcomes]
      /\ Stream0 \in Streams /\ seeks \in 0 .. NumFrames /\ NumFrames \in Nat
      /\ Command.workload \in Workloads
  BY <1>1, BenchAssumption, MatrixIsAList DEF FormInv
<1>3. /\ phase \in {"write", "seek", "threads"}
      /\ UNCHANGED <<matrix, at, files, round, call, contexts, writer, sinceSync, seeks, sought,
                     failed>>
  BY DEF FinalSync, SeeksEnd, RunThrows, ThreadsEnd, nanots, process
<1>4. \/ /\ phase' = "threads" /\ error' = error
      \/ /\ phase' = "seek" /\ error' = error /\ Command.workload = "random_seek"
         /\ \A s \in Streams : call[s] = "idle"
      \/ /\ phase' = "teardown" /\ error' \in BOOLEAN
         /\ error' <=> \/ \E s \in Streams : call[s] = "threw"
                       \/ phase = "seek" /\ seeks < NumFrames
  <2>1. CASE FinalSync
    <3>1. /\ phase = "write" /\ call[Stream0] = "idle" /\ phase' = AfterWriting
          /\ error' = error
      BY <2>1 DEF FinalSync
    <3>2. /\ Command.workload # "multi_stream_write"
          /\ \A s \in Streams : call[s] = "idle"
      BY <1>1, <3>1 DEF CallsInv
    <3>3. Command.workload \in {"sustained_write", "random_seek", "concurrent_readers"}
      BY <1>2, <3>2 DEF Workloads
    <3>4. error = FALSE
      BY <1>1, <3>1 DEF OutcomeInv, FormInv
    <3>5. \/ phase' = "teardown"
          \/ phase' = "seek" /\ Command.workload = "random_seek"
          \/ phase' = "threads"
      BY <3>1, <3>3 DEF AfterWriting
    <3>. QED BY <3>1, <3>2, <3>4, <3>5
  <2>2. CASE SeeksEnd
    <3>1. /\ phase = "seek" /\ seeks = NumFrames /\ phase' = "teardown" /\ error' = error
      BY <2>2 DEF SeeksEnd, process
    <3>2. \A s \in Streams : call[s] = "idle"
      BY <1>1, <3>1 DEF CallsInv
    <3>3. error = FALSE
      BY <1>1, <3>1 DEF OutcomeInv, FormInv
    <3>4. ~(seeks < NumFrames) /\ ~\E s \in Streams : call[s] = "threw"
      BY <1>2, <3>1, <3>2
    <3>5. error' \in BOOLEAN /\ ~error'
      BY <3>1, <3>3
    <3>. QED BY <3>1, <3>4, <3>5
  <2>3. CASE RunThrows
    BY <1>2, <2>3 DEF RunThrows
  <2>4. CASE ThreadsEnd
    BY <2>4 DEF ThreadsEnd
  <2>. QED BY <2>1, <2>2, <2>3, <2>4
<1>5. /\ phase' = "teardown" => ran' = [ran EXCEPT ![at] = IF error' THEN "failed" ELSE "succeeded"]
      /\ phase' # "teardown" => ran' = ran
  BY <1>3, <1>4, RunAccountedCases DEF Fares
<1>6. /\ FilesInv' /\ VerdictInv' /\ TallyInv'
      /\ files' \in [DOMAIN matrix -> FileHolds]
      /\ ran' \in [DOMAIN matrix -> Outcomes]
  <2>1. phase \in Active /\ phase' \in Active \cup {"exited"}
    BY <1>3, <1>4
  <2>2. ran' = ran \/ \E r \in Outcomes : ran' = [ran EXCEPT ![at] = r]
    BY <1>5 DEF Outcomes
  <2>. QED BY <1>3, <2>1, <2>2, ProgramKeepsTheScript
<1>7. FormInv'
  BY <1>1, <1>3, <1>4, <1>6 DEF FormInv
<1>8. CallsInv'
  BY <1>1, <1>3, <1>4 DEF CallsInv, Command
<1>9. OutcomeInv'
  BY <1>1, <1>2, <1>3, <1>4, <1>5 DEF OutcomeInv
<1>. QED BY <1>6, <1>7, <1>8, <1>9 DEF ScriptInv

\* From the workload to the end of the process, in order or not.
LEMMA EndingKeeps ==
    ASSUME ScriptInv, UNCHANGED <<tally, verdicts>>,
           \/ (TearDown \/ WriteResult) /\ RunAccounted
           \/ Die /\ Fares(IF ran[at] = "succeeded" THEN "killed" ELSE "failed")
    PROVE  ScriptInv'
<1>. USE DEF Active, Phases
<1>1. FormInv /\ CallsInv /\ OutcomeInv
  BY DEF ScriptInv
<1>2. /\ at \in DOMAIN matrix /\ ran \in [DOMAIN matrix -> Outcomes]
      /\ error \in BOOLEAN
  BY <1>1 DEF FormInv
<1>3. CASE TearDown /\ RunAccounted
  <2>1. /\ phase = "teardown" /\ phase' = "result"
        /\ UNCHANGED <<matrix, at, files, round, sinceSync, seeks, sought, failed, error>>
        /\ writer' = "none" /\ contexts' = {} /\ call' = [s \in Streams |-> "idle"]
    BY <1>3 DEF TearDown, Release, process
  <2>2. ran' = ran
    BY <1>3, <2>1, RunAccountedCases
  <2>3. /\ FilesInv' /\ VerdictInv' /\ TallyInv'
        /\ files' \in [DOMAIN matrix -> FileHolds]
        /\ ran' \in [DOMAIN matrix -> Outcomes]
    BY <2>1, <2>2, ProgramKeepsTheScript
  <2>4. FormInv'
    BY <1>1, <2>1, <2>3 DEF FormInv, CallPlaces
  <2>5. CallsInv'
    BY <2>1 DEF CallsInv
  <2>6. OutcomeInv'
    BY <1>1, <2>1, <2>2 DEF OutcomeInv
  <2>. QED BY <2>3, <2>4, <2>5, <2>6 DEF ScriptInv
<1>4. CASE WriteResult /\ RunAccounted
  <2>1. /\ phase = "result" /\ phase' = "exited" /\ failed' = error
        /\ UNCHANGED <<matrix, at, round, sinceSync, seeks, sought, error, writer, contexts,
                       call>>
    BY <1>4 DEF WriteResult, ExitsWithFailure, nanots
  <2>2. ran' = ran
    BY <1>4, <2>1, RunAccountedCases
  <2>3. ran[at] = (IF error THEN "failed" ELSE "succeeded")
    BY <1>1, <2>1 DEF OutcomeInv
  <2>4. \/ files' = files
        \/ \E w \in {"error", "result", "part"} :
             /\ files' = [files EXCEPT ![at] = [what |-> w, since |-> round]]
             /\ w = "result" => ran'[at] \in {"succeeded", "killed"}
             /\ w = "error" => ran'[at] = "failed"
    <3>1. CASE Holding(ResultText)
      <4>1. CASE error
        BY <3>1, <4>1, <2>2, <2>3 DEF Holding, ResultText
      <4>2. CASE ~error
        BY <3>1, <4>2, <2>2, <2>3 DEF Holding, ResultText
      <4>. QED BY <4>1, <4>2
    <3>2. CASE Holding("part")
      BY <3>2 DEF Holding
    <3>. QED BY <1>4, <3>1, <3>2 DEF WriteResult
  <2>5. /\ FilesInv' /\ VerdictInv' /\ TallyInv'
        /\ files' \in [DOMAIN matrix -> FileHolds]
        /\ ran' \in [DOMAIN matrix -> Outcomes]
    BY <2>1, <2>2, <2>4, ProgramKeepsTheScript
  <2>6. FormInv'
    BY <1>1, <2>1, <2>5 DEF FormInv
  <2>7. CallsInv'
    BY <1>1, <2>1 DEF CallsInv, Command
  <2>8. OutcomeInv'
    BY <1>2, <2>1, <2>2, <2>3 DEF OutcomeInv, NotWell
  <2>. QED BY <2>5, <2>6, <2>7, <2>8 DEF ScriptInv
<1>5. CASE Die /\ Fares(IF ran[at] = "succeeded" THEN "killed" ELSE "failed")
  <2>1. /\ phase \in Active /\ phase' = "exited" /\ failed' = TRUE
        /\ UNCHANGED <<matrix, at, round, sinceSync, seeks, sought, error>>
        /\ writer' = "none" /\ contexts' = {} /\ call' = [s \in Streams |-> "idle"]
        /\ ran' = [ran EXCEPT ![at] = IF ran[at] = "succeeded" THEN "killed" ELSE "failed"]
    BY <1>5 DEF Die, Release, Fares
  <2>2. /\ ran'[at] = IF ran[at] = "succeeded" THEN "killed" ELSE "failed"
        /\ ran' \in [DOMAIN matrix -> Outcomes]
        /\ \E r \in Outcomes : ran' = [ran EXCEPT ![at] = r]
    BY <1>2, <2>1 DEF Outcomes
  <2>3. \/ files' = files
        \/ \E w \in {"error", "result", "part"} :
             /\ files' = [files EXCEPT ![at] = [what |-> w, since |-> round]]
             /\ w = "result" => ran'[at] \in {"succeeded", "killed"}
             /\ w = "error" => ran'[at] = "failed"
    <3>1. CASE phase = "result" /\ Holding(ResultText)
      <4>1. ran[at] = (IF error THEN "failed" ELSE "succeeded")
        BY <1>1, <3>1 DEF OutcomeInv
      <4>2. CASE error
        BY <2>2, <3>1, <4>1, <4>2 DEF Holding, ResultText
      <4>3. CASE ~error
        BY <2>2, <3>1, <4>1, <4>3 DEF Holding, ResultText
      <4>. QED BY <4>2, <4>3
    <3>2. CASE Holding("part")
      BY <3>2 DEF Holding
    <3>. QED BY <1>5, <3>1, <3>2 DEF Die
  <2>4. /\ FilesInv' /\ VerdictInv' /\ TallyInv'
        /\ files' \in [DOMAIN matrix -> FileHolds]
        /\ ran' \in [DOMAIN matrix -> Outcomes]
    BY <2>1, <2>2, <2>3, ProgramKeepsTheScript
  <2>5. FormInv'
    BY <1>1, <2>1, <2>4 DEF FormInv, CallPlaces
  <2>6. CallsInv'
    BY <2>1 DEF CallsInv
  <2>7. OutcomeInv'
    BY <2>1, <2>2 DEF OutcomeInv, NotWell
  <2>. QED BY <2>4, <2>5, <2>6, <2>7 DEF ScriptInv
<1>. QED BY <1>3, <1>4, <1>5

LEMMA QuietKeeps ==
    ASSUME ScriptInv, QuietStep, RunAccounted, UNCHANGED <<tally, verdicts>>
    PROVE  ScriptInv'
<1>. USE DEF Active, Phases
<1>1. FormInv /\ CallsInv /\ OutcomeInv
  BY DEF ScriptInv
<1>2. /\ UNCHANGED <<matrix, at, phase, error, failed, files, round, writer>>
      /\ phase \in {"write", "seek", "threads"}
      /\ call' \in [Streams -> CallPlaces] /\ contexts' \subseteq Streams
      /\ sinceSync' \in Nat /\ seeks' \in 0 .. NumFrames /\ sought' \in 0 .. Prefill
      /\ CallsInv'
  BY <1>1, QuietStepKeeps
<1>3. ran' = ran
  BY <1>2, RunAccountedCases
<1>4. /\ FilesInv' /\ VerdictInv' /\ TallyInv'
      /\ files' \in [DOMAIN matrix -> FileHolds]
      /\ ran' \in [DOMAIN matrix -> Outcomes]
  BY <1>2, <1>3, ProgramKeepsTheScript
<1>5. FormInv'
  BY <1>1, <1>2, <1>4 DEF FormInv
<1>6. OutcomeInv'
  BY <1>1, <1>2, <1>3 DEF OutcomeInv
<1>. QED BY <1>2, <1>4, <1>5, <1>6 DEF ScriptInv

LEMMA CleanKeeps ==
    ASSUME ScriptInv, Clean
    PROVE  ScriptInv'
<1>1. FormInv /\ CallsInv /\ OutcomeInv /\ FilesInv /\ VerdictInv /\ TallyInv
  BY DEF ScriptInv
<1>2. /\ phase = "clean" /\ phase' = "create"
      /\ sinceSync' = 0 /\ seeks' = 0 /\ sought' = 0
      /\ error' = FALSE /\ failed' = FALSE
      /\ UNCHANGED <<writer, contexts, call, matrix, at, files, round, tally, verdicts, ran>>
  BY DEF Clean, script
<1>3. FormInv'
  <2>1. NumFrames \in Nat /\ Prefill \in Nat
    BY BenchAssumption
  <2>2. seeks' \in 0 .. NumFrames /\ sought' \in 0 .. Prefill /\ sinceSync' \in Nat
    BY <1>2, <2>1
  <2>3. error' \in BOOLEAN /\ failed' \in BOOLEAN /\ phase' \in Phases
    BY <1>2 DEF Phases
  <2>. QED BY <1>1, <1>2, <2>2, <2>3 DEF FormInv
<1>4. CallsInv'
  BY <1>1, <1>2 DEF CallsInv
<1>5. OutcomeInv'
  BY <1>1, <1>2 DEF OutcomeInv
<1>6. FilesInv'
  BY <1>1, <1>2 DEF FilesInv, FilesAreTrue
<1>7. VerdictInv'
  BY <1>1, <1>2 DEF VerdictInv, NoFailurePasses, Judged
<1>8. TallyInv'
  BY <1>1, <1>2 DEF TallyInv, Given
<1>. QED BY <1>3, <1>4, <1>5, <1>6, <1>7, <1>8 DEF ScriptInv

LEMMA BlackoutKeeps ==
    ASSUME ScriptInv, Blackout
    PROVE  ScriptInv'
<1>1. FormInv /\ CallsInv /\ OutcomeInv /\ FilesInv /\ VerdictInv /\ TallyInv
  BY DEF ScriptInv
<1>2. /\ phase' = "off"
      /\ writer' = "none" /\ contexts' = {} /\ call' = [s \in Streams |-> "idle"]
      /\ UNCHANGED <<matrix, at, sinceSync, seeks, sought, error, failed, files, round, tally,
                     verdicts, ran>>
  BY DEF Blackout, MachineDies, PowerLoss, process, script
<1>3. FormInv'
  BY <1>1, <1>2 DEF FormInv, Phases, CallPlaces
<1>4. CallsInv' /\ OutcomeInv'
  BY <1>2 DEF CallsInv, OutcomeInv
<1>5. FilesInv'
  BY <1>1, <1>2 DEF FilesInv, FilesAreTrue
<1>6. VerdictInv'
  BY <1>1, <1>2 DEF VerdictInv, NoFailurePasses
<1>7. TallyInv'
  BY <1>1, <1>2 DEF TallyInv, Given
<1>. QED BY <1>3, <1>4, <1>5, <1>6, <1>7 DEF ScriptInv

\* Judging counts a cell that was not counted before.
LEMMA JudgeKeeps ==
    ASSUME ScriptInv, Judge
    PROVE  ScriptInv'
<1>1. FormInv /\ CallsInv /\ OutcomeInv /\ FilesInv /\ VerdictInv /\ TallyInv
  BY DEF ScriptInv
<1>2. /\ phase = "exited" /\ verdicts' = [verdicts EXCEPT ![at] = Judgement]
      /\ tally' = [tally EXCEPT ![Judgement] = @ + 1]
      /\ \/ at < Len(matrix) /\ at' = at + 1 /\ phase' = "clean"
         \/ ~(at < Len(matrix)) /\ at' = at /\ phase' = "summary"
      /\ UNCHANGED <<nanots, matrix, process, files, round, ran>>
  BY DEF Judge
<1>3. /\ Len(matrix) \in Nat /\ DOMAIN matrix = 1 .. Len(matrix) /\ at \in 1 .. Len(matrix)
      /\ IsFiniteSet(DOMAIN matrix)
  BY <1>1, MatrixIsAList, FS_Interval
<1>4. /\ verdicts \in [DOMAIN matrix -> {"none"} \cup Verdicts]
      /\ ran \in [DOMAIN matrix -> Outcomes]
      /\ tally \in [Verdicts -> Nat] /\ failed \in BOOLEAN
  BY <1>1 DEF FormInv
<1>5. verdicts[at] = "none" /\ \A i \in DOMAIN matrix : i > at => verdicts[i] = "none" /\ ran[i] = "not"
  BY <1>1, <1>2, <1>3 DEF VerdictInv, Judged
<1>6. ran[at] \in (IF failed THEN NotWell ELSE {"succeeded"})
  BY <1>1, <1>2 DEF OutcomeInv
<1>7. /\ Judgement \in Verdicts
      /\ Judgement = "failed" <=> (ran[at] \in NotWell \/ files[at].what = "none")
  <2>1. failed <=> ran[at] \in NotWell
    BY <1>4, <1>6 DEF NotWell
  <2>2. Judgement \in Verdicts /\ (Judgement = "failed" <=> (failed \/ files[at].what = "none"))
    BY <1>4, Zenon DEF Judgement, Verdicts
  <2>. QED BY <2>1, <2>2
<1>. DEFINE v == Judgement
<1>. HIDE DEF v
<1>8. verdicts' = [verdicts EXCEPT ![at] = v] /\ tally' = [tally EXCEPT ![v] = @ + 1]
      /\ v \in Verdicts
  BY <1>2, <1>7 DEF v
<1>9. FormInv'
  <2>1. at' \in DOMAIN matrix
    BY <1>2, <1>3
  <2>2. verdicts' \in [DOMAIN matrix -> {"none"} \cup Verdicts] /\ tally' \in [Verdicts -> Nat]
    BY <1>3, <1>4, <1>8
  <2>3. phase' \in Phases
    BY <1>2 DEF Phases
  <2>. QED BY <1>1, <1>2, <2>1, <2>2, <2>3 DEF FormInv, nanots, process
<1>10. CallsInv'
  BY <1>1, <1>2 DEF CallsInv, nanots
<1>11. OutcomeInv'
  <2>1. phase' = "clean" => ran'[at'] = "not"
    BY <1>2, <1>3, <1>5
  <2>. QED BY <1>2, <2>1 DEF OutcomeInv
<1>12. FilesInv'
  <2>1. FilesAreTrue' /\ \A i \in DOMAIN matrix' : files'[i].since <= round'
    BY <1>1, <1>2 DEF FilesInv, FilesAreTrue
  <2>2. \A i \in DOMAIN matrix : i > at => files[i].since < round
    BY <1>1, <1>2 DEF FilesInv
  <2>3. phase' = "clean" => files[at'].since < round
    BY <1>2, <1>3, <2>2
  <2>4. phase' = "clean" => \A i \in DOMAIN matrix : i > at' => files[i].since < round
    BY <1>2, <1>3, <2>2
  <2>. QED BY <1>2, <2>1, <2>3, <2>4 DEF FilesInv
<1>13. VerdictInv'
  <2>1. NoFailurePasses'
    <3>1. verdicts'[at] = v /\ \A i \in DOMAIN matrix : i # at => verdicts'[i] = verdicts[i]
      BY <1>3, <1>4, <1>8
    <3>2. ran[at] \in NotWell => v = "failed"
      BY <1>7 DEF v
    <3>3. NoFailurePasses
      BY <1>1 DEF VerdictInv
    <3>. QED BY <1>2, <3>1, <3>2, <3>3 DEF NoFailurePasses, NotWell
  <2>2. ASSUME NEW i \in DOMAIN matrix
        PROVE  /\ Judged(i)' => /\ verdicts'[i] # "none" /\ ran[i] # "not"
                                /\ (verdicts'[i] = "failed") <=> (ran[i] \in NotWell
                                                                  \/ files[i].what = "none")
               /\ ~Judged(i)' => verdicts'[i] = "none" /\ ran[i] = "not"
    <3>1. CASE i = at
      <4>1. Judged(i)'
        BY <1>2, <1>3, <3>1 DEF Judged
      <4>2. verdicts'[i] = v /\ v # "none"
        BY <1>4, <1>8, <3>1 DEF Verdicts
      <4>3. (v = "failed") <=> (ran[i] \in NotWell \/ files[i].what = "none")
        BY <1>7, <3>1 DEF v
      <4>4. ran[i] # "not"
        BY <1>4, <1>6, <3>1 DEF NotWell
      <4>. QED BY <4>1, <4>2, <4>3, <4>4
    <3>2. CASE i < at
      <4>1. Judged(i) /\ Judged(i)' /\ verdicts'[i] = verdicts[i]
        BY <1>2, <1>3, <1>4, <3>2 DEF Judged
      <4>. QED BY <1>1, <1>2, <4>1 DEF VerdictInv
    <3>3. CASE i > at
      <4>1. ~Judged(i)' /\ verdicts'[i] = verdicts[i]
        BY <1>2, <1>3, <1>4, <3>3 DEF Judged
      <4>. QED BY <1>5, <3>3, <4>1
    <3>. QED BY <1>3, <3>1, <3>2, <3>3
  <2>3. phase' = "summary" => at' = Len(matrix)
    <3>1. ASSUME phase' = "summary" PROVE ~(at < Len(matrix)) /\ at' = at
      BY <1>2, <3>1
    <3>2. \A n \in Nat : \A a \in 1 .. n : ~(a < n) => a = n
      OBVIOUS
    <3>. QED BY <1>3, <3>1, <3>2
  <2>. QED BY <1>2, <2>1, <2>2, <2>3 DEF VerdictInv
<1>14. TallyInv'
  <2>. SUFFICES ASSUME NEW w \in Verdicts
                PROVE  tally'[w] = Cardinality(Given(w)')
    BY DEF TallyInv
  <2>1. Given(w) \subseteq DOMAIN matrix /\ IsFiniteSet(Given(w)) /\ at \notin Given(w)
        /\ tally[w] = Cardinality(Given(w))
    <3>1. Given(w) \subseteq DOMAIN matrix
      BY DEF Given
    <3>2. IsFiniteSet(Given(w))
      BY <1>3, <3>1, FS_Subset
    <3>. QED BY <1>1, <1>5, <3>1, <3>2 DEF Given, TallyInv, Verdicts
  <2>2. CASE w = v
    <3>1. Given(w)' = Given(w) \cup {at}
      BY <1>2, <1>3, <1>4, <1>8, <2>2 DEF Given
    <3>2. Cardinality(Given(w) \cup {at}) = Cardinality(Given(w)) + 1
      BY <2>1, FS_AddElement
    <3>3. tally'[w] = tally[w] + 1
      BY <1>4, <1>8, <2>2
    <3>. QED BY <2>1, <3>1, <3>2, <3>3
  <2>3. CASE w # v
    <3>1. Given(w)' = Given(w)
      BY <1>2, <1>3, <1>4, <1>5, <1>8, <2>3 DEF Given, Verdicts
    <3>. QED BY <1>4, <1>8, <2>1, <2>3, <3>1
  <2>. QED BY <2>2, <2>3
<1>. QED BY <1>9, <1>10, <1>11, <1>12, <1>13, <1>14 DEF ScriptInv

\* The script starts again, over what the files of the last time hold.
LEMMA AgainKeeps ==
    ASSUME ScriptInv, Again
    PROVE  ScriptInv'
<1>1. FormInv /\ CallsInv /\ FilesInv
  BY DEF ScriptInv
<1>2. /\ phase = "summary" /\ round < MaxRounds /\ round' = round + 1
      /\ at' = 1 /\ phase' = "clean" /\ tally' = NoCount
      /\ verdicts' = [i \in DOMAIN matrix |-> "none"]
      /\ ran' = [i \in DOMAIN matrix |-> "not"]
      /\ UNCHANGED <<nanots, matrix, process, files>>
  BY DEF Again
<1>3. /\ Len(matrix) \in Nat \ {0} /\ DOMAIN matrix = 1 .. Len(matrix)
      /\ round \in 1 .. MaxRounds /\ MaxRounds \in Nat
  BY <1>1, MatrixIsAList, RoundsAssumption DEF FormInv
<1>4. \A i \in DOMAIN matrix : files[i].since < round' /\ files[i].since # round'
  <2>1. \A i \in DOMAIN matrix : files[i].since \in Nat /\ files[i].since <= round
    BY <1>1, RoundsAssumption DEF FilesInv, FormInv, FileHolds
  <2>. QED BY <1>2, <1>3, <2>1
<1>5. at' \in DOMAIN matrix /\ round' \in 1 .. MaxRounds
  BY <1>2, <1>3
<1>6. NoCount \in [Verdicts -> Nat] /\ \A v \in Verdicts : NoCount[v] = 0
  BY DEF NoCount, Verdicts
<1>7. FormInv'
  <2>1. verdicts' \in [DOMAIN matrix -> {"none"} \cup Verdicts]
    BY <1>2
  <2>2. ran' \in [DOMAIN matrix -> Outcomes]
    BY <1>2 DEF Outcomes
  <2>. QED BY <1>1, <1>2, <1>5, <1>6, <2>1, <2>2 DEF FormInv, Phases, nanots, process
<1>8. CallsInv'
  BY <1>1, <1>2 DEF CallsInv, nanots
<1>9. OutcomeInv'
  <2>1. ran'[at'] = "not"
    BY <1>2, <1>5
  <2>. QED BY <1>2, <2>1 DEF OutcomeInv
<1>10. FilesInv'
  <2>1. FilesAreTrue'
    BY <1>2, <1>4 DEF FilesAreTrue
  <2>2. \A i \in DOMAIN matrix : files[i].since <= round'
    <3>1. \A i \in DOMAIN matrix : files[i].since \in Nat
      BY <1>1, RoundsAssumption DEF FormInv, FileHolds
    <3>. QED BY <1>2, <1>3, <1>4, <3>1
  <2>. QED BY <1>2, <1>4, <1>5, <2>1, <2>2 DEF FilesInv
<1>11. VerdictInv'
  <2>1. \A i \in DOMAIN matrix : verdicts'[i] = "none" /\ ran'[i] = "not" /\ ~Judged(i)'
    BY <1>2, <1>3 DEF Judged
  <2>. QED BY <1>2, <2>1 DEF VerdictInv, NoFailurePasses
<1>12. TallyInv'
  <2>1. \A v \in Verdicts : Given(v)' = {}
    BY <1>2 DEF Given, Verdicts
  <2>2. Cardinality({}) = 0
    BY FS_EmptySet
  <2>. QED BY <1>2, <1>6, <2>1, <2>2 DEF TallyInv
<1>. QED BY <1>7, <1>8, <1>9, <1>10, <1>11, <1>12 DEF ScriptInv

LEMMA ScriptStarts == Init => ScriptInv
<1>. SUFFICES ASSUME Init PROVE ScriptInv
  OBVIOUS
<1>1. /\ NoDatabase /\ matrix \in Matrices /\ at = 1 /\ round = 1 /\ phase = "clean"
      /\ sinceSync = 0 /\ covered = 0 /\ seeks = 0 /\ sought = 0
      /\ error = FALSE /\ failed = FALSE
      /\ files = [i \in DOMAIN matrix |-> [what |-> "none", since |-> 0]]
      /\ tally = NoCount
      /\ verdicts = [i \in DOMAIN matrix |-> "none"]
      /\ ran = [i \in DOMAIN matrix |-> "not"]
  BY DEF Init
<1>2. 1 \in DOMAIN matrix
  <2>1. matrix \in Seq(CommandLines) /\ matrix # <<>>
    BY <1>1, BenchAssumption
  <2>. QED BY <2>1
<1>3. NoCount \in [Verdicts -> Nat] /\ \A v \in Verdicts : NoCount[v] = 0
  BY DEF NoCount, Verdicts
<1>4. /\ files \in [DOMAIN matrix -> FileHolds]
      /\ \A i \in DOMAIN matrix : files[i].since = 0
  <2>. DEFINE none == [what |-> "none", since |-> 0]
  <2>1. none \in FileHolds /\ none.since = 0
    BY RoundsAssumption DEF FileHolds
  <2>2. files = [i \in DOMAIN matrix |-> none]
    BY <1>1
  <2>. HIDE DEF none
  <2>. QED BY <2>1, <2>2
<1>5. FormInv
  <2>1. round \in 1 .. MaxRounds
    BY <1>1, RoundsAssumption
  <2>2. sinceSync \in Nat /\ seeks \in 0 .. NumFrames /\ sought \in 0 .. Prefill
    BY <1>1, BenchAssumption
  <2>3. /\ call \in [Streams -> CallPlaces] /\ contexts \subseteq Streams
        /\ writer \in {"none", "keeping", "reclaiming"}
    BY <1>1 DEF NoDatabase, CallPlaces
  <2>4. error \in BOOLEAN /\ failed \in BOOLEAN /\ phase \in Phases
    BY <1>1 DEF Phases
  <2>5. verdicts \in [DOMAIN matrix -> {"none"} \cup Verdicts]
    BY <1>1
  <2>6. ran \in [DOMAIN matrix -> Outcomes]
    BY <1>1 DEF Outcomes
  <2>. QED BY <1>1, <1>2, <1>3, <1>4, <2>1, <2>2, <2>3, <2>4, <2>5, <2>6 DEF FormInv
<1>6. CallsInv
  BY <1>1 DEF CallsInv, NoDatabase
<1>7. OutcomeInv
  BY <1>1, <1>2 DEF OutcomeInv
<1>8. FilesInv
  BY <1>1, <1>2, <1>4 DEF FilesInv, FilesAreTrue
<1>9. VerdictInv
  <2>1. \A i \in DOMAIN matrix : verdicts[i] = "none" /\ ran[i] = "not" /\ ~Judged(i)
    <3>1. DOMAIN matrix \subseteq Nat \ {0}
      BY <1>5, MatrixIsAList
    <3>. QED BY <1>1, <3>1 DEF Judged
  <2>. QED BY <1>1, <2>1 DEF VerdictInv, NoFailurePasses
<1>10. TallyInv
  <2>1. \A v \in Verdicts : Given(v) = {}
    BY <1>1 DEF Given, Verdicts
  <2>2. Cardinality({}) = 0
    BY FS_EmptySet
  <2>. QED BY <1>1, <1>3, <2>1, <2>2 DEF TallyInv
<1>. QED BY <1>5, <1>6, <1>7, <1>8, <1>9, <1>10 DEF ScriptInv

LEMMA ScriptUnchanged ==
    ASSUME ScriptInv, UNCHANGED vars
    PROVE  ScriptInv'
BY DEF ScriptInv, FormInv, CallsInv, OutcomeInv, FilesInv, VerdictInv, TallyInv, vars, nanots,
       process, FilesAreTrue, NoFailurePasses, Judged, Given, Command

\* The steps of the program, one by one.
LEMMA ProgramSteps ==
    ASSUME ProgramRuns
    PROVE  /\ RunAccounted /\ UNCHANGED <<tally, verdicts>>
           /\ \/ QuietStep
              \/ Create \/ SetUp \/ SetUpFails
              \/ FinalSync \/ SeeksEnd \/ RunThrows \/ ThreadsEnd
              \/ TearDown \/ WriteResult
<1>1. RunAccounted /\ UNCHANGED <<tally, verdicts>>
  BY DEF ProgramRuns, RunAccounted
<1>2. MainStep \/ (\E s \in Streams : ThreadStep(s)) \/ ReaderStep
  BY DEF ProgramRuns
<1>. QED BY <1>1, <1>2, Zenon DEF MainStep, QuietStep

LEMMA ScriptGoesOn ==
    ASSUME ScriptInv, [Next]_vars
    PROVE  ScriptInv'
<1>1. CASE Clean
  BY <1>1, CleanKeeps
<1>2. CASE ProgramRuns
  <2>1. RunAccounted /\ UNCHANGED <<tally, verdicts>>
    BY <1>2, ProgramSteps
  <2>2. CASE QuietStep
    BY <2>1, <2>2, QuietKeeps
  <2>3. CASE Create \/ SetUp \/ SetUpFails
    BY <2>1, <2>3, StartingKeeps
  <2>4. CASE FinalSync \/ SeeksEnd \/ RunThrows \/ ThreadsEnd
    BY <2>1, <2>4, LeavingKeeps
  <2>5. CASE TearDown \/ WriteResult
    <3>1. (TearDown \/ WriteResult) /\ RunAccounted
      BY <2>1, <2>5
    <3>. QED BY <2>1, <3>1, EndingKeeps, Zenon
  <2>. QED BY <1>2, <2>2, <2>3, <2>4, <2>5, ProgramSteps
<1>3. CASE ProgramDies
  BY <1>3, EndingKeeps DEF ProgramDies
<1>4. CASE Judge
  BY <1>4, JudgeKeeps
<1>5. CASE Again
  BY <1>5, AgainKeeps
<1>6. CASE Blackout
  BY <1>6, BlackoutKeeps
<1>7. CASE Over \/ UNCHANGED vars
  BY <1>7, ScriptUnchanged DEF Over
<1>. QED BY <1>1, <1>2, <1>3, <1>4, <1>5, <1>6, <1>7 DEF Next

THEOREM ScriptInvariantHolds == Spec => []ScriptInv
<1>. QED BY ScriptStarts, ScriptGoesOn, PTL DEF Spec

LEMMA DisjointUnion ==
    ASSUME NEW S, IsFiniteSet(S), NEW T, IsFiniteSet(T), S \cap T = {}
    PROVE  /\ IsFiniteSet(S \cup T)
           /\ Cardinality(S \cup T) = Cardinality(S) + Cardinality(T)
<1>1. Cardinality(S) \in Nat /\ Cardinality(T) \in Nat /\ Cardinality(S \cap T) = 0
  BY FS_CardinalityType, FS_EmptySet
<1>2. /\ IsFiniteSet(S \cup T)
      /\ Cardinality(S \cup T) = Cardinality(S) + Cardinality(T) - Cardinality(S \cap T)
  BY FS_Union
<1>. QED BY <1>1, <1>2

\* "exit $FAILED": a cell is counted as failed exactly if its run failed, its process
\* was killed or, without either, it left no output file.
LEMMA FailuresCounted ==
    ASSUME ScriptInv
    PROVE  FailuresAreCounted
<1>. SUFFICES ASSUME phase = "summary"
              PROVE  /\ tally.failed
                          = Cardinality({i \in DOMAIN matrix : ran[i] \in {"failed", "killed"}})
                            + Cardinality({i \in DOMAIN matrix : files[i].what = "none"
                                                               /\ ran[i] = "succeeded"})
                     /\ tally.passed + tally.skipped + tally.failed = Len(matrix)
  BY DEF FailuresAreCounted
<1>. DEFINE A == {i \in DOMAIN matrix : ran[i] \in {"failed", "killed"}}
            B == {i \in DOMAIN matrix : files[i].what = "none" /\ ran[i] = "succeeded"}
            P == Given("passed")
            S == Given("skipped")
            F == Given("failed")
<1>1. /\ Len(matrix) \in Nat /\ DOMAIN matrix = 1 .. Len(matrix)
      /\ IsFiniteSet(DOMAIN matrix) /\ Cardinality(DOMAIN matrix) = Len(matrix)
  <2>1. Len(matrix) \in Nat /\ DOMAIN matrix = 1 .. Len(matrix)
    BY MatrixIsAList DEF ScriptInv
  <2>2. \A n \in Nat : IsFiniteSet(1 .. n) /\ Cardinality(1 .. n) = n
    <3>. TAKE n \in Nat
    <3>1. IsFiniteSet(1 .. n) /\ Cardinality(1 .. n) = IF 1 > n THEN 0 ELSE n - 1 + 1
      BY FS_Interval
    <3>. QED BY <3>1
  <2>. QED BY <2>1, <2>2
<1>2. /\ A \subseteq DOMAIN matrix /\ B \subseteq DOMAIN matrix /\ A \cap B = {}
      /\ P \subseteq DOMAIN matrix /\ S \subseteq DOMAIN matrix /\ F \subseteq DOMAIN matrix
  BY DEF Given
<1>3. IsFiniteSet(A) /\ IsFiniteSet(B) /\ IsFiniteSet(P) /\ IsFiniteSet(S) /\ IsFiniteSet(F)
  <2>1. \A X : X \subseteq DOMAIN matrix => IsFiniteSet(X)
    BY <1>1, FS_Subset
  <2>. HIDE DEF A, B, P, S, F
  <2>. QED BY <1>2, <2>1
<1>4. \A i \in DOMAIN matrix :
        /\ verdicts[i] \in Verdicts /\ ran[i] \in {"succeeded", "killed", "failed"}
        /\ (verdicts[i] = "failed") <=> (ran[i] \in NotWell \/ files[i].what = "none")
  <2>1. \A i \in DOMAIN matrix : Judged(i)
    BY DEF Judged
  <2>. QED BY <2>1 DEF ScriptInv, VerdictInv, FormInv, Outcomes
<1>5. F = A \cup B
  BY <1>4 DEF Given, NotWell
<1>6. Cardinality(F) = Cardinality(A) + Cardinality(B)
  BY <1>2, <1>3, <1>5, DisjointUnion
<1>7. P \cup S \cup F = DOMAIN matrix
  BY <1>4 DEF Given, Verdicts
<1>8. P \cap S = {} /\ (P \cup S) \cap F = {} /\ IsFiniteSet(P \cup S)
  BY <1>3, FS_Union DEF Given
<1>9. Cardinality(DOMAIN matrix) = Cardinality(P) + Cardinality(S) + Cardinality(F)
  <2>. HIDE DEF P, S, F
  <2>1. Cardinality(P \cup S) = Cardinality(P) + Cardinality(S)
    BY <1>3, <1>8, DisjointUnion
  <2>2. Cardinality((P \cup S) \cup F) = Cardinality(P \cup S) + Cardinality(F)
    BY <1>3, <1>8, DisjointUnion
  <2>. QED BY <1>7, <2>1, <2>2
<1>10. /\ tally.passed = Cardinality(P) /\ tally.skipped = Cardinality(S)
       /\ tally.failed = Cardinality(F)
  BY DEF ScriptInv, TallyInv, Verdicts
<1>. QED BY <1>1, <1>6, <1>9, <1>10

\* No failure goes unreported, for any command lines, rounds and faults, a kill after
\* the output file is complete included: a process that failed or was killed is neither
\* called OK nor SKIPPED, whatever an older file says; the figures of an output file
\* written in this round are of a workload that ended well, and an error in it of one
\* that did not; and the exit status counts them all. It does not say that what is
\* called OK is of this round, nor that what is SKIPPED is not implemented: neither holds.
THEOREM FailuresAreAlwaysReported == Spec => []FailuresAreReported
<1>1. ScriptInv => FailuresAreReported
  BY FailuresCounted DEF FailuresAreReported, ScriptInv, FilesInv, VerdictInv
<1>. QED BY <1>1, ScriptInvariantHolds, PTL

------------------------------------------------------------------------------
(* The file *)

PerBlock == FramesPerBlock(file.size, FrameSize)

Files(blocks) ==
    [size : Nat, frames : [blocks -> Seq(Nat)], chain : [Streams -> Seq(blocks)],
     current : [Streams -> blocks \cup {NoBlock}], flushed : SUBSET blocks]

FileForm ==
    /\ Blocks \subseteq Nat \ {0}
    /\ file \in Files(Blocks)
    /\ gone \in [Streams -> Seq(Nat)]
    /\ Blocks # {} => file.size >= 16

\* Some stream has the block.
Held(b) == \E s \in Streams : \/ file.current[s] = b
                              \/ \E i \in DOMAIN file.chain[s] : file.chain[s][i] = b

\* A block is in one place.
OwnInv ==
    /\ \A s, t \in Streams : \A i \in DOMAIN file.chain[s], j \in DOMAIN file.chain[t] :
           file.chain[s][i] = file.chain[t][j] => s = t /\ i = j
    /\ \A s, t \in Streams : \A i \in DOMAIN file.chain[s] :
           file.chain[s][i] # file.current[t]
    /\ \A s, t \in Streams :
           file.current[s] = file.current[t] /\ file.current[s] # NoBlock => s = t
    /\ \A b \in Blocks : file.frames[b] # <<>> => Held(b)

\* Finalized blocks are full, and a stream's frames go on from block to block.
FillInv ==
    /\ \A s \in Streams : gone[s] = Run(0, Len(gone[s]))
    /\ \A s \in Streams : \A i \in DOMAIN file.chain[s] :
           file.frames[file.chain[s][i]] = Run(Before(Len(gone[s]), i, PerBlock), PerBlock)
    /\ \A s \in Streams : file.current[s] # NoBlock =>
           /\ file.frames[file.current[s]]
                = Run(Before(Len(gone[s]), Len(file.chain[s]) + 1, PerBlock),
                      Len(file.frames[file.current[s]]))
           /\ Len(file.frames[file.current[s]]) <= PerBlock

\* What is finalized has been flushed.
FlushInv ==
    \A s \in Streams :
        /\ \A i \in DOMAIN file.chain[s] : file.chain[s][i] \in file.flushed
        /\ call[s] = "finalize" => /\ file.current[s] # NoBlock
                                   /\ file.current[s] \in file.flushed
                                   /\ Len(file.frames[file.current[s]]) = PerBlock

FileInv == FileForm /\ OwnInv /\ FillInv /\ FlushInv

\* What a block takes, once there is a block.
LEMMA PerBlockIsNat ==
    ASSUME NEW size \in Nat, size >= 16
    PROVE  /\ FramesPerBlock(size, FrameSize) \in Nat
           /\ FramesPerBlock(size, FrameSize) * FrameSize < size
<1>1. FrameSize \in Nat \ {0}
  BY BenchAssumption
<1>. DEFINE cost == ((21 + FrameSize + 7) \div 8) * 8 + 16
            q == (size - 16) \div cost
<1>2. cost \in Nat /\ cost >= FrameSize + 37
  BY <1>1
<1>. HIDE DEF cost
<1>3. size - 16 \in Nat /\ cost # 0
  BY <1>2, <1>1
<1>4. q \in Nat /\ q * cost <= size - 16
  <2>1. \A m \in Nat, b \in Nat \ {0} : m \div b \in Nat /\ (m \div b) * b <= m
    OBVIOUS
  <2>. QED BY <1>2, <1>3, <2>1
<1>5. q * FrameSize <= q * cost
  <2>. HIDE DEF q
  <2>1. cost = FrameSize + (cost - FrameSize) /\ cost - FrameSize \in Nat
    BY <1>1, <1>2
  <2>2. q * cost = q * FrameSize + q * (cost - FrameSize)
    BY <1>1, <1>4, <2>1
  <2>3. q * (cost - FrameSize) \in Nat /\ q * FrameSize \in Nat
    BY <1>1, <1>4, <2>1
  <2>4. q * cost \in Nat
    BY <1>2, <1>4
  <2>. QED BY <2>2, <2>3, <2>4
<1>6. FramesPerBlock(size, FrameSize) = q
  BY DEF FramesPerBlock, cost
<1>7. q * FrameSize \in Nat /\ q * cost \in Nat
  BY <1>1, <1>2, <1>4
<1>. HIDE DEF q
<1>. QED BY <1>4, <1>5, <1>6, <1>7

\* The parts of a file.
LEMMA FileParts ==
    ASSUME FileForm
    PROVE  /\ NoBlock \notin Blocks /\ Blocks \subseteq Nat
           /\ file.size \in Nat
           /\ file.frames \in [Blocks -> Seq(Nat)]
           /\ file.chain \in [Streams -> Seq(Blocks)]
           /\ file.current \in [Streams -> Blocks \cup {NoBlock}]
           /\ file.flushed \in SUBSET Blocks
           /\ Blocks # {} => PerBlock \in Nat
           /\ \A s \in Streams :
                /\ file.chain[s] \in Seq(Blocks)
                /\ Len(file.chain[s]) \in Nat
                /\ DOMAIN file.chain[s] = 1 .. Len(file.chain[s])
                /\ \A i \in DOMAIN file.chain[s] : file.chain[s][i] \in Blocks
                /\ gone[s] \in Seq(Nat) /\ Len(gone[s]) \in Nat
           /\ \A b \in Blocks : file.frames[b] \in Seq(Nat) /\ Len(file.frames[b]) \in Nat
<1>1. file \in Files(Blocks) /\ Blocks \subseteq Nat \ {0} /\ gone \in [Streams -> Seq(Nat)]
  BY DEF FileForm
<1>2. /\ file.size \in Nat /\ file.frames \in [Blocks -> Seq(Nat)]
      /\ file.chain \in [Streams -> Seq(Blocks)]
      /\ file.current \in [Streams -> Blocks \cup {NoBlock}]
      /\ file.flushed \in SUBSET Blocks
  BY <1>1 DEF Files
<1>3. NoBlock \notin Blocks
  BY <1>1 DEF NoBlock
<1>4. Blocks # {} => PerBlock \in Nat
  BY <1>2, PerBlockIsNat DEF FileForm, PerBlock
<1>5. ASSUME NEW s \in Streams
      PROVE  /\ file.chain[s] \in Seq(Blocks)
             /\ Len(file.chain[s]) \in Nat
             /\ DOMAIN file.chain[s] = 1 .. Len(file.chain[s])
             /\ \A i \in DOMAIN file.chain[s] : file.chain[s][i] \in Blocks
             /\ gone[s] \in Seq(Nat) /\ Len(gone[s]) \in Nat
  <2>1. file.chain[s] \in Seq(Blocks) /\ gone[s] \in Seq(Nat)
    BY <1>1, <1>2
  <2>. QED BY <2>1, LenProperties, ElementOfSeq
<1>6. \A b \in Blocks : file.frames[b] \in Seq(Nat) /\ Len(file.frames[b]) \in Nat
  BY <1>2, LenProperties
<1>. QED BY <1>1, <1>2, <1>3, <1>4, <1>5, <1>6

\* Steps that leave the file alone.
LEMMA FileKept ==
    ASSUME FileInv, UNCHANGED <<file, gone>>,
           \A s \in Streams : call'[s] = "finalize" => call[s] = "finalize"
    PROVE  FileInv'
<1>1. FileForm'
  BY DEF FileInv, FileForm, Blocks
<1>2. OwnInv'
  BY DEF FileInv, OwnInv, Held, Blocks
<1>3. FillInv'
  BY DEF FileInv, FillInv, PerBlock
<1>4. FlushInv'
  BY DEF FileInv, FlushInv, PerBlock
<1>. QED BY <1>1, <1>2, <1>3, <1>4 DEF FileInv

\* An empty file, with nothing gone.
LEMMA EmptyFile ==
    ASSUME NEW size \in Nat, NEW n \in Nat, n # 0 => size >= 16,
           file' = Pristine(size, n),
           \A s \in Streams : gone'[s] = <<>>, gone' \in [Streams -> Seq(Nat)],
           \A s \in Streams : call'[s] = "idle"
    PROVE  FileInv'
<1>1. /\ file'.size = size /\ file'.frames = [b \in 1 .. n |-> <<>>]
      /\ file'.chain = [s \in Streams |-> <<>>] /\ file'.current = [s \in Streams |-> NoBlock]
      /\ file'.flushed = {}
  BY DEF Pristine
<1>2. Blocks' = 1 .. n
  BY <1>1 DEF Blocks
<1>3. FileForm'
  <2>1. file' \in Files(1 .. n)
    <3>1. [b \in 1 .. n |-> <<>>] \in [1 .. n -> Seq(Nat)]
      OBVIOUS
    <3>2. [s \in Streams |-> <<>>] \in [Streams -> Seq(1 .. n)]
      OBVIOUS
    <3>3. [s \in Streams |-> NoBlock] \in [Streams -> 1 .. n \cup {NoBlock}]
      OBVIOUS
    <3>. QED BY <3>1, <3>2, <3>3 DEF Files, Pristine
  <2>2. 1 .. n # {} => size >= 16
    OBVIOUS
  <2>. QED BY <1>1, <1>2, <2>1, <2>2 DEF FileForm
<1>4. \A s \in Streams : file'.chain[s] = <<>> /\ file'.current[s] = NoBlock
  BY <1>1
<1>5. OwnInv'
  <2>1. \A b \in Blocks' : file'.frames[b] = <<>>
    BY <1>1, <1>2
  <2>. QED BY <1>4, <2>1 DEF OwnInv
<1>6. FillInv'
  <2>1. Run(0, 0) = <<>>
    BY DEF Run
  <2>. QED BY <1>4, <2>1 DEF FillInv
<1>7. FlushInv'
  BY <1>4 DEF FlushInv
<1>. QED BY <1>3, <1>5, <1>6, <1>7 DEF FileInv

LEMMA FlushKeepsFile ==
    ASSUME FileInv, NEW s \in Streams, FlushBlock(s), call \in [Streams -> CallPlaces]
    PROVE  FileInv'
<1>1. /\ call[s] = "write" /\ file.current[s] # NoBlock
      /\ Len(file.frames[file.current[s]]) = PerBlock
      /\ file' = [file EXCEPT !.flushed = @ \cup {file.current[s]}]
      /\ call' = [call EXCEPT ![s] = "finalize"] /\ gone' = gone
  BY DEF FlushBlock, Full, Goto, PerBlock
<1>2. FileForm /\ OwnInv /\ FillInv /\ FlushInv
  BY DEF FileInv
<1>3. /\ file \in Files(Blocks) /\ file.flushed \in SUBSET Blocks /\ file.current[s] \in Blocks
  BY <1>1, <1>2, FileParts DEF FileForm
<1>4. /\ file'.size = file.size /\ file'.frames = file.frames /\ file'.chain = file.chain
      /\ file'.current = file.current /\ file'.flushed = file.flushed \cup {file.current[s]}
      /\ file' \in Files(Blocks)
  BY <1>1, <1>3 DEF Files
<1>5. Blocks' = Blocks /\ PerBlock' = PerBlock /\ \A b : Held(b)' = Held(b)
  BY <1>1, <1>4 DEF Blocks, PerBlock, Held
<1>6. FileForm'
  BY <1>1, <1>2, <1>4, <1>5 DEF FileForm
<1>7. OwnInv'
  BY <1>2, <1>4, <1>5 DEF OwnInv
<1>8. FillInv'
  BY <1>1, <1>2, <1>4, <1>5 DEF FillInv
<1>9. FlushInv'
  BY <1>1, <1>2, <1>4, <1>5 DEF FlushInv
<1>. QED BY <1>6, <1>7, <1>8, <1>9 DEF FileInv

\* The block that stream s fills becomes the last of its finalized ones.
LEMMA FinalizeKeepsFile ==
    ASSUME FileInv, NEW s \in Streams, FinalizeBlock(s), call \in [Streams -> CallPlaces]
    PROVE  FileInv'
<1>. DEFINE b == file.current[s]
            n == Len(file.chain[s])
<1>1. /\ call[s] = "finalize"
      /\ file' = [file EXCEPT !.chain[s] = Append(@, b), !.current[s] = NoBlock]
      /\ call' = [call EXCEPT ![s] = "write"] /\ gone' = gone
  BY DEF FinalizeBlock, Goto
<1>2. FileForm /\ OwnInv /\ FillInv /\ FlushInv
  BY DEF FileInv
<1>3. b # NoBlock /\ b \in file.flushed /\ Len(file.frames[b]) = PerBlock
  BY <1>1, <1>2 DEF FlushInv
<1>4. /\ file \in Files(Blocks) /\ b \in Blocks /\ n \in Nat
      /\ file.chain \in [Streams -> Seq(Blocks)] /\ file.chain[s] \in Seq(Blocks)
      /\ DOMAIN file.chain[s] = 1 .. n
      /\ file.current \in [Streams -> Blocks \cup {NoBlock}]
  BY <1>2, <1>3, FileParts DEF FileForm
<1>5. /\ file'.size = file.size /\ file'.frames = file.frames /\ file'.flushed = file.flushed
      /\ file'.chain = [file.chain EXCEPT ![s] = Append(@, b)]
      /\ file'.current = [file.current EXCEPT ![s] = NoBlock]
  BY <1>1, <1>4 DEF Files
<1>. HIDE DEF b, n
<1>6. /\ Append(file.chain[s], b) \in Seq(Blocks) /\ Len(Append(file.chain[s], b)) = n + 1
      /\ DOMAIN Append(file.chain[s], b) = 1 .. n + 1
      /\ \A i \in 1 .. n : Append(file.chain[s], b)[i] = file.chain[s][i]
      /\ Append(file.chain[s], b)[n + 1] = b
  BY <1>4, AppendProperties, LenProperties DEF n
<1>7. /\ file'.chain[s] = Append(file.chain[s], b) /\ file'.current[s] = NoBlock
      /\ \A t \in Streams : t # s => /\ file'.chain[t] = file.chain[t]
                                     /\ file'.current[t] = file.current[t]
  BY <1>4, <1>5
<1>8. Blocks' = Blocks /\ PerBlock' = PerBlock
  BY <1>5 DEF Blocks, PerBlock
<1>9. FileForm'
  <2>1. file' \in Files(Blocks)
    <3>1. file'.chain \in [Streams -> Seq(Blocks)]
      BY <1>4, <1>5, <1>6
    <3>2. file'.current \in [Streams -> Blocks \cup {NoBlock}]
      BY <1>4, <1>5
    <3>. QED BY <1>1, <1>4, <1>5, <3>1, <3>2 DEF Files
  <2>. QED BY <1>1, <1>2, <1>5, <1>8, <2>1 DEF FileForm
<1>10. \A t \in Streams : \A i \in DOMAIN file'.chain[t] :
          \/ /\ i \in DOMAIN file.chain[t] /\ file'.chain[t][i] = file.chain[t][i]
          \/ t = s /\ i = n + 1 /\ file'.chain[t][i] = b
  <2>1. \A i \in 1 .. n + 1 : i \in 1 .. n \/ i = n + 1
    BY <1>4
  <2>. QED BY <1>4, <1>6, <1>7, <2>1
<1>11. OwnInv'
  <2>1. ASSUME NEW t \in Streams, NEW u \in Streams, NEW i \in DOMAIN file'.chain[t],
               NEW j \in DOMAIN file'.chain[u], file'.chain[t][i] = file'.chain[u][j]
        PROVE  t = u /\ i = j
    BY <1>2, <1>10, <2>1 DEF OwnInv, b
  <2>2. ASSUME NEW t \in Streams, NEW u \in Streams, NEW i \in DOMAIN file'.chain[t]
        PROVE  file'.chain[t][i] # file'.current[u]
    <3>1. CASE u = s
      <4>1. file'.chain[t][i] \in Blocks
        BY <1>2, <1>4, <1>10, FileParts
      <4>. QED BY <1>2, <1>7, <3>1, <4>1, FileParts
    <3>2. CASE u # s
      BY <1>2, <1>3, <1>7, <1>10, <3>2 DEF OwnInv, b
    <3>. QED BY <3>1, <3>2
  <2>3. \A t, u \in Streams :
          file'.current[t] = file'.current[u] /\ file'.current[t] # NoBlock => t = u
    BY <1>2, <1>7 DEF OwnInv
  <2>4. ASSUME NEW x, Held(x), x \in Blocks PROVE Held(x)'
    <3>1. PICK t \in Streams : \/ file.current[t] = x
                              \/ \E i \in DOMAIN file.chain[t] : file.chain[t][i] = x
      BY <2>4 DEF Held
    <3>2. CASE \E i \in DOMAIN file.chain[t] : file.chain[t][i] = x
      <4>1. PICK i \in DOMAIN file.chain[t] : file.chain[t][i] = x
        BY <3>2
      <4>2. i \in DOMAIN file'.chain[t] /\ file'.chain[t][i] = x
        <5>1. CASE t = s
          <6>1. i \in 1 .. n /\ i \in 1 .. n + 1
            BY <1>4, <4>1, <5>1
          <6>. QED BY <1>6, <1>7, <4>1, <5>1, <6>1
        <5>2. CASE t # s
          BY <1>7, <4>1, <5>2
        <5>. QED BY <5>1, <5>2
      <4>. QED BY <4>2 DEF Held
    <3>3. CASE file.current[t] = x
      BY <1>4, <1>6, <1>7, <3>3 DEF Held, b
    <3>. QED BY <3>1, <3>2, <3>3
  <2>5. \A x \in Blocks' : file'.frames[x] # <<>> => Held(x)'
    BY <1>2, <1>5, <1>8, <2>4 DEF OwnInv
  <2>. QED BY <2>1, <2>2, <2>3, <2>5 DEF OwnInv
<1>12. FillInv'
  <2>1. \A t \in Streams : gone'[t] = Run(0, Len(gone'[t]))
    BY <1>1, <1>2 DEF FillInv
  <2>2. ASSUME NEW t \in Streams, NEW i \in DOMAIN file'.chain[t]
        PROVE  file'.frames[file'.chain[t][i]] = Run(Before(Len(gone'[t]), i, PerBlock'), PerBlock')
    <3>1. CASE i \in DOMAIN file.chain[t] /\ file'.chain[t][i] = file.chain[t][i]
      BY <1>1, <1>2, <1>5, <1>8, <3>1 DEF FillInv
    <3>2. CASE t = s /\ i = n + 1 /\ file'.chain[t][i] = b
      BY <1>1, <1>2, <1>3, <1>5, <1>8, <3>2 DEF FillInv, b, n
    <3>. QED BY <1>10, <3>1, <3>2
  <2>3. ASSUME NEW t \in Streams, file'.current[t] # NoBlock
        PROVE  /\ file'.frames[file'.current[t]]
                    = Run(Before(Len(gone'[t]), Len(file'.chain[t]) + 1, PerBlock'),
                          Len(file'.frames[file'.current[t]]))
               /\ Len(file'.frames[file'.current[t]]) <= PerBlock'
    <3>1. t # s /\ file'.current[t] = file.current[t] /\ file'.chain[t] = file.chain[t]
      BY <1>5, <1>7, <2>3
    <3>2. /\ file.frames[file.current[t]]
               = Run(Before(Len(gone[t]), Len(file.chain[t]) + 1, PerBlock),
                     Len(file.frames[file.current[t]]))
          /\ Len(file.frames[file.current[t]]) <= PerBlock
      BY <1>2, <2>3, <3>1 DEF FillInv
    <3>. QED BY <1>1, <1>5, <1>8, <3>1, <3>2
  <2>. QED BY <2>1, <2>2, <2>3 DEF FillInv
<1>13. FlushInv'
  <2>1. \A t \in Streams : t # s => call'[t] = call[t]
    BY <1>1
  <2>2. call'[s] # "finalize"
    BY <1>1
  <2>. QED BY <1>2, <1>3, <1>5, <1>7, <1>8, <1>10, <2>1, <2>2 DEF FlushInv
<1>. QED BY <1>9, <1>11, <1>12, <1>13 DEF FileInv

\* Rows of numbers.
LEMMA Runs ==
    ASSUME NEW base \in Nat, NEW m \in Nat
    PROVE  /\ Run(base, m) \in Seq(Nat) /\ Len(Run(base, m)) = m
           /\ Run(base, 0) = <<>>
           /\ \A k \in Nat : Run(base, m) \o Run(base + m, k) = Run(base, m + k)
           /\ Append(Run(base, m), base + m + 1) = Run(base, m + 1)
<1>1. \A k \in Nat : Run(base, k) \in Seq(Nat) /\ Len(Run(base, k)) = k
  BY DEF Run
<1>2. Run(base, 0) = <<>>
  BY DEF Run
<1>3. \A k \in Nat : Run(base, m) \o Run(base + m, k) = Run(base, m + k)
  BY Joined DEF Run
<1>4. Append(Run(base, m), base + m + 1) = Run(base, m + 1)
  <2>. DEFINE a == Append(Run(base, m), base + m + 1)
              c == Run(base, m + 1)
  <2>1. /\ a \in Seq(Nat) /\ Len(a) = m + 1
        /\ \A j \in 1 .. m : a[j] = Run(base, m)[j]
        /\ a[m + 1] = base + m + 1
    <3>. DEFINE e == base + m + 1
                r == Run(base, m)
    <3>1. e \in Nat /\ r \in Seq(Nat) /\ Len(r) = m
      BY <1>1
    <3>. HIDE DEF e, r
    <3>2. /\ Append(r, e) \in Seq(Nat) /\ Len(Append(r, e)) = Len(r) + 1
          /\ \A j \in 1 .. Len(r) : Append(r, e)[j] = r[j]
          /\ Append(r, e)[Len(r) + 1] = e
      BY <3>1, AppendProperties
    <3>3. /\ Append(r, e) \in Seq(Nat) /\ Len(Append(r, e)) = m + 1
          /\ \A j \in 1 .. m : Append(r, e)[j] = r[j]
          /\ Append(r, e)[m + 1] = e
      BY <3>1, <3>2
    <3>. QED BY <3>3 DEF e, r
  <2>2. c \in Seq(Nat) /\ Len(c) = m + 1
    BY <1>1
  <2>3. \A j \in 1 .. m + 1 : c[j] = base + j
    BY DEF Run
  <2>4. \A j \in 1 .. m : Run(base, m)[j] = base + j
    BY DEF Run
  <2>. HIDE DEF a, c
  <2>5. \A j \in 1 .. m + 1 : j \in 1 .. m \/ j = m + 1
    OBVIOUS
  <2>6. \A j \in 1 .. m + 1 : a[j] = c[j]
    BY <2>1, <2>3, <2>4, <2>5
  <2>7. a = c
    BY <2>1, <2>2, <2>6, SeqEqual
  <2>. QED BY <2>7 DEF a, c
<1>. QED BY <1>1, <1>2, <1>3, <1>4

\* How many frames are in a stream's blocks.
Kept(s) == Len(file.chain[s]) * PerBlock
           + (IF file.current[s] = NoBlock THEN 0 ELSE Len(file.frames[file.current[s]]))

\* What a stream's blocks hold are the frames that follow those that are gone.
LEMMA ContentIsARun ==
    ASSUME FileForm, FillInv, NEW s \in Streams
    PROVE  /\ Kept(s) \in Nat /\ Len(gone[s]) \in Nat
           /\ Content(s) = Run(Len(gone[s]), Kept(s))
           /\ Len(Content(s)) = Kept(s) /\ Written(s) = Len(gone[s]) + Kept(s)
           /\ file.current[s] # NoBlock =>
                /\ Len(file.chain[s]) * PerBlock \in Nat
                /\ Before(Len(gone[s]), Len(file.chain[s]) + 1, PerBlock)
                     = Len(gone[s]) + Len(file.chain[s]) * PerBlock
<1>. DEFINE n == Len(file.chain[s])
            lost == Len(gone[s])
            cur == file.current[s]
            blocks == BlocksOf(s)
            ss == [i \in DOMAIN blocks |-> file.frames[blocks[i]]]
<1>1. /\ n \in Nat /\ lost \in Nat /\ DOMAIN file.chain[s] = 1 .. n
      /\ file.chain[s] \in Seq(Blocks)
      /\ \A i \in 1 .. n : file.chain[s][i] \in Blocks
      /\ cur \in Blocks \cup {NoBlock} /\ NoBlock \notin Blocks
      /\ Blocks # {} => PerBlock \in Nat
      /\ \A b \in Blocks : Len(file.frames[b]) \in Nat
  BY FileParts
<1>2. /\ \A i \in 1 .. n : file.frames[file.chain[s][i]] = Run(Before(lost, i, PerBlock), PerBlock)
      /\ cur # NoBlock =>
           file.frames[cur] = Run(Before(lost, n + 1, PerBlock), Len(file.frames[cur]))
  BY <1>1 DEF FillInv
<1>3. CASE cur = NoBlock /\ n = 0
  <2>1. blocks = <<>>
    BY <1>1, <1>3, ConcatEmptySeq DEF BlocksOf
  <2>2. ss = <<>>
    BY <2>1
  <2>3. FlattenSeq(ss) = <<>>
    BY <2>2 DEF FlattenSeq
  <2>4. Kept(s) = 0
    <3>1. PerBlock \in Int => 0 * PerBlock = 0
      OBVIOUS
    <3>2. PerBlock \in Int
      <4>1. FrameSize \in Nat /\ file.size \in Nat
        BY BenchAssumption, FileParts
      <4>. QED BY <4>1 DEF PerBlock, FramesPerBlock
    <3>. QED BY <1>3, <3>1, <3>2 DEF Kept
  <2>5. Content(s) = <<>> /\ Run(lost, 0) = <<>> /\ Len(<<>>) = 0
    BY <1>1, <2>3, Runs DEF Content
  <2>. HIDE DEF n, lost, ss
  <2>6. Content(s) = Run(lost, Kept(s)) /\ Len(Content(s)) = Kept(s)
    BY <2>4, <2>5
  <2>7. Written(s) = lost + Kept(s)
    BY <2>6 DEF Written, lost
  <2>. QED BY <1>1, <1>3, <2>4, <2>6, <2>7 DEF lost
<1>4. CASE cur # NoBlock
  <2>. DEFINE last == Len(file.frames[cur])
  <2>1. PerBlock \in Nat /\ last \in Nat /\ n * PerBlock \in Nat
    <3>1. PerBlock \in Nat /\ last \in Nat
      BY <1>1, <1>4
    <3>. HIDE DEF n, last
    <3>. QED BY <1>1, <3>1, Products
  <2>2. /\ Len(blocks) = n + 1 /\ DOMAIN blocks = 1 .. n + 1
        /\ \A i \in 1 .. n : blocks[i] = file.chain[s][i]
        /\ blocks[n + 1] = cur
    <3>1. blocks = file.chain[s] \o <<cur>>
      BY <1>4 DEF BlocksOf
    <3>2. cur \in Blocks
      BY <1>1, <1>4
    <3>3. blocks = Append(file.chain[s], cur)
      BY <1>1, <3>1, <3>2, AppendIsConcat
    <3>. HIDE DEF blocks
    <3>4. blocks \in Seq(Blocks) /\ Len(blocks) = n + 1
      BY <1>1, <3>2, <3>3, AppendProperties
    <3>. QED BY <1>1, <3>2, <3>3, <3>4, AppendProperties, LenProperties
  <2>. HIDE DEF blocks
  <2>3. Len(ss) = n + 1
    BY <1>1, <2>2
  <2>4. \A i \in 1 .. n + 1 :
          ss[i] = Run(Before(lost, i, PerBlock), IF i < n + 1 THEN PerBlock ELSE last)
    <3>. TAKE i \in 1 .. n + 1
    <3>1. CASE i < n + 1
      <4>1. i \in 1 .. n
        BY <1>1, <3>1
      <4>2. ss[i] = Run(Before(lost, i, PerBlock), PerBlock)
        BY <1>2, <2>2, <4>1
      <4>. QED BY <3>1, <4>2
    <3>2. CASE ~(i < n + 1)
      <4>1. i = n + 1
        BY <1>1, <3>2
      <4>2. ss[i] = Run(Before(lost, i, PerBlock), last)
        BY <1>2, <1>4, <2>2, <4>1
      <4>. QED BY <3>2, <4>2
    <3>. QED BY <3>1, <3>2
  <2>5. FlattenSeq(ss) = Run(lost, n * PerBlock + last)
    <3>. DEFINE m == n + 1
    <3>1. m \in Nat \ {0} /\ lost \in Nat /\ Len(ss) = m
      BY <1>1, <2>3
    <3>2. \A i \in 1 .. m :
            ss[i] = Run(Before(lost, i, PerBlock), IF i < m THEN PerBlock ELSE last)
      BY <2>4
    <3>. HIDE DEF m, n, last, lost, ss
    <3>3. FlattenSeq(ss) = Run(lost, (m - 1) * PerBlock + last)
      BY <2>1, <3>1, <3>2, FlattenedRun
    <3>4. m - 1 = n
      BY <1>1 DEF m
    <3>. QED BY <3>3, <3>4
  <2>6. Kept(s) = n * PerBlock + last /\ n + 1 - 1 = n
    BY <1>1, <1>4 DEF Kept
  <2>7. Content(s) = Run(lost, Kept(s))
    BY <2>5, <2>6 DEF Content, blocks
  <2>8. Kept(s) \in Nat
    <3>. HIDE DEF n, last
    <3>. QED BY <2>1, <2>6
  <2>9. Len(Content(s)) = Kept(s)
    <3>. HIDE DEF lost
    <3>1. Len(Run(lost, Kept(s))) = Kept(s)
      BY <1>1, <2>8, Runs
    <3>. QED BY <2>7, <3>1
  <2>10. Written(s) = lost + Kept(s)
    BY <2>9 DEF Written
  <2>11. Before(lost, n + 1, PerBlock) = lost + n * PerBlock
    BY <2>6 DEF Before
  <2>. QED BY <1>1, <2>1, <2>7, <2>8, <2>9, <2>10, <2>11
<1>5. CASE cur = NoBlock /\ n # 0
  <2>1. PerBlock \in Nat /\ n * PerBlock \in Nat
    <3>1. 1 \in 1 .. n
      BY <1>1, <1>5
    <3>2. PerBlock \in Nat
      BY <1>1, <3>1
    <3>. HIDE DEF n
    <3>. QED BY <1>1, <3>2, Products
  <2>2. blocks = file.chain[s]
    BY <1>1, <1>5, ConcatEmptySeq DEF BlocksOf
  <2>. HIDE DEF blocks
  <2>3. Len(ss) = n
    BY <1>1, <2>2
  <2>4. \A i \in 1 .. n :
          ss[i] = Run(Before(lost, i, PerBlock), IF i < n THEN PerBlock ELSE PerBlock)
    BY <1>1, <1>2, <2>2
  <2>5. FlattenSeq(ss) = Run(lost, (n - 1) * PerBlock + PerBlock)
    <3>1. n \in Nat \ {0} /\ lost \in Nat
      BY <1>1, <1>5
    <3>. HIDE DEF n, lost, ss
    <3>. QED BY <2>1, <2>3, <2>4, <3>1, FlattenedRun
  <2>6. Kept(s) = n * PerBlock
    BY <1>5, <2>1 DEF Kept
  <2>7. (n - 1) * PerBlock + PerBlock = n * PerBlock
    <3>1. n - 1 \in Nat
      BY <1>1, <1>5
    <3>. HIDE DEF n
    <3>2. (n - 1 + 1) * PerBlock = (n - 1) * PerBlock + PerBlock
      BY <2>1, <3>1, Products
    <3>3. n - 1 + 1 = n
      BY <1>1
    <3>. QED BY <3>2, <3>3
  <2>8. Content(s) = Run(lost, Kept(s))
    BY <2>5, <2>6, <2>7 DEF Content, blocks
  <2>9. Kept(s) \in Nat
    BY <2>1, <2>6
  <2>10. Len(Content(s)) = Kept(s)
    <3>. HIDE DEF lost
    <3>1. Len(Run(lost, Kept(s))) = Kept(s)
      BY <1>1, <2>9, Runs
    <3>. QED BY <2>8, <3>1
  <2>11. Written(s) = lost + Kept(s)
    BY <2>10 DEF Written
  <2>. QED BY <1>1, <1>5, <2>8, <2>9, <2>10, <2>11
<1>. QED BY <1>3, <1>4, <1>5

\* A free block is no stream's, and empty.
LEMMA FreeBlocks ==
    ASSUME FileForm, OwnInv, NEW b \in Free
    PROVE  b \in Blocks /\ b # NoBlock /\ ~Held(b) /\ file.frames[b] = <<>>
<1>1. b \in Blocks /\ b # NoBlock /\ b \notin InUse
  BY FileParts DEF Free
<1>2. ~Held(b)
  <2>. SUFFICES ASSUME NEW s \in Streams,
                       \/ file.current[s] = b
                       \/ \E i \in DOMAIN file.chain[s] : file.chain[s][i] = b
                PROVE  FALSE
    BY DEF Held
  <2>1. CASE file.current[s] = b
    <3>1. \A t \in Streams : file.current[t] # NoBlock => file.current[t] \in InUse
      BY DEF InUse
    <3>. QED BY <1>1, <2>1, <3>1
  <2>2. CASE \E i \in DOMAIN file.chain[s] : file.chain[s][i] = b
    <3>1. b \in ToSet(file.chain[s])
      BY <2>2 DEF ToSet
    <3>. QED BY <1>1, <3>1 DEF InUse
  <2>. QED BY <2>1, <2>2
<1>. QED BY <1>1, <1>2 DEF OwnInv

LEMMA TakeKeepsFile ==
    ASSUME FileInv, NEW s \in Streams, TakeFreeBlock(s)
    PROVE  FileInv'
<1>. DEFINE b == Min(Free)
<1>1. /\ Free # {} /\ file.current[s] = NoBlock
      /\ file' = [file EXCEPT !.current[s] = b]
      /\ call' = call /\ gone' = gone
  BY DEF TakeFreeBlock, Needy
<1>2. FileForm /\ OwnInv /\ FillInv /\ FlushInv
  BY DEF FileInv
<1>3. b \in Free
  <2>1. Free \in SUBSET Nat
    BY <1>2, FileParts DEF Free
  <2>2. PICK m \in Free : \A k \in Free : m <= k
    BY <1>1, <2>1, LeastNumber
  <2>. QED BY <2>2, Zenon DEF Min
<1>. HIDE DEF b
<1>4. b \in Blocks /\ b # NoBlock /\ ~Held(b) /\ file.frames[b] = <<>>
  BY <1>2, <1>3, FreeBlocks
<1>5. /\ file \in Files(Blocks)
      /\ file.current \in [Streams -> Blocks \cup {NoBlock}]
  BY <1>2, FileParts DEF FileForm
<1>6. /\ file'.size = file.size /\ file'.frames = file.frames /\ file'.chain = file.chain
      /\ file'.flushed = file.flushed
      /\ file'.current = [file.current EXCEPT ![s] = b]
      /\ file' \in Files(Blocks)
  <2>1. /\ file'.size = file.size /\ file'.frames = file.frames /\ file'.chain = file.chain
        /\ file'.flushed = file.flushed
        /\ file'.current = [file.current EXCEPT ![s] = b]
    BY <1>1, <1>5 DEF Files
  <2>2. file'.current \in [Streams -> Blocks \cup {NoBlock}]
    BY <1>4, <1>5, <2>1
  <2>. QED BY <1>1, <1>5, <2>1, <2>2 DEF Files
<1>7. /\ file'.current[s] = b
      /\ \A t \in Streams : t # s => file'.current[t] = file.current[t]
  BY <1>5, <1>6
<1>8. Blocks' = Blocks /\ PerBlock' = PerBlock
  BY <1>6 DEF Blocks, PerBlock
<1>9. FileForm'
  BY <1>1, <1>2, <1>6, <1>8 DEF FileForm
<1>10. OwnInv'
  <2>1. \A t \in Streams : file.current[t] # b
    BY <1>4 DEF Held
  <2>2. \A t \in Streams : \A i \in DOMAIN file.chain[t] : file.chain[t][i] # b
    BY <1>4 DEF Held
  <2>3. \A t, u \in Streams : \A i \in DOMAIN file'.chain[t] :
          file'.chain[t][i] # file'.current[u]
    BY <1>2, <1>6, <1>7, <2>2 DEF OwnInv
  <2>4. \A t, u \in Streams :
          file'.current[t] = file'.current[u] /\ file'.current[t] # NoBlock => t = u
    BY <1>2, <1>7, <2>1 DEF OwnInv
  <2>5. ASSUME NEW x \in Blocks, file.frames[x] # <<>> PROVE Held(x)'
    <3>1. PICK t \in Streams : \/ file.current[t] = x
                               \/ \E i \in DOMAIN file.chain[t] : file.chain[t][i] = x
      BY <1>2, <2>5 DEF OwnInv, Held
    <3>2. file.current[t] = x => t # s
      BY <1>1, <1>2, FileParts
    <3>. QED BY <1>6, <1>7, <3>1, <3>2 DEF Held
  <2>. QED BY <1>2, <1>6, <1>8, <2>3, <2>4, <2>5 DEF OwnInv
<1>11. FillInv'
  <2>1. ASSUME NEW t \in Streams, file'.current[t] # NoBlock
        PROVE  /\ file'.frames[file'.current[t]]
                    = Run(Before(Len(gone'[t]), Len(file'.chain[t]) + 1, PerBlock'),
                          Len(file'.frames[file'.current[t]]))
               /\ Len(file'.frames[file'.current[t]]) <= PerBlock'
    <3>1. CASE t = s
      <4>1. file'.frames[file'.current[t]] = <<>>
        BY <1>4, <1>6, <1>7, <3>1
      <4>2. \A base : Run(base, 0) = <<>>
        BY DEF Run
      <4>3. Len(<<>>) = 0 /\ PerBlock \in Nat
        BY <1>2, <1>4, FileParts
      <4>. QED BY <1>8, <4>1, <4>2, <4>3
    <3>2. CASE t # s
      BY <1>1, <1>2, <1>6, <1>7, <1>8, <2>1, <3>2 DEF FillInv
    <3>. QED BY <3>1, <3>2
  <2>2. \A t \in Streams : gone'[t] = Run(0, Len(gone'[t]))
    BY <1>1, <1>2 DEF FillInv
  <2>3. \A t \in Streams : \A i \in DOMAIN file'.chain[t] :
          file'.frames[file'.chain[t][i]] = Run(Before(Len(gone'[t]), i, PerBlock'), PerBlock')
    BY <1>1, <1>2, <1>6, <1>8 DEF FillInv
  <2>. QED BY <2>1, <2>2, <2>3 DEF FillInv
<1>12. FlushInv'
  <2>1. call[s] # "finalize"
    BY DEF TakeFreeBlock, Needy
  <2>. QED BY <1>1, <1>2, <1>6, <1>7, <1>8, <2>1 DEF FlushInv
<1>. QED BY <1>9, <1>10, <1>11, <1>12 DEF FileInv

\* The frame is the next one of its stream.
LEMMA AppendKeepsFile ==
    ASSUME FileInv, NEW s \in Streams, AppendFrame(s), call \in [Streams -> CallPlaces]
    PROVE  FileInv'
<1>. DEFINE b == file.current[s]
            held == file.frames[b]
            new == Append(held, Written(s) + 1)
            base == Before(Len(gone[s]), Len(file.chain[s]) + 1, PerBlock)
<1>1. /\ call[s] = "write" /\ b # NoBlock /\ Len(held) # PerBlock
      /\ file' = [file EXCEPT !.frames[b] = new]
      /\ call' = [call EXCEPT ![s] = "idle"] /\ gone' = gone
  BY DEF AppendFrame, Full, Goto, PerBlock
<1>2. FileForm /\ OwnInv /\ FillInv /\ FlushInv
  BY DEF FileInv
<1>3. /\ file \in Files(Blocks) /\ file.frames \in [Blocks -> Seq(Nat)] /\ b \in Blocks
      /\ held \in Seq(Nat) /\ Len(held) \in Nat /\ PerBlock \in Nat
  BY <1>1, <1>2, FileParts DEF FileForm
<1>4. /\ base \in Nat /\ Written(s) + 1 = base + Len(held) + 1 /\ Written(s) + 1 \in Nat
      /\ held = Run(base, Len(held)) /\ Len(held) <= PerBlock
  <2>1. /\ Kept(s) \in Nat /\ Len(gone[s]) \in Nat
        /\ Written(s) = Len(gone[s]) + Kept(s)
        /\ Len(file.chain[s]) * PerBlock \in Nat
        /\ base = Len(gone[s]) + Len(file.chain[s]) * PerBlock
    BY <1>1, <1>2, ContentIsARun
  <2>2. Kept(s) = Len(file.chain[s]) * PerBlock + Len(held)
    BY <1>1 DEF Kept
  <2>3. held = Run(base, Len(held)) /\ Len(held) <= PerBlock
    BY <1>1, <1>2 DEF FillInv
  <2>. HIDE DEF base, held
  <2>4. \A x, y, z \in Nat : x + y \in Nat /\ x + (y + z) = x + y + z
    OBVIOUS
  <2>5. base \in Nat /\ Written(s) = base + Len(held)
    <3>. DEFINE k == Len(file.chain[s]) * PerBlock
                l == Len(gone[s])
                h == Len(held)
    <3>1. k \in Nat /\ l \in Nat /\ h \in Nat
      BY <1>3, <2>1
    <3>2. base = l + k /\ Written(s) = l + (k + h)
      BY <2>1, <2>2
    <3>. HIDE DEF k, l, h
    <3>3. base \in Nat /\ Written(s) = base + h
      BY <2>4, <3>1, <3>2
    <3>. QED BY <3>3 DEF h
  <2>. QED BY <1>3, <2>3, <2>5
<1>5. /\ new = Run(base, Len(held) + 1) /\ new \in Seq(Nat) /\ Len(new) = Len(held) + 1
      /\ Len(new) <= PerBlock
  <2>1. new = Append(Run(base, Len(held)), base + Len(held) + 1)
    BY <1>4
  <2>. HIDE DEF base, held, new
  <2>2. new = Run(base, Len(held) + 1)
    BY <1>3, <1>4, <2>1, Runs
  <2>3. Len(held) + 1 \in Nat /\ Len(held) + 1 <= PerBlock
    BY <1>1, <1>3, <1>4
  <2>. QED BY <1>4, <2>2, <2>3, Runs
<1>. HIDE DEF b, held, new, base
<1>6. /\ file'.size = file.size /\ file'.chain = file.chain /\ file'.current = file.current
      /\ file'.flushed = file.flushed /\ file'.frames = [file.frames EXCEPT ![b] = new]
  BY <1>1, <1>3 DEF Files
<1>7. /\ file'.frames \in [Blocks -> Seq(Nat)]
      /\ file'.frames[b] = new
      /\ \A x \in Blocks : x # b => file'.frames[x] = file.frames[x]
  BY <1>3, <1>5, <1>6
<1>8. Blocks' = Blocks /\ PerBlock' = PerBlock
  BY <1>6, <1>7, <1>3 DEF Blocks, PerBlock
<1>9. FileForm'
  <2>1. file' \in Files(Blocks)
    BY <1>1, <1>3, <1>6, <1>7 DEF Files
  <2>. QED BY <1>1, <1>2, <1>6, <1>8, <2>1 DEF FileForm
<1>10. OwnInv'
  <2>1. \A x : Held(x)' <=> Held(x)
    BY <1>6 DEF Held
  <2>2. Held(b)
    BY DEF Held, b
  <2>3. \A x \in Blocks : file'.frames[x] # <<>> => Held(x)
    BY <1>2, <1>7, <2>2 DEF OwnInv
  <2>. QED BY <1>2, <1>6, <1>8, <2>1, <2>3 DEF OwnInv
<1>11. FillInv'
  <2>1. ASSUME NEW t \in Streams, NEW i \in DOMAIN file'.chain[t]
        PROVE  file'.frames[file'.chain[t][i]] = Run(Before(Len(gone'[t]), i, PerBlock'), PerBlock')
    <3>1. file.chain[t][i] # b /\ file.chain[t][i] \in Blocks
      BY <1>2, <1>6, FileParts DEF OwnInv, b
    <3>. QED BY <1>1, <1>2, <1>6, <1>7, <1>8, <3>1 DEF FillInv
  <2>2. ASSUME NEW t \in Streams, file'.current[t] # NoBlock
        PROVE  /\ file'.frames[file'.current[t]]
                    = Run(Before(Len(gone'[t]), Len(file'.chain[t]) + 1, PerBlock'),
                          Len(file'.frames[file'.current[t]]))
               /\ Len(file'.frames[file'.current[t]]) <= PerBlock'
    <3>1. CASE t = s
      <4>1. file'.frames[file'.current[t]] = new
        BY <1>6, <1>7, <3>1 DEF b
      <4>2. Before(Len(gone'[t]), Len(file'.chain[t]) + 1, PerBlock') = base
        BY <1>1, <1>6, <1>8, <3>1 DEF base
      <4>. QED BY <1>5, <1>8, <4>1, <4>2
    <3>2. CASE t # s
      <4>1. file.current[t] # b /\ file.current[t] \in Blocks
        BY <1>1, <1>2, <1>6, <2>2, <3>2, FileParts DEF OwnInv, b
      <4>. QED BY <1>1, <1>2, <1>6, <1>7, <1>8, <2>2, <4>1 DEF FillInv
    <3>. QED BY <3>1, <3>2
  <2>3. \A t \in Streams : gone'[t] = Run(0, Len(gone'[t]))
    BY <1>1, <1>2 DEF FillInv
  <2>. QED BY <2>1, <2>2, <2>3 DEF FillInv
<1>12. FlushInv'
  <2>1. call'[s] # "finalize" /\ \A t \in Streams : t # s => call'[t] = call[t]
    BY <1>1
  <2>2. ASSUME NEW t \in Streams, call'[t] = "finalize"
        PROVE  /\ file'.current[t] # NoBlock /\ file'.current[t] \in file'.flushed
               /\ Len(file'.frames[file'.current[t]]) = PerBlock'
    <3>1. t # s /\ call[t] = "finalize"
      BY <2>1, <2>2
    <3>2. /\ file.current[t] # NoBlock /\ file.current[t] \in file.flushed
          /\ Len(file.frames[file.current[t]]) = PerBlock
      BY <1>2, <3>1 DEF FlushInv
    <3>3. file.current[t] # b /\ file.current[t] \in Blocks
      BY <1>1, <1>2, <3>1, <3>2, FileParts DEF OwnInv, b
    <3>. QED BY <1>6, <1>7, <1>8, <3>2, <3>3
  <2>3. \A t \in Streams : \A i \in DOMAIN file'.chain[t] : file'.chain[t][i] \in file'.flushed
    BY <1>2, <1>6 DEF FlushInv
  <2>. QED BY <2>2, <2>3 DEF FlushInv
<1>. QED BY <1>9, <1>10, <1>11, <1>12 DEF FileInv

\* A sequence without its first element.
LEMMA FirstRemoved ==
    ASSUME NEW S, NEW q \in Seq(S), q # <<>>
    PROVE  /\ RemoveAt(q, 1) \in Seq(S) /\ Len(RemoveAt(q, 1)) = Len(q) - 1
           /\ Len(q) \in Nat \ {0}
           /\ DOMAIN RemoveAt(q, 1) = 1 .. Len(q) - 1
           /\ \A i \in 1 .. Len(q) - 1 : RemoveAt(q, 1)[i] = q[i + 1]
<1>1. Len(q) \in Nat \ {0}
  BY EmptySeq
<1>2. SubSeq(q, 1, 1 - 1) = <<>>
  BY SubSeqEmpty
<1>3. /\ Tail(q) \in Seq(S) /\ Len(Tail(q)) = Len(q) - 1
      /\ \A i \in 1 .. Len(Tail(q)) : Tail(q)[i] = q[i + 1]
      /\ Tail(q) = SubSeq(q, 2, Len(q))
  BY HeadTailProperties, TailIsSubSeq
<1>4. RemoveAt(q, 1) = Tail(q)
  <2>1. RemoveAt(q, 1) = SubSeq(q, 1, 1 - 1) \o SubSeq(q, 1 + 1, Len(q))
    BY Zenon DEF RemoveAt
  <2>2. SubSeq(q, 1 + 1, Len(q)) = Tail(q)
    BY <1>3
  <2>. QED BY <1>2, <1>3, <2>1, <2>2, ConcatEmptySeq
<1>5. DOMAIN Tail(q) = 1 .. Len(q) - 1
  BY <1>3, LenProperties
<1>. QED BY <1>1, <1>3, <1>4, <1>5

\* The oldest finalized block of a stream goes to stream s.
LEMMA RecycleKeepsFile ==
    ASSUME FileInv, NEW s \in Streams, RecycleBlock(s)
    PROVE  FileInv'
<1>1. PICK from \in Streams : file.chain[from] # <<>> /\ Recycle(s, from, 1)
  BY DEF RecycleBlock
<1>. DEFINE old == file.chain[from]
            new == RemoveAt(old, 1)
            b == old[1]
            n == Len(old)
            lost == Len(gone[from])
<1>2. /\ call[s] = "write" /\ file.current[s] = NoBlock /\ call' = call
      /\ file' = [file EXCEPT !.chain[from] = new, !.current[s] = b, !.frames[b] = <<>>,
                              !.flushed = @ \ {b}]
      /\ gone' = [gone EXCEPT ![from] = @ \o file.frames[b]]
  BY <1>1 DEF Recycle, RecycleBlock, Needy
<1>3. FileForm /\ OwnInv /\ FillInv /\ FlushInv
  BY DEF FileInv
<1>4. /\ n \in Nat \ {0} /\ DOMAIN old = 1 .. n /\ 1 \in DOMAIN old
      /\ new \in Seq(Blocks) /\ Len(new) = n - 1 /\ DOMAIN new = 1 .. n - 1
      /\ \A i \in DOMAIN new : i \in Nat /\ i + 1 \in DOMAIN old /\ new[i] = old[i + 1]
                               /\ i + 1 # 1
  <2>1. old \in Seq(Blocks) /\ old # <<>> /\ DOMAIN old = 1 .. n
    BY <1>1, <1>3, FileParts
  <2>2. /\ new \in Seq(Blocks) /\ Len(new) = n - 1 /\ n \in Nat \ {0}
        /\ DOMAIN new = 1 .. n - 1 /\ \A i \in 1 .. n - 1 : new[i] = old[i + 1]
    BY <2>1, FirstRemoved
  <2>. HIDE DEF new, old, n
  <2>3. 1 \in 1 .. n /\ \A i \in 1 .. n - 1 : i + 1 \in 1 .. n /\ i \in Nat /\ i + 1 # 1
    BY <2>2
  <2>. QED BY <2>1, <2>2, <2>3
<1>5. /\ file \in Files(Blocks) /\ b \in Blocks /\ b # NoBlock
      /\ file.chain \in [Streams -> Seq(Blocks)]
      /\ file.current \in [Streams -> Blocks \cup {NoBlock}]
      /\ file.frames \in [Blocks -> Seq(Nat)] /\ file.flushed \in SUBSET Blocks
      /\ gone \in [Streams -> Seq(Nat)] /\ PerBlock \in Nat
      /\ lost \in Nat /\ gone[from] \in Seq(Nat)
  BY <1>3, <1>4, FileParts DEF FileForm
<1>6. /\ file'.size = file.size
      /\ file'.chain = [file.chain EXCEPT ![from] = new]
      /\ file'.current = [file.current EXCEPT ![s] = b]
      /\ file'.frames = [file.frames EXCEPT ![b] = <<>>]
      /\ file'.flushed = file.flushed \ {b}
  BY <1>2, <1>5 DEF Files
<1>. HIDE DEF new, b
<1>7. /\ file'.chain[from] = new /\ file'.current[s] = b /\ file'.frames[b] = <<>>
      /\ \A t \in Streams : /\ t # from => file'.chain[t] = file.chain[t]
                            /\ t # s => file'.current[t] = file.current[t]
      /\ \A x \in Blocks : x # b => file'.frames[x] = file.frames[x]
  BY <1>5, <1>6
<1>8. Blocks' = Blocks /\ PerBlock' = PerBlock
  BY <1>5, <1>6 DEF Blocks, PerBlock
<1>9. /\ gone'[from] = Run(0, lost + PerBlock) /\ Len(gone'[from]) = lost + PerBlock
      /\ gone'[from] \in Seq(Nat) /\ \A t \in Streams : t # from => gone'[t] = gone[t]
  <2>1. gone[from] = Run(0, lost)
    BY <1>3 DEF FillInv
  <2>2. file.frames[b] = Run(Before(lost, 1, PerBlock), PerBlock)
    BY <1>3, <1>4 DEF FillInv, b
  <2>. HIDE DEF lost
  <2>3. Before(lost, 1, PerBlock) = 0 + lost
    BY <1>5 DEF Before
  <2>4. Run(0, lost) \o Run(0 + lost, PerBlock) = Run(0, lost + PerBlock)
    BY <1>5, Runs
  <2>5. gone'[from] = Run(0, lost + PerBlock)
    BY <1>2, <1>5, <2>1, <2>2, <2>3, <2>4
  <2>6. lost + PerBlock \in Nat
    BY <1>5
  <2>7. Run(0, lost + PerBlock) \in Seq(Nat) /\ Len(Run(0, lost + PerBlock)) = lost + PerBlock
    BY <2>6, Runs
  <2>. QED BY <1>2, <1>5, <2>5, <2>7
<1>10. FileForm'
  <2>1. file'.chain \in [Streams -> Seq(Blocks)]
    BY <1>4, <1>5, <1>6
  <2>2. file'.current \in [Streams -> Blocks \cup {NoBlock}]
    BY <1>5, <1>6
  <2>3. file'.frames \in [Blocks -> Seq(Nat)]
    <3>1. <<>> \in Seq(Nat)
      OBVIOUS
    <3>. QED BY <1>5, <1>6, <3>1
  <2>4. file'.flushed \in SUBSET Blocks
    BY <1>5, <1>6
  <2>5. file' \in Files(Blocks)
    BY <1>2, <1>5, <1>6, <2>1, <2>2, <2>3, <2>4 DEF Files
  <2>6. gone' \in [Streams -> Seq(Nat)]
    BY <1>2, <1>5, <1>9
  <2>. QED BY <1>3, <1>6, <1>8, <2>5, <2>6 DEF FileForm
\* Where a block of a chain was before.
<1>11. ASSUME NEW t \in Streams, NEW i \in DOMAIN file'.chain[t]
       PROVE  LET j == IF t = from THEN i + 1 ELSE i
              IN  /\ j \in DOMAIN file.chain[t] /\ file'.chain[t][i] = file.chain[t][j]
                  /\ file'.chain[t][i] # b /\ file'.chain[t][i] \in Blocks
  <2>1. CASE t = from
    <3>1. i + 1 \in DOMAIN old /\ new[i] = old[i + 1] /\ i + 1 # 1
      BY <1>4, <1>7, <2>1
    <3>2. old[i + 1] # old[1]
      BY <1>3, <1>4, <3>1 DEF OwnInv
    <3>3. old[i + 1] \in Blocks
      BY <1>3, <3>1, FileParts
    <3>. QED BY <1>7, <2>1, <3>1, <3>2, <3>3 DEF b
  <2>2. CASE t # from
    <3>1. i \in DOMAIN file.chain[t] /\ file'.chain[t][i] = file.chain[t][i]
      BY <1>7, <2>2
    <3>2. file.chain[t][i] # old[1]
      BY <1>3, <1>4, <2>2, <3>1 DEF OwnInv
    <3>3. file.chain[t][i] \in Blocks
      BY <1>3, <3>1, FileParts
    <3>. QED BY <2>2, <3>1, <3>2, <3>3 DEF b
  <2>. QED BY <2>1, <2>2
<1>12. \A t \in Streams : file.current[t] # b
  BY <1>3, <1>4 DEF OwnInv, b
<1>13. OwnInv'
  <2>1. ASSUME NEW t \in Streams, NEW u \in Streams, NEW i \in DOMAIN file'.chain[t],
               NEW j \in DOMAIN file'.chain[u], file'.chain[t][i] = file'.chain[u][j]
        PROVE  t = u /\ i = j
    <3>. DEFINE k == IF t = from THEN i + 1 ELSE i
                l == IF u = from THEN j + 1 ELSE j
    <3>1. k \in DOMAIN file.chain[t] /\ file'.chain[t][i] = file.chain[t][k]
      BY <1>11
    <3>2. l \in DOMAIN file.chain[u] /\ file'.chain[u][j] = file.chain[u][l]
      BY <1>11
    <3>3. t = u /\ k = l
      <4>1. \A p \in DOMAIN file.chain[t], q \in DOMAIN file.chain[u] :
              file.chain[t][p] = file.chain[u][q] => t = u /\ p = q
        BY <1>3 DEF OwnInv
      <4>2. file.chain[t][k] = file.chain[u][l]
        BY <2>1, <3>1, <3>2
      <4>. HIDE DEF k, l
      <4>. QED BY <3>1, <3>2, <4>1, <4>2
    <3>4. t = from => i \in Nat /\ j \in Nat
      BY <1>4, <1>7, <3>3
    <3>. QED BY <3>3, <3>4
  <2>2. ASSUME NEW t \in Streams, NEW u \in Streams, NEW i \in DOMAIN file'.chain[t]
        PROVE  file'.chain[t][i] # file'.current[u]
    <3>1. CASE u = s
      BY <1>7, <1>11, <3>1
    <3>2. CASE u # s
      <4>1. PICK j \in DOMAIN file.chain[t] : file'.chain[t][i] = file.chain[t][j]
        BY <1>11
      <4>. QED BY <1>3, <1>7, <3>2, <4>1 DEF OwnInv
    <3>. QED BY <3>1, <3>2
  <2>3. \A t, u \in Streams :
          file'.current[t] = file'.current[u] /\ file'.current[t] # NoBlock => t = u
    BY <1>3, <1>7, <1>12 DEF OwnInv
  <2>4. ASSUME NEW x \in Blocks, file'.frames[x] # <<>> PROVE Held(x)'
    <3>1. x # b /\ file.frames[x] # <<>>
      BY <1>7, <2>4
    <3>2. PICK t \in Streams : \/ file.current[t] = x
                               \/ \E i \in DOMAIN file.chain[t] : file.chain[t][i] = x
      BY <1>3, <3>1 DEF OwnInv, Held
    <3>3. CASE file.current[t] = x
      <4>1. x # NoBlock
        BY <1>3, FileParts
      <4>2. t # s
        BY <1>2, <3>3, <4>1
      <4>. QED BY <1>7, <3>3, <4>2 DEF Held
    <3>4. CASE \E i \in DOMAIN file.chain[t] : file.chain[t][i] = x
      <4>1. PICK i \in DOMAIN file.chain[t] : file.chain[t][i] = x
        BY <3>4
      <4>2. CASE t # from
        BY <1>7, <4>1, <4>2 DEF Held
      <4>3. CASE t = from
        <5>1. i # 1 /\ i \in 1 .. n
          <6>1. old[i] = x /\ i \in DOMAIN old
            BY <4>1, <4>3
          <6>2. old[1] # x
            BY <3>1 DEF b
          <6>. HIDE DEF old
          <6>. QED BY <1>4, <6>1, <6>2
        <5>2. i - 1 \in 1 .. n - 1 /\ (i - 1) + 1 = i
          <6>. HIDE DEF n
          <6>. QED BY <1>4, <5>1
        <5>3. i - 1 \in DOMAIN new /\ new[i - 1] = x
          <6>. HIDE DEF n
          <6>. QED BY <1>4, <4>1, <4>3, <5>2
        <5>. QED BY <1>7, <4>3, <5>3 DEF Held
      <4>. QED BY <4>2, <4>3
    <3>. QED BY <3>2, <3>3, <3>4
  <2>. QED BY <1>8, <2>1, <2>2, <2>3, <2>4 DEF OwnInv
<1>14. \A i \in Nat : Before(lost + PerBlock, i, PerBlock) = Before(lost, i + 1, PerBlock)
  <2>. HIDE DEF lost
  <2>1. \A i \in Nat : i * PerBlock = (i - 1) * PerBlock + PerBlock
    <3>. TAKE i \in Nat
    <3>. QED BY <1>5
  <2>2. \A i \in Nat : (i - 1) * PerBlock \in Int /\ (i + 1 - 1) = i
    BY <1>5
  <2>. QED BY <1>5, <2>1, <2>2 DEF Before
<1>15. FillInv'
  <2>1. ASSUME NEW t \in Streams, NEW i \in DOMAIN file'.chain[t]
        PROVE  file'.frames[file'.chain[t][i]] = Run(Before(Len(gone'[t]), i, PerBlock'), PerBlock')
    <3>1. CASE t = from
      <4>1. /\ i + 1 \in DOMAIN file.chain[t] /\ file'.chain[t][i] = file.chain[t][i + 1]
            /\ file'.frames[file'.chain[t][i]] = file.frames[file.chain[t][i + 1]]
        BY <1>7, <1>11, <3>1
      <4>2. i \in Nat
        BY <1>4, <1>7, <3>1
      <4>3. file.frames[file.chain[t][i + 1]] = Run(Before(lost, i + 1, PerBlock), PerBlock)
        BY <1>3, <3>1, <4>1 DEF FillInv
      <4>. QED BY <1>8, <1>9, <1>14, <3>1, <4>1, <4>2, <4>3
    <3>2. CASE t # from
      <4>1. /\ i \in DOMAIN file.chain[t] /\ file'.chain[t][i] = file.chain[t][i]
            /\ file'.frames[file'.chain[t][i]] = file.frames[file.chain[t][i]]
        BY <1>7, <1>11, <3>2
      <4>. QED BY <1>3, <1>8, <1>9, <3>2, <4>1 DEF FillInv
    <3>. QED BY <3>1, <3>2
  <2>2. ASSUME NEW t \in Streams, file'.current[t] # NoBlock
        PROVE  /\ file'.frames[file'.current[t]]
                    = Run(Before(Len(gone'[t]), Len(file'.chain[t]) + 1, PerBlock'),
                          Len(file'.frames[file'.current[t]]))
               /\ Len(file'.frames[file'.current[t]]) <= PerBlock'
    <3>1. CASE t = s
      <4>1. file'.frames[file'.current[t]] = <<>>
        BY <1>7, <3>1
      <4>2. \A base : Run(base, 0) = <<>>
        BY DEF Run
      <4>. QED BY <1>5, <1>8, <4>1, <4>2
    <3>2. CASE t # s
      <4>1. file'.current[t] = file.current[t] /\ file.current[t] \in Blocks
            /\ file'.frames[file'.current[t]] = file.frames[file.current[t]]
        BY <1>3, <1>7, <1>12, <2>2, <3>2, FileParts
      <4>2. /\ file.frames[file.current[t]]
                 = Run(Before(Len(gone[t]), Len(file.chain[t]) + 1, PerBlock),
                       Len(file.frames[file.current[t]]))
            /\ Len(file.frames[file.current[t]]) <= PerBlock
        BY <1>3, <2>2, <4>1 DEF FillInv
      <4>3. Before(Len(gone'[t]), Len(file'.chain[t]) + 1, PerBlock)
              = Before(Len(gone[t]), Len(file.chain[t]) + 1, PerBlock)
        <5>1. CASE t = from
          <6>1. Len(file'.chain[t]) + 1 = n /\ n \in Nat /\ Len(file.chain[t]) = n
            BY <1>4, <1>7, <5>1
          <6>. HIDE DEF n
          <6>. QED BY <1>9, <1>14, <5>1, <6>1
        <5>2. CASE t # from
          BY <1>7, <1>9, <5>2
        <5>. QED BY <5>1, <5>2
      <4>. QED BY <1>8, <4>1, <4>2, <4>3
    <3>. QED BY <3>1, <3>2
  <2>3. \A t \in Streams : gone'[t] = Run(0, Len(gone'[t]))
    BY <1>3, <1>9 DEF FillInv
  <2>. QED BY <2>1, <2>2, <2>3 DEF FillInv
<1>16. FlushInv'
  <2>1. ASSUME NEW t \in Streams, NEW i \in DOMAIN file'.chain[t]
        PROVE  file'.chain[t][i] \in file'.flushed
    <3>1. /\ \E j \in DOMAIN file.chain[t] : file'.chain[t][i] = file.chain[t][j]
          /\ file'.chain[t][i] # b
      BY <1>11
    <3>. QED BY <1>3, <1>6, <3>1 DEF FlushInv
  <2>2. ASSUME NEW t \in Streams, call'[t] = "finalize"
        PROVE  /\ file'.current[t] # NoBlock /\ file'.current[t] \in file'.flushed
               /\ Len(file'.frames[file'.current[t]]) = PerBlock'
    <3>1. t # s /\ call[t] = "finalize"
      BY <1>2, <2>2
    <3>2. /\ file.current[t] # NoBlock /\ file.current[t] \in file.flushed
          /\ Len(file.frames[file.current[t]]) = PerBlock
      BY <1>3, <3>1 DEF FlushInv
    <3>3. file.current[t] # b /\ file.current[t] \in Blocks
      BY <1>3, <1>12, <3>2, FileParts
    <3>. QED BY <1>6, <1>7, <1>8, <3>1, <3>2, <3>3
  <2>. QED BY <2>1, <2>2 DEF FlushInv
<1>. QED BY <1>10, <1>13, <1>15, <1>16 DEF FileInv

\* The machine dies: of each stream some first part of the block that it was filling is
\* lost, and no more.
LEMMA PowerLossKeepsFile ==
    ASSUME FileInv, PowerLoss
    PROVE  /\ FileInv' /\ file'.size = file.size /\ gone' = gone
           /\ \A s \in Streams :
                \/ Kept(s)' = Kept(s)
                \/ /\ Blocks # {} /\ PerBlock \in Nat
                   /\ Kept(s)' \in Nat /\ Kept(s) - Kept(s)' <= PerBlock
<1>. DEFINE torn == InUse \ file.flushed
<1>1. FileForm /\ OwnInv /\ FillInv /\ FlushInv
  BY DEF FileInv
<1>2. PICK kept \in [torn -> 0 .. PerBlock] :
        /\ \A b \in torn : kept[b] <= Len(file.frames[b])
        /\ file' = [file EXCEPT !.frames = [b \in Blocks |->
             IF b \in torn THEN SubSeq(file.frames[b], 1, kept[b]) ELSE file.frames[b]]]
  <2>1. \E kept \in [InUse \ file.flushed -> 0 .. FramesPerBlock(file.size, FrameSize)] :
          /\ \A b \in InUse \ file.flushed : kept[b] <= Len(file.frames[b])
          /\ file' = [file EXCEPT !.frames = [b \in Blocks |->
               IF b \in InUse \ file.flushed THEN SubSeq(@[b], 1, kept[b]) ELSE @[b]]]
    BY DEF PowerLoss
  <2>. QED BY <2>1 DEF PerBlock, torn
<1>3. call' = [s \in Streams |-> "idle"] /\ gone' = gone
  BY DEF PowerLoss
<1>. HIDE DEF torn
<1>4. /\ file \in Files(Blocks) /\ file.chain \in [Streams -> Seq(Blocks)]
      /\ file.current \in [Streams -> Blocks \cup {NoBlock}] /\ NoBlock \notin Blocks
      /\ file.frames \in [Blocks -> Seq(Nat)]
      /\ \A b \in Blocks : file.frames[b] \in Seq(Nat) /\ Len(file.frames[b]) \in Nat
  BY <1>1, FileParts DEF FileForm
<1>5. \A b \in torn : b \in Blocks => kept[b] \in Nat /\ kept[b] \in 0 .. Len(file.frames[b])
  BY <1>2, <1>4
<1>6. /\ file'.size = file.size /\ file'.chain = file.chain /\ file'.current = file.current
      /\ file'.flushed = file.flushed /\ DOMAIN file'.frames = Blocks
      /\ \A b \in Blocks : /\ b \notin torn => file'.frames[b] = file.frames[b]
                           /\ b \in torn => file'.frames[b] = SubSeq(file.frames[b], 1, kept[b])
  BY <1>2, <1>4 DEF Files
<1>7. Blocks' = Blocks /\ PerBlock' = PerBlock /\ \A b : Held(b)' = Held(b)
  BY <1>6 DEF Blocks, PerBlock, Held
<1>8. ASSUME NEW b \in Blocks
      PROVE  /\ file'.frames[b] \in Seq(Nat)
             /\ Len(file'.frames[b]) \in 0 .. Len(file.frames[b])
             /\ \A j \in 1 .. Len(file'.frames[b]) : file'.frames[b][j] = file.frames[b][j]
  <2>1. CASE b \in torn
    <3>. DEFINE q == file.frames[b]
                k == kept[b]
    <3>1. q \in Seq(Nat) /\ Len(q) \in Nat /\ k \in 0 .. Len(q) /\ k \in Nat
      BY <1>4, <1>5, <2>1
    <3>. HIDE DEF q, k
    <3>2. /\ SubSeq(q, 1, k) \in Seq(Nat) /\ Len(SubSeq(q, 1, k)) = k
          /\ \A j \in 1 .. k : SubSeq(q, 1, k)[j] = q[j]
      BY <3>1
    <3>. QED BY <1>6, <2>1, <3>1, <3>2 DEF q, k
  <2>2. CASE b \notin torn
    BY <1>4, <1>6, <2>2
  <2>. QED BY <2>1, <2>2
\* A finalized block is whole.
<1>9. \A s \in Streams : \A i \in DOMAIN file.chain[s] :
        file'.frames[file.chain[s][i]] = file.frames[file.chain[s][i]]
  <2>. TAKE s \in Streams
  <2>. TAKE i \in DOMAIN file.chain[s]
  <2>1. file.chain[s][i] \in file.flushed /\ file.chain[s][i] \in Blocks
    BY <1>1, FileParts DEF FlushInv
  <2>. QED BY <1>6, <2>1 DEF torn
<1>10. FileForm'
  <2>1. file'.frames \in [Blocks -> Seq(Nat)]
    <3>1. file'.frames = [b \in Blocks |->
             IF b \in torn THEN SubSeq(file.frames[b], 1, kept[b]) ELSE file.frames[b]]
      BY <1>2, <1>4 DEF Files
    <3>2. \A b \in Blocks : file'.frames[b] \in Seq(Nat)
      BY <1>8
    <3>. QED BY <3>1, <3>2
  <2>2. file' \in Files(Blocks)
    BY <1>2, <1>4, <2>1 DEF Files
  <2>. QED BY <1>1, <1>3, <1>6, <1>7, <2>2 DEF FileForm
<1>11. OwnInv'
  <2>1. \A b \in Blocks : file'.frames[b] # <<>> => file.frames[b] # <<>>
    <3>. TAKE b \in Blocks
    <3>1. Len(file'.frames[b]) \in 0 .. Len(file.frames[b]) /\ file'.frames[b] \in Seq(Nat)
      BY <1>8
    <3>. QED BY <1>4, <3>1
  <2>. QED BY <1>1, <1>6, <1>7, <2>1 DEF OwnInv
<1>12. ASSUME NEW s \in Streams, file.current[s] # NoBlock
       PROVE  LET b == file.current[s]
                  base == Before(Len(gone[s]), Len(file.chain[s]) + 1, PerBlock)
              IN  /\ b \in Blocks /\ Len(file.frames[b]) \in Nat /\ PerBlock \in Nat
                  /\ Len(file'.frames[b]) \in 0 .. Len(file.frames[b])
                  /\ file'.frames[b] = Run(base, Len(file'.frames[b]))
                  /\ Len(file.frames[b]) <= PerBlock
  <2>. DEFINE b == file.current[s]
              base == Before(Len(gone[s]), Len(file.chain[s]) + 1, PerBlock)
              m == Len(file.frames[b])
              k == Len(file'.frames[b])
  <2>1. b \in Blocks /\ m \in Nat /\ PerBlock \in Nat
    BY <1>1, <1>12, FileParts
  <2>2. file.frames[b] = Run(base, m) /\ m <= PerBlock
    BY <1>1, <1>12 DEF FillInv
  <2>3. k \in 0 .. m /\ \A j \in 1 .. k : file'.frames[b][j] = file.frames[b][j]
    BY <1>8, <2>1
  <2>4. base \in Nat
    BY <1>1, <1>12, ContentIsARun
  <2>5. \A j \in 1 .. k : file'.frames[b][j] = base + j
    <3>. HIDE DEF base, k, m
    <3>1. \A j \in 1 .. k : j \in 1 .. m
      BY <2>1, <2>3
    <3>. QED BY <2>2, <2>3, <3>1 DEF Run
  <2>6. file'.frames[b] \in Seq(Nat)
    BY <1>8, <2>1
  <2>7. file'.frames[b] = Run(base, k)
    <3>. DEFINE q == file'.frames[b]
    <3>1. q \in Seq(Nat) /\ Len(q) = k /\ k \in Nat
      BY <2>1, <2>3, <2>6
    <3>2. \A j \in 1 .. k : q[j] = base + j
      BY <2>5
    <3>. HIDE DEF q, base, k
    <3>3. Run(base, k) \in Seq(Nat) /\ Len(Run(base, k)) = k
      BY <2>4, <3>1, Runs
    <3>4. \A j \in 1 .. k : q[j] = Run(base, k)[j]
      BY <3>2 DEF Run
    <3>5. q = Run(base, k)
      BY <3>1, <3>3, <3>4, SeqEqual
    <3>. QED BY <3>5 DEF q
  <2>. QED BY <2>1, <2>2, <2>3, <2>7
<1>13. FillInv'
  <2>1. \A s \in Streams : \A i \in DOMAIN file.chain[s] :
          file'.frames[file.chain[s][i]] = Run(Before(Len(gone[s]), i, PerBlock), PerBlock)
    BY <1>1, <1>9 DEF FillInv
  <2>2. ASSUME NEW s \in Streams, file.current[s] # NoBlock
        PROVE  /\ file'.frames[file.current[s]]
                    = Run(Before(Len(gone[s]), Len(file.chain[s]) + 1, PerBlock),
                          Len(file'.frames[file.current[s]]))
               /\ Len(file'.frames[file.current[s]]) <= PerBlock
    BY <1>12, <2>2
  <2>3. \A s \in Streams : gone[s] = Run(0, Len(gone[s]))
    BY <1>1 DEF FillInv
  <2>. QED BY <1>3, <1>6, <1>7, <2>1, <2>2, <2>3 DEF FillInv
<1>14. FlushInv'
  BY <1>1, <1>3, <1>6 DEF FlushInv
<1>15. ASSUME NEW s \in Streams
       PROVE  \/ Kept(s)' = Kept(s)
              \/ /\ Blocks # {} /\ PerBlock \in Nat
                 /\ Kept(s)' \in Nat /\ Kept(s) - Kept(s)' <= PerBlock
  <2>1. CASE file.current[s] = NoBlock
    BY <1>6, <1>7, <2>1 DEF Kept
  <2>2. CASE file.current[s] # NoBlock
    <3>. DEFINE p == Len(file.chain[s]) * PerBlock
                m == Len(file.frames[file.current[s]])
                k == Len(file'.frames[file.current[s]])
    <3>1. Kept(s) = p + m /\ Kept(s)' = p + k
      BY <1>6, <1>7, <2>2 DEF Kept
    <3>2. p \in Nat
      BY <1>1, <2>2, ContentIsARun
    <3>3. m \in Nat /\ k \in 0 .. m /\ m <= PerBlock /\ PerBlock \in Nat
      BY <1>12, <2>2
    <3>4. Blocks # {}
      BY <1>4, <2>2
    <3>. HIDE DEF p, m, k
    <3>. QED BY <3>1, <3>2, <3>3, <3>4
  <2>. QED BY <2>1, <2>2
<1>. QED BY <1>3, <1>6, <1>10, <1>11, <1>13, <1>14, <1>15 DEF FileInv

------------------------------------------------------------------------------
(* The file while the program runs *)

\* What has been set up is empty before the workload, the blocks are as large as the
\* command line asks, and only a command line that asks for it has blocks used again.
LifeInv ==
    /\ phase \in {"create", "setup"} =>
           /\ file = NoFile /\ \A s \in Streams : gone[s] = <<>>
           /\ sinceSync = 0 /\ covered = 0 /\ seeks = 0
    /\ writer = "reclaiming" => phase \in {"write", "seek", "threads", "teardown"}
                                /\ Command.reclaim
    /\ phase \notin {"clean", "off"} =>
           \A s \in Streams : gone[s] # <<>> => Command.reclaim
    /\ phase # "off" => file.size \in {0, BlockSize(LastCommand.durability)}

\* A call that goes on, of stream s.
WriteStep(s) ==
    /\ phase \in {"write", "threads"}
    /\ \/ FlushBlock(s) \/ FinalizeBlock(s) \/ TakeFreeBlock(s) \/ RecycleBlock(s)
       \/ AppendFrame(s)
    /\ UNCHANGED <<matrix, at, phase>>

\* What a step does to the file.
LEMMA FileSteps ==
    ASSUME FormInv, CallsInv, [Next]_vars
    PROVE  \/ Clean \/ SetUp
           \/ \E s \in Streams : WriteStep(s)
           \/ PowerLoss /\ phase # "off" /\ phase' = "off" /\ UNCHANGED <<matrix, at>>
           \/ /\ UNCHANGED <<file, gone>>
              /\ \A s \in Streams : call'[s] = "finalize" => call[s] = "finalize"
<1>1. Stream0 \in Streams /\ call \in [Streams -> CallPlaces]
  BY BenchAssumption DEF FormInv
<1>. DEFINE Still == /\ UNCHANGED <<file, gone>>
                     /\ \A s \in Streams : call'[s] = "finalize" => call[s] = "finalize"
<1>2. ASSUME NEW s \in Streams, \/ GetContext(s) \/ AppendFrame(s) \/ AdvanceWrite(s),
             phase \in {"write", "threads"}, UNCHANGED <<matrix, at, phase>>
      PROVE  WriteStep(s) \/ Still
  <2>1. CASE GetContext(s)
    BY <1>1, <2>1 DEF GetContext, Goto
  <2>2. CASE PoolExhausted(s)
    BY <1>1, <2>2 DEF PoolExhausted, Goto
  <2>. QED BY <1>2, <2>1, <2>2 DEF WriteStep, AdvanceWrite
<1>3. CASE ProgramRuns
  <2>1. CASE NextWrite \/ WriteReturns
    <3>1. /\ GetContext(Stream0) \/ AppendFrame(Stream0)
          /\ phase \in {"write", "threads"} /\ UNCHANGED <<matrix, at, phase>>
      BY <2>1 DEF NextWrite, WriteReturns
    <3>. QED BY <1>1, <1>2, <3>1
  <2>2. ASSUME NEW s \in Streams, ThreadStep(s) PROVE WriteStep(s) \/ Still
    <3>1. CASE ThreadWrites(s) \/ ThreadWriteReturns(s) \/ CallGoesOn(s)
      <4>1. /\ GetContext(s) \/ AppendFrame(s) \/ AdvanceWrite(s)
            /\ phase \in {"write", "threads"} /\ UNCHANGED <<matrix, at, phase>>
        BY <3>1 DEF ThreadWrites, ThreadWriteReturns, CallGoesOn
      <4>. QED BY <1>2, <4>1
    <3>2. CASE CallThrows(s)
      BY <1>1, <3>2 DEF CallThrows, Goto
    <3>. QED BY <2>2, <3>1, <3>2 DEF ThreadStep
  <2>3. CASE NextSeek \/ ReaderStep
    BY <2>3 DEF NextSeek, ReaderStep, ReaderFinds, ReaderAdvances, Advance
  <2>4. CASE SetUp
    BY <2>4
  <2>5. CASE \/ Create \/ SetUpFails \/ FinalSync \/ SeeksEnd \/ RunThrows \/ ThreadsEnd
             \/ WriteResult
    BY <2>5 DEF Create, SetUpFails, FinalSync, SeeksEnd, RunThrows, ThreadsEnd, WriteResult,
                nanots
  <2>6. CASE TearDown
    BY <2>6 DEF TearDown, Release
  <2>. QED BY <1>3, <2>1, <2>2, <2>3, <2>4, <2>5, <2>6, ProgramSteps DEF QuietStep
<1>4. CASE ProgramDies
  BY <1>4 DEF ProgramDies, Die, Release
<1>5. CASE Judge \/ Again \/ Over \/ UNCHANGED vars
  BY <1>5 DEF Judge, Again, Over, vars, nanots
<1>6. CASE Blackout
  BY <1>6 DEF Blackout, MachineDies
<1>. QED BY <1>3, <1>4, <1>5, <1>6 DEF Next

\* The size and the number of blocks are numbers.
LEMMA SizesAreNumbers ==
    ASSUME NEW durability \in Nat, NEW requested \in Nat, BlockSize(durability) >= MinBlockSize
    PROVE  /\ BlockSize(durability) \in Nat /\ BlockSize(durability) >= 16
           /\ BlockSize(durability) <= Max({MinBlockSize, durability})
           /\ Max({MinBlockSize, durability}) \in Nat \ {0}
           /\ BlocksFor(requested, ExpectedBytes(NumFrames, FrameSize), BlockSize(durability))
                \in Nat
<1>1. /\ {MinBlockSize, MinBlocks, DefaultBlocks, SafetyFactor} \subseteq Nat \ {0}
      /\ {SpareBlocks, Word32, Word64} \subseteq Nat /\ 16 <= MinBlockSize
      /\ Word32 # 0 /\ Word64 # 0
      /\ FrameSize \in Nat /\ NumFrames \in Nat
  BY SizingAssumption, BenchAssumption
<1>2. \A m \in Nat, w \in Nat \ {0} : m % w \in Nat /\ m % w <= m /\ m \div w \in Nat
  OBVIOUS
<1>3. \A m, n \in Nat : m * n \in Nat
  OBVIOUS
<1>. DEFINE top == Max({MinBlockSize, durability})
            size == BlockSize(durability)
            expected == ExpectedBytes(NumFrames, FrameSize)
<1>4. top \in Nat /\ top >= MinBlockSize
  BY <1>1, MaxOfTwo
<1>5. size = top % Word32
  BY DEF BlockSize
<1>. HIDE DEF top, size
<1>6. size \in Nat /\ size <= top /\ size >= MinBlockSize
  BY <1>1, <1>2, <1>4, <1>5 DEF size
<1>7. size \in Nat \ {0} /\ size >= 16 /\ top \in Nat \ {0}
  BY <1>1, <1>4, <1>6
<1>8. expected \in Nat
  <2>1. NumFrames * FrameSize * SafetyFactor \in Nat
    BY <1>1, <1>3
  <2>. QED BY <1>1, <1>2, <2>1 DEF ExpectedBytes
<1>9. BlocksFor(requested, expected, size) \in Nat
  <2>. HIDE DEF expected
  <2>. DEFINE bytes  == IF expected > 0 THEN expected ELSE size * DefaultBlocks
              needed == ((bytes + size - 1) % Word64) \div size + SpareBlocks
  <2>1. bytes \in Nat
    <3>1. size * DefaultBlocks \in Nat
      BY <1>1, <1>3, <1>7
    <3>. QED BY <1>8, <3>1
  <2>. HIDE DEF bytes
  <2>2. bytes + size - 1 \in Nat
    BY <1>7, <2>1
  <2>3. (bytes + size - 1) % Word64 \in Nat
    BY <1>1, <1>2, <2>2
  <2>4. ((bytes + size - 1) % Word64) \div size \in Nat
    BY <1>2, <1>7, <2>3
  <2>5. needed \in Nat
    BY <1>1, <2>4
  <2>. HIDE DEF needed
  <2>6. Max({MinBlocks, needed}) \in Nat
    BY <1>1, <2>5, MaxOfTwo
  <2>7. Max({MinBlocks, needed}) % Word32 \in Nat
    BY <1>1, <1>2, <2>6
  <2>8. BlocksFor(requested, expected, size)
          = IF requested # 0 THEN requested ELSE Max({MinBlocks, needed}) % Word32
    BY DEF BlocksFor, needed, bytes
  <2>. QED BY <2>7, <2>8
<1>. QED BY <1>6, <1>7, <1>9 DEF top, size, expected

LEMMA WriteStepKeepsFile ==
    ASSUME FileInv, FormInv, NEW s \in Streams, WriteStep(s)
    PROVE  FileInv'
<1>1. call \in [Streams -> CallPlaces]
  BY DEF FormInv
<1>. QED BY <1>1, FlushKeepsFile, FinalizeKeepsFile, TakeKeepsFile, RecycleKeepsFile,
            AppendKeepsFile DEF WriteStep

LEMMA FileGoesOn ==
    ASSUME FileInv, FormInv, CallsInv, LifeInv, [Next]_vars
    PROVE  FileInv'
<1>1. CASE Clean
  <2>1. /\ file' = Pristine(0, 0) /\ gone' = [s \in Streams |-> <<>>] /\ call' = call
        /\ \A s \in Streams : call[s] = "idle"
    BY <1>1 DEF Clean, NoFile, CallsInv
  <2>2. gone' \in [Streams -> Seq(Nat)] /\ \A s \in Streams : gone'[s] = <<>>
    BY <2>1
  <2>. QED BY <2>1, <2>2, EmptyFile
<1>2. CASE SetUp
  <2>. DEFINE size == BlockSize(Command.durability)
              n == BlocksFor(Command.blocks, ExpectedBytes(NumFrames, FrameSize), size)
  <2>1. /\ size >= MinBlockSize /\ file' = Pristine(size, n)
        /\ call' = call /\ gone' = gone /\ phase = "setup"
    BY <1>2 DEF SetUp, Setup, Accepts
  <2>2. Command.durability \in Nat /\ Command.blocks \in Nat
    BY MatrixIsAList
  <2>. HIDE DEF n
  <2>3. size \in Nat /\ n \in Nat /\ size >= 16
    BY <2>1, <2>2, SizesAreNumbers DEF n
  <2>. HIDE DEF size
  <2>4. gone \in [Streams -> Seq(Nat)] /\ \A s \in Streams : gone[s] = <<>> /\ call[s] = "idle"
    BY <2>1 DEF FileInv, FileForm, LifeInv, CallsInv
  <2>. QED BY <2>1, <2>3, <2>4, EmptyFile
<1>3. ASSUME NEW s \in Streams, WriteStep(s) PROVE FileInv'
  BY <1>3, WriteStepKeepsFile
<1>4. CASE PowerLoss
  BY <1>4, PowerLossKeepsFile
<1>5. CASE /\ UNCHANGED <<file, gone>>
           /\ \A s \in Streams : call'[s] = "finalize" => call[s] = "finalize"
  BY <1>5, FileKept
<1>. QED BY <1>1, <1>2, <1>3, <1>4, <1>5, FileSteps

\* Steps within a run: the command line stays, and what is held is given back at most.
LEMMA LifeKept ==
    ASSUME FormInv, LifeInv, UNCHANGED <<matrix, at, gone>>, phase # "clean",
           phase' \notin {"clean", "create", "setup"},
           phase # "off" => file'.size = file.size,
           phase = "off" => phase' = "off",
           \/ writer' = "none"
           \/ writer' = writer /\ phase' \in {phase, "write", "seek", "threads", "teardown"}
    PROVE  LifeInv'
<1>1. Command' = Command /\ LastCommand' = LastCommand
  BY DEF Command, LastCommand
<1>2. writer' = "reclaiming" => /\ phase' \in {"write", "seek", "threads", "teardown"}
                                /\ Command.reclaim
  BY DEF LifeInv
<1>3. phase' \notin {"clean", "off"} =>
         \A s \in Streams : gone[s] # <<>> => Command.reclaim
  BY DEF LifeInv
<1>4. phase' # "off" => file'.size \in {0, BlockSize(LastCommand.durability)}
  BY DEF LifeInv
<1>. QED BY <1>1, <1>2, <1>3, <1>4 DEF LifeInv

\* A call that goes on leaves the size of the blocks as it is, and what is gone too
\* unless blocks are to be used again.
LEMMA WriteStepIsModest ==
    ASSUME FormInv, FileForm, LifeInv, NEW s \in Streams, WriteStep(s)
    PROVE  /\ file'.size = file.size /\ writer' = writer
           /\ UNCHANGED <<matrix, at, phase, contexts, cursor>>
           /\ gone' = gone \/ (RecycleBlock(s) /\ Command.reclaim)
           /\ \A t \in Streams \ {s} : call'[t] = call[t]
<1>1. file \in Files(Blocks) /\ call \in [Streams -> CallPlaces]
  BY DEF FileForm, FormInv
<1>2. CASE FlushBlock(s) \/ FinalizeBlock(s) \/ AppendFrame(s) \/ TakeFreeBlock(s)
  BY <1>1, <1>2 DEF Files, FlushBlock, FinalizeBlock, TakeFreeBlock, AppendFrame, Goto, WriteStep
<1>3. CASE RecycleBlock(s)
  BY <1>1, <1>3 DEF Files, RecycleBlock, Recycle, WriteStep, LifeInv
<1>. QED BY <1>2, <1>3 DEF WriteStep

LEMMA LifeGoesOn ==
    ASSUME ScriptInv, FileInv, LifeInv, [Next]_vars
    PROVE  LifeInv'
<1>0. FormInv /\ CallsInv /\ FileForm
  BY DEF ScriptInv, FileInv
<1>1. CASE Clean
  BY <1>1 DEF Clean, LifeInv, NoFile, Pristine, LastCommand, Command
<1>2. CASE SetUp
  <2>1. /\ phase = "setup" /\ phase' \in {"write", "threads"} /\ UNCHANGED <<matrix, at, gone>>
        /\ file'.size = BlockSize(Command.durability)
        /\ writer' = IF Command.reclaim THEN "reclaiming" ELSE "keeping"
    BY <1>2 DEF SetUp, Setup, Pristine, Reclaims
  <2>2. LastCommand' = Command /\ Command' = Command
    BY <2>1 DEF LastCommand, Command
  <2>. QED BY <2>1, <2>2 DEF LifeInv
<1>3. ASSUME NEW s \in Streams, WriteStep(s) PROVE LifeInv'
  <2>1. /\ file'.size = file.size /\ writer' = writer /\ UNCHANGED <<matrix, at, phase>>
        /\ gone' = gone \/ Command.reclaim
        /\ phase \in {"write", "threads"}
    BY <1>0, <1>3, WriteStepIsModest DEF WriteStep
  <2>2. Command' = Command /\ LastCommand' = LastCommand
    BY <2>1 DEF Command, LastCommand
  <2>. QED BY <2>1, <2>2 DEF LifeInv
<1>4. CASE ProgramRuns
  <2>1. CASE NextWrite \/ WriteReturns
    <3>1. CASE NextWrite
      BY <1>0, <3>1, LifeKept DEF NextWrite, GetContext
    <3>2. CASE WriteReturns
      <4>1. Stream0 \in Streams /\ WriteStep(Stream0)
        BY <3>2, BenchAssumption DEF WriteReturns, WriteStep
      <4>. QED BY <1>3, <4>1
    <3>. QED BY <2>1, <3>1, <3>2
  <2>2. ASSUME NEW s \in Streams, ThreadStep(s) PROVE LifeInv'
    <3>1. CASE ThreadWrites(s)
      BY <1>0, <3>1, LifeKept DEF ThreadWrites, GetContext
    <3>2. CASE ThreadWriteReturns(s)
      BY <1>3, <3>2 DEF ThreadWriteReturns, WriteStep
    <3>3. CASE CallGoesOn(s)
      <4>1. CASE PoolExhausted(s)
        BY <1>0, <3>3, <4>1, LifeKept DEF CallGoesOn, PoolExhausted
      <4>. QED BY <1>3, <3>3, <4>1 DEF CallGoesOn, AdvanceWrite, WriteStep
    <3>4. CASE CallThrows(s)
      BY <1>0, <3>4, LifeKept DEF CallThrows
    <3>. QED BY <2>2, <3>1, <3>2, <3>3, <3>4 DEF ThreadStep
  <2>3. CASE NextSeek \/ ReaderStep
    BY <1>0, <2>3, LifeKept DEF NextSeek, ReaderStep, ReaderFinds, ReaderAdvances, Advance
  <2>4. CASE SetUp
    BY <1>2, <2>4
  <2>5. CASE Create
    BY <2>5 DEF Create, LifeInv, LastCommand, Command, nanots
  <2>6. CASE FinalSync
    <3>1. phase' \in {"teardown", "seek", "threads"}
      BY <1>0, <2>6, MatrixIsAList DEF FinalSync, AfterWriting, CallsInv, Workloads
    <3>. QED BY <1>0, <2>6, <3>1, LifeKept DEF FinalSync, nanots
  <2>7. CASE SeeksEnd \/ RunThrows \/ ThreadsEnd
    BY <1>0, <2>7, LifeKept DEF SeeksEnd, RunThrows, ThreadsEnd, nanots
  <2>8. CASE SetUpFails
    <3>1. writer = "reclaiming" => FALSE
      BY <2>8 DEF LifeInv, SetUpFails
    <3>. QED BY <2>8, <3>1 DEF LifeInv, SetUpFails, nanots, Command, LastCommand
  <2>9. CASE TearDown
    BY <1>0, <2>9, LifeKept DEF TearDown, Release
  <2>10. CASE WriteResult
    BY <2>10 DEF LifeInv, WriteResult, nanots, Command, LastCommand
  <2>. QED BY <1>4, <2>1, <2>2, <2>3, <2>4, <2>5, <2>6, <2>7, <2>8, <2>9, <2>10, ProgramSteps
           DEF QuietStep
<1>5. CASE ProgramDies
  <2>1. Release /\ phase' = "exited" /\ UNCHANGED <<matrix, at>>
        /\ phase \in {"setup", "write", "seek", "threads", "teardown", "result"}
    BY <1>5 DEF ProgramDies, Die
  <2>. QED BY <1>0, <2>1, LifeKept DEF Release
<1>6. CASE Judge
  <2>1. /\ phase = "exited" /\ UNCHANGED nanots /\ matrix' = matrix
        /\ \/ at' = at + 1 /\ phase' = "clean"
           \/ at' = at /\ phase' = "summary"
    BY <1>6 DEF Judge
  <2>2. at \in Nat \ {0} /\ at + 1 # 1 /\ at + 1 - 1 = at
    BY <1>0, MatrixIsAList
  <2>3. LastCommand' = LastCommand
    BY <2>1, <2>2 DEF LastCommand, Command
  <2>4. writer # "reclaiming"
    BY <2>1 DEF LifeInv
  <2>5. phase' # "clean" => Command' = Command
    BY <2>1 DEF Command
  <2>. QED BY <2>1, <2>3, <2>4, <2>5 DEF LifeInv, nanots
<1>7. CASE Again
  <2>1. phase = "summary" /\ phase' = "clean" /\ at' = 1 /\ UNCHANGED nanots /\ matrix' = matrix
    BY <1>7 DEF Again
  <2>2. at = Len(matrix)
    BY <2>1 DEF ScriptInv, VerdictInv
  <2>3. LastCommand' = LastCommand
    BY <2>1, <2>2 DEF LastCommand, Command
  <2>. QED BY <2>1, <2>3 DEF LifeInv, nanots
<1>8. CASE Blackout
  BY <1>8 DEF Blackout, MachineDies, PowerLoss, LifeInv
<1>9. CASE Over \/ UNCHANGED vars
  BY <1>9 DEF Over, vars, nanots, process, LifeInv, Command, LastCommand
<1>. QED BY <1>1, <1>4, <1>5, <1>6, <1>7, <1>8, <1>9 DEF Next

LEMMA FileStarts == Init => FileInv /\ LifeInv
<1>. SUFFICES ASSUME Init PROVE FileInv /\ LifeInv
  OBVIOUS
<1>1. /\ file = Pristine(0, 0) /\ gone = [s \in Streams |-> <<>>]
      /\ call = [s \in Streams |-> "idle"] /\ writer = "none" /\ phase = "clean"
  BY DEF Init, NoDatabase, NoFile
<1>2. LifeInv
  BY <1>1 DEF LifeInv, Pristine
<1>3. Blocks = 1 .. 0 /\ file.size = 0 /\ file.frames = [b \in 1 .. 0 |-> <<>>]
  BY <1>1 DEF Blocks, Pristine
<1>4. /\ \A s \in Streams : file.chain[s] = <<>> /\ file.current[s] = NoBlock
      /\ file.chain = [s \in Streams |-> <<>>] /\ file.current = [s \in Streams |-> NoBlock]
      /\ file.flushed = {}
  BY <1>1 DEF Pristine
<1>5. FileForm
  <2>1. file \in Files(1 .. 0)
    <3>1. [b \in 1 .. 0 |-> <<>>] \in [1 .. 0 -> Seq(Nat)]
      OBVIOUS
    <3>2. [s \in Streams |-> <<>>] \in [Streams -> Seq(1 .. 0)]
      OBVIOUS
    <3>3. [s \in Streams |-> NoBlock] \in [Streams -> 1 .. 0 \cup {NoBlock}]
      OBVIOUS
    <3>. QED BY <1>1, <3>1, <3>2, <3>3 DEF Files, Pristine
  <2>2. gone \in [Streams -> Seq(Nat)]
    BY <1>1
  <2>. QED BY <1>3, <2>1, <2>2 DEF FileForm
<1>6. OwnInv
  BY <1>3, <1>4 DEF OwnInv
<1>7. FillInv
  <2>1. Run(0, 0) = <<>>
    BY DEF Run
  <2>. QED BY <1>1, <1>4, <2>1 DEF FillInv
<1>8. FlushInv
  BY <1>1, <1>4 DEF FlushInv
<1>. QED BY <1>2, <1>5, <1>6, <1>7, <1>8 DEF FileInv

THEOREM FileInvariantHolds == Spec => [](FileInv /\ LifeInv)
<1>1. ScriptInv /\ FileInv /\ LifeInv /\ [Next]_vars => FileInv' /\ LifeInv'
  BY FileGoesOn, LifeGoesOn DEF ScriptInv
<1>. QED BY <1>1, FileStarts, ScriptInvariantHolds, PTL DEF Spec

\* What every stream's blocks hold.
ContentInv ==
    \A s \in Streams :
        /\ Kept(s) \in Nat /\ Len(gone[s]) \in Nat
        /\ gone[s] = Run(0, Len(gone[s])) /\ Content(s) = Run(Len(gone[s]), Kept(s))
        /\ Len(Content(s)) = Kept(s) /\ Written(s) = Len(gone[s]) + Kept(s)

LEMMA ContentInvariantHolds == Spec => []ContentInv
<1>1. FileInv => ContentInv
  BY ContentIsARun DEF FileInv, FillInv, ContentInv
<1>. QED BY <1>1, FileInvariantHolds, PTL

\* What a stream has left, with what was used again, is everything that was written, in
\* order and without a gap, for any streams, sizes, command lines and faults; and without
\* --nanots-auto-reclaim nothing has been used again.
THEOREM FramesAreAlwaysInOrder == Spec => []FramesInOrder
<1>1. ASSUME ContentInv, LifeInv PROVE FramesInOrder
  <2>. SUFFICES ASSUME NEW s \in Streams
                PROVE  LET all == gone[s] \o Content(s)
                       IN  /\ all = [i \in DOMAIN all |-> i]
                           /\ phase \notin {"clean", "off"} /\ gone[s] # <<>>
                                => Command.reclaim
    BY DEF FramesInOrder
  <2>. DEFINE lost == Len(gone[s])
              kept == Kept(s)
  <2>1. /\ lost \in Nat /\ kept \in Nat
        /\ gone[s] = Run(0, lost) /\ Content(s) = Run(lost, kept)
    BY <1>1 DEF ContentInv
  <2>2. Run(0, lost) \o Run(0 + lost, kept) = Run(0, lost + kept)
    <3>. HIDE DEF lost, kept
    <3>. QED BY <2>1, Runs
  <2>3. gone[s] \o Content(s) = Run(0, lost + kept)
    <3>1. 0 + lost = lost
      BY <2>1
    <3>. QED BY <2>1, <2>2, <3>1
  <2>4. Run(0, lost + kept) = [i \in DOMAIN Run(0, lost + kept) |-> i]
    <3>1. \A m \in Nat : [j \in 1 .. m |-> 0 + j] = [i \in DOMAIN [j \in 1 .. m |-> 0 + j] |-> i]
      OBVIOUS
    <3>2. lost + kept \in Nat
      BY <2>1
    <3>. QED BY <3>1, <3>2 DEF Run
  <2>. QED BY <1>1, <2>3, <2>4 DEF LifeInv
<1>. QED BY <1>1, ContentInvariantHolds, FileInvariantHolds, PTL

\* The command line that the database is of.
LEMMA LastCommandLine ==
    ASSUME FormInv
    PROVE  LastCommand \in CommandLines /\ LastCommand.durability \in Nat
<1>1. /\ matrix \in Seq(CommandLines) /\ Len(matrix) \in Nat \ {0}
      /\ DOMAIN matrix = 1 .. Len(matrix) /\ at \in 1 .. Len(matrix)
      /\ Command \in CommandLines
  BY MatrixIsAList
<1>2. (IF at = 1 THEN Len(matrix) ELSE at - 1) \in 1 .. Len(matrix)
  BY <1>1
<1>3. LastCommand \in CommandLines
  BY <1>1, <1>2 DEF LastCommand
<1>. QED BY <1>3 DEF CommandLines

\* While the program runs the machine is up.
LEMMA RunningIsNotOff ==
    ASSUME FormInv, CallsInv, ProgramRuns
    PROVE  phase # "off" /\ phase' # "off"
<1>1. CASE QuietStep
  <2>1. CASE NextWrite \/ WriteReturns \/ NextSeek \/ ReaderStep
    BY <2>1 DEF NextWrite, WriteReturns, NextSeek, ReaderStep, ReaderFinds, ReaderAdvances
  <2>2. CASE \E s \in Streams : ThreadStep(s)
    BY <2>2 DEF ThreadStep, ThreadWrites, ThreadWriteReturns, CallGoesOn, CallThrows
  <2>. QED BY <1>1, <2>1, <2>2 DEF QuietStep
<1>2. CASE Create \/ SetUp \/ SetUpFails
  BY <1>2 DEF Create, SetUp, SetUpFails
<1>3. CASE FinalSync
  <2>1. phase' = AfterWriting /\ phase = "write"
    BY <1>3 DEF FinalSync
  <2>2. Command.workload \in Workloads
    BY MatrixIsAList
  <2>3. Command.workload # "multi_stream_write"
    BY <2>1 DEF CallsInv
  <2>. QED BY <2>1, <2>2, <2>3 DEF AfterWriting, Workloads
<1>4. CASE SeeksEnd \/ RunThrows \/ ThreadsEnd \/ TearDown \/ WriteResult
  BY <1>4 DEF SeeksEnd, RunThrows, ThreadsEnd, TearDown, WriteResult
<1>. QED BY <1>1, <1>2, <1>3, <1>4, ProgramSteps

\* "a crash can lose at most one in-flight block worth of data"
\* (nanots_backend.cpp:6-7): when the machine dies at whatever moment, each stream loses
\* less than the larger of the least block and durability_bytes, for any sizes.
THEOREM LossIsBounded == Spec => LossWithinWindow
<1>. DEFINE Window == Max({MinBlockSize, LastCommand.durability})
            Bounded == phase' = "off" =>
                         \A s \in Streams :
                           (Len(Content(s)) - Len(Content(s)')) * FrameSize < Window
<1>1. ASSUME FormInv, CallsInv, FileInv, LifeInv, ContentInv, ContentInv', [Next]_vars
      PROVE  [Bounded]_vars
  <2>. SUFFICES ASSUME phase' = "off", NEW s \in Streams, ~UNCHANGED vars
                PROVE  (Len(Content(s)) - Len(Content(s)')) * FrameSize < Window
    OBVIOUS
  <2>1. Len(Content(s)) = Kept(s) /\ Len(Content(s)') = Kept(s)'
        /\ Kept(s) \in Nat /\ Kept(s)' \in Nat
    BY <1>1 DEF ContentInv
  <2>2. PowerLoss /\ phase # "off"
    <3>1. CASE Clean \/ SetUp \/ \E t \in Streams : WriteStep(t)
      BY <3>1 DEF Clean, SetUp, WriteStep
    <3>2. CASE Blackout
      BY <3>2 DEF Blackout, MachineDies
    <3>3. CASE Judge \/ Again \/ ProgramDies \/ Over
      BY <2>1, <3>3 DEF Judge, Again, ProgramDies, Die, Over
    <3>4. CASE ProgramRuns
      <4>1. phase # "off" /\ phase' # "off"
        BY <1>1, <3>4, RunningIsNotOff
      <4>. QED BY <4>1
    <3>. QED BY <1>1, <3>1, <3>2, <3>3, <3>4 DEF Next
  <2>3. \/ Kept(s)' = Kept(s)
        \/ /\ Blocks # {} /\ PerBlock \in Nat
           /\ Kept(s) - Kept(s)' <= PerBlock
    BY <1>1, <2>2, PowerLossKeepsFile
  <2>4. LastCommand.durability \in Nat
    BY <1>1, LastCommandLine
  <2>5. Window \in Nat /\ Window >= MinBlockSize /\ MinBlockSize > 0 /\ MinBlockSize \in Nat
        /\ FrameSize \in Nat \ {0}
    <3>1. MinBlockSize \in Nat /\ MinBlockSize > 0 /\ FrameSize \in Nat \ {0}
      BY SizingAssumption, BenchAssumption
    <3>2. Window \in {MinBlockSize, LastCommand.durability} /\ Window >= MinBlockSize
      BY <2>4, <3>1, MaxOfTwo
    <3>. QED BY <2>4, <3>1, <3>2
  <2>. HIDE DEF Window
  <2>6. CASE Kept(s)' = Kept(s)
    <3>1. Kept(s) - Kept(s)' = 0
      BY <2>1, <2>6
    <3>. QED BY <2>1, <2>5, <3>1
  <2>7. CASE Blocks # {} /\ PerBlock \in Nat /\ Kept(s) - Kept(s)' <= PerBlock
    <3>. DEFINE drop == Kept(s) - Kept(s)'
    <3>1. file.size \in Nat /\ file.size >= 16
      BY <1>1, <2>7, FileParts DEF FileInv, FileForm
    <3>2. PerBlock * FrameSize < file.size
      BY <3>1, PerBlockIsNat DEF PerBlock
    <3>3. file.size <= Window
      <4>1. file.size = BlockSize(LastCommand.durability)
        BY <1>1, <2>2, <3>1 DEF LifeInv
      <4>2. \A m \in Nat, w \in Nat \ {0} : m % w <= m
        OBVIOUS
      <4>3. Word32 \in Nat \ {0}
        BY SizingAssumption
      <4>. QED BY <2>5, <4>1, <4>2, <4>3 DEF BlockSize, Window
    <3>4. drop \in Int /\ drop <= PerBlock
      BY <2>1, <2>7
    <3>5. drop * FrameSize <= PerBlock * FrameSize
      <4>. HIDE DEF drop
      <4>1. \A x \in Int, y \in Nat, f \in Nat : x <= y => x * f <= y * f
        <5>. TAKE x \in Int, y \in Nat, f \in Nat
        <5>. HAVE x <= y
        <5>1. y - x \in Nat
          OBVIOUS
        <5>2. (y - x) * f \in Nat
          BY <5>1
        <5>3. (y - x) * f = y * f - x * f
          OBVIOUS
        <5>. QED BY <5>2, <5>3
      <4>. QED BY <2>5, <2>7, <3>4, <4>1
    <3>6. drop * FrameSize \in Int /\ PerBlock * FrameSize \in Int
      BY <2>5, <2>7, <3>4
    <3>7. Len(Content(s)) - Len(Content(s)') = drop
      BY <2>1
    <3>. HIDE DEF drop
    <3>. QED BY <2>5, <3>1, <3>2, <3>3, <3>5, <3>6, <3>7
  <2>. QED BY <2>3, <2>6, <2>7
<1>. QED BY <1>1, ScriptInvariantHolds, FileInvariantHolds, ContentInvariantHolds, PTL
         DEF Spec, ScriptInv, LossWithinWindow

------------------------------------------------------------------------------
(* The workload *)

\* A write that returns adds a frame to its stream; the other steps of a call add
\* none, as long as no block is used again.
LEMMA KeptByAppend ==
    ASSUME FileInv, NEW s \in Streams, AppendFrame(s)
    PROVE  /\ Kept(s)' = Kept(s) + 1
           /\ \A t \in Streams \ {s} : Kept(t)' = Kept(t)
<1>. DEFINE b == file.current[s]
            held == file.frames[b]
            p == Len(file.chain[s]) * PerBlock
<1>1. FileForm /\ OwnInv /\ FillInv /\ b # NoBlock
  BY DEF FileInv, AppendFrame
<1>2. /\ file \in Files(Blocks) /\ file.frames \in [Blocks -> Seq(Nat)] /\ b \in Blocks
      /\ held \in Seq(Nat) /\ Len(held) \in Nat /\ p \in Nat
  BY <1>1, FileParts, ContentIsARun DEF FileForm
<1>3. file' = [file EXCEPT !.frames[b] = Append(held, Written(s) + 1)]
  BY DEF AppendFrame
<1>4. /\ file'.size = file.size /\ file'.chain = file.chain /\ file'.current = file.current
      /\ file'.frames = [file.frames EXCEPT ![b] = Append(held, Written(s) + 1)]
  BY <1>2, <1>3 DEF Files
<1>5. PerBlock' = PerBlock
  BY <1>4 DEF PerBlock
<1>6. Len(file'.frames[b]) = Len(held) + 1
  <2>1. \A q \in Seq(Nat) : \A e : Len(Append(q, e)) = Len(q) + 1
    OBVIOUS
  <2>. QED BY <1>2, <1>4, <2>1
<1>7. Kept(s)' = p + (Len(held) + 1) /\ Kept(s) = p + Len(held)
  BY <1>1, <1>4, <1>5, <1>6 DEF Kept
<1>8. ASSUME NEW t \in Streams \ {s} PROVE Kept(t)' = Kept(t)
  <2>1. CASE file.current[t] = NoBlock
    BY <1>4, <1>5, <2>1 DEF Kept
  <2>2. CASE file.current[t] # NoBlock
    <3>1. file.current[t] # b
      BY <1>1, <2>2 DEF OwnInv
    <3>2. file'.frames[file.current[t]] = file.frames[file.current[t]]
      <4>1. file.current[t] \in Blocks
        BY <1>1, <2>2, FileParts
      <4>. QED BY <1>2, <1>4, <3>1, <4>1
    <3>. QED BY <1>4, <1>5, <3>2 DEF Kept
  <2>. QED BY <2>1, <2>2
<1>. HIDE DEF p, held
<1>9. Kept(s)' = Kept(s) + 1
  BY <1>2, <1>7 DEF held
<1>. QED BY <1>8, <1>9

LEMMA KeptByAdvance ==
    ASSUME FileInv, NEW s \in Streams, FlushBlock(s) \/ FinalizeBlock(s) \/ TakeFreeBlock(s)
    PROVE  \A t \in Streams : Kept(t)' = Kept(t)
<1>1. FileForm /\ OwnInv /\ FillInv /\ FlushInv /\ file \in Files(Blocks)
  BY DEF FileInv, FileForm
<1>2. CASE FlushBlock(s)
  <2>1. /\ file'.size = file.size /\ file'.chain = file.chain /\ file'.current = file.current
        /\ file'.frames = file.frames
    BY <1>1, <1>2 DEF FlushBlock, Files
  <2>. QED BY <2>1 DEF Kept, PerBlock
<1>3. CASE FinalizeBlock(s)
  <2>. DEFINE b == file.current[s]
              n == Len(file.chain[s])
  <2>1. /\ call[s] = "finalize" /\ b # NoBlock /\ Len(file.frames[b]) = PerBlock
        /\ file' = [file EXCEPT !.chain[s] = Append(@, b), !.current[s] = NoBlock]
    BY <1>1, <1>3 DEF FinalizeBlock, FlushInv
  <2>2. /\ file.chain \in [Streams -> Seq(Blocks)] /\ file.chain[s] \in Seq(Blocks) /\ n \in Nat
        /\ file.current \in [Streams -> Blocks \cup {NoBlock}] /\ b \in Blocks
        /\ PerBlock \in Nat
    BY <1>1, <2>1, FileParts
  <2>3. /\ file'.size = file.size /\ file'.frames = file.frames
        /\ file'.chain = [file.chain EXCEPT ![s] = Append(file.chain[s], b)]
        /\ file'.current = [file.current EXCEPT ![s] = NoBlock]
    BY <1>1, <2>1 DEF Files
  <2>4. PerBlock' = PerBlock
    BY <2>3 DEF PerBlock
  <2>5. Len(file'.chain[s]) = n + 1 /\ file'.current[s] = NoBlock
    <3>1. \A q \in Seq(Blocks) : \A e : Len(Append(q, e)) = Len(q) + 1
      OBVIOUS
    <3>. QED BY <2>2, <2>3, <3>1
  <2>6. Kept(s)' = (n + 1) * PerBlock + 0 /\ Kept(s) = n * PerBlock + PerBlock
    BY <2>1, <2>4, <2>5 DEF Kept
  <2>. HIDE DEF n
  <2>7. Kept(s)' = Kept(s)
    <3>1. n * PerBlock \in Nat /\ (n + 1) * PerBlock = n * PerBlock + PerBlock
      BY <2>2, Products
    <3>. QED BY <2>2, <2>6, <3>1
  <2>8. \A t \in Streams \ {s} : Kept(t)' = Kept(t)
    <3>. TAKE t \in Streams \ {s}
    <3>1. file'.chain[t] = file.chain[t] /\ file'.current[t] = file.current[t]
      BY <2>2, <2>3
    <3>. QED BY <2>3, <2>4, <3>1 DEF Kept
  <2>. QED BY <2>7, <2>8
<1>4. CASE TakeFreeBlock(s)
  <2>. DEFINE b == Min(Free)
  <2>1. /\ Free # {} /\ file.current[s] = NoBlock
        /\ file' = [file EXCEPT !.current[s] = b]
    BY <1>4 DEF TakeFreeBlock, Needy
  <2>2. b \in Free
    <3>1. Free \in SUBSET Nat
      BY <1>1, FileParts DEF Free
    <3>2. PICK m \in Free : \A k \in Free : m <= k
      BY <2>1, <3>1, LeastNumber
    <3>. QED BY <3>2, Zenon DEF Min
  <2>. HIDE DEF b
  <2>3. b \in Blocks /\ b # NoBlock /\ file.frames[b] = <<>> /\ PerBlock \in Nat
        /\ Len(file.chain[s]) \in Nat
        /\ file.current \in [Streams -> Blocks \cup {NoBlock}]
    BY <1>1, <2>2, FreeBlocks, FileParts
  <2>4. /\ file'.size = file.size /\ file'.frames = file.frames /\ file'.chain = file.chain
        /\ file'.current = [file.current EXCEPT ![s] = b]
    BY <1>1, <2>1 DEF Files
  <2>5. PerBlock' = PerBlock
    BY <2>4 DEF PerBlock
  <2>6. file'.current[s] = b /\ Len(file'.frames[b]) = 0
    BY <2>3, <2>4
  <2>7. Kept(s)' = Len(file.chain[s]) * PerBlock + 0 /\ Kept(s) = Len(file.chain[s]) * PerBlock + 0
    BY <2>1, <2>3, <2>4, <2>5, <2>6 DEF Kept
  <2>8. \A t \in Streams \ {s} : Kept(t)' = Kept(t)
    <3>. TAKE t \in Streams \ {s}
    <3>1. file'.current[t] = file.current[t]
      BY <2>3, <2>4
    <3>. QED BY <2>4, <2>5, <3>1 DEF Kept
  <2>. QED BY <2>7, <2>8
<1>. QED BY <1>2, <1>3, <1>4

\* Where the main thread stands when it has written, and drawn the last boundary.
WritingDone == \/ phase = "seek"
               \/ phase \in {"teardown", "result"} /\ ~error
               \/ phase = "exited" /\ ~failed

\* What the main thread has done; as far as it says how much is written, for a command
\* line that lets no block be used again.
WorkInv ==
    /\ covered \in Nat
    /\ phase = "threads" => Command.workload \in {"multi_stream_write", "concurrent_readers"}
    /\ ~Command.reclaim /\ phase = "write" /\ sinceSync = 0 => covered = Written(Stream0)
    /\ ~Command.reclaim /\ Command.workload \in {"sustained_write", "random_seek"} /\ WritingDone
         => Written(Stream0) = FramesToWrite /\ covered = FramesToWrite
    /\ Command.workload = "random_seek" /\ WritingDone /\ phase # "seek" => seeks = NumFrames
    /\ ~Command.reclaim /\ phase = "threads" /\ Command.workload = "concurrent_readers"
         => Written(Stream0) >= Prefill

LEMMA WrittenStays ==
    ASSUME UNCHANGED <<file, gone>>
    PROVE  \A s \in Streams : Written(s)' = Written(s)
BY DEF Written, Content, BlocksOf

\* What a call adds, in a step that does not use a block again.
LEMMA WrittenByCall ==
    ASSUME FormInv, FileInv, LifeInv, ContentInv, ContentInv',
           NEW s \in Streams, WriteStep(s), ~RecycleBlock(s), NEW t \in Streams
    PROVE  /\ Written(t) \in Nat
           /\ t = s /\ AppendFrame(s) => Written(t)' = Written(t) + 1
           /\ Written(t)' = Written(t) \/ (AppendFrame(s) /\ Written(t)' = Written(t) + 1)
<1>1. gone' = gone
  BY WriteStepIsModest DEF FileInv
<1>2. /\ Len(gone[t]) \in Nat /\ Kept(t) \in Nat
      /\ Written(t) = Len(gone[t]) + Kept(t) /\ Written(t)' = Len(gone'[t]) + Kept(t)'
  BY DEF ContentInv
<1>3. CASE AppendFrame(s)
  BY <1>1, <1>2, <1>3, KeptByAppend
<1>4. CASE ~AppendFrame(s)
  <2>1. Kept(t)' = Kept(t)
    BY <1>4, KeptByAdvance DEF WriteStep
  <2>. QED BY <1>1, <1>2, <1>4, <2>1
<1>. QED BY <1>3, <1>4

LEMMA WrittenByStep ==
    ASSUME FormInv, FileInv, LifeInv, ContentInv, ContentInv', ~Command.reclaim,
           NEW s \in Streams, WriteStep(s), NEW t \in Streams
    PROVE  /\ Written(t) \in Nat
           /\ t = s /\ AppendFrame(s) => Written(t)' = Written(t) + 1
           /\ Written(t)' = Written(t) \/ (AppendFrame(s) /\ Written(t)' = Written(t) + 1)
<1>1. ~RecycleBlock(s)
  BY DEF LifeInv, RecycleBlock
<1>. QED BY <1>1, WrittenByCall

LEMMA WorkGoesOn ==
    ASSUME ScriptInv, FileInv, LifeInv, ContentInv, ContentInv', WorkInv, [Next]_vars
    PROVE  WorkInv'
<1>0. FormInv /\ CallsInv /\ OutcomeInv /\ Stream0 \in Streams
      /\ FrameSize \in Nat \ {0} /\ sinceSync \in Nat /\ covered \in Nat
      /\ Written(Stream0) \in Nat /\ Command.workload \in Workloads
  <2>1. FormInv /\ CallsInv /\ OutcomeInv
    BY DEF ScriptInv
  <2>2. Stream0 \in Streams /\ FrameSize \in Nat \ {0}
    BY BenchAssumption
  <2>3. Len(gone[Stream0]) \in Nat /\ Kept(Stream0) \in Nat
        /\ Written(Stream0) = Len(gone[Stream0]) + Kept(Stream0)
    BY <2>2 DEF ContentInv
  <2>4. Command.workload \in Workloads
    BY <2>1, MatrixIsAList
  <2>5. sinceSync \in Nat /\ covered \in Nat
    BY <2>1 DEF FormInv, WorkInv
  <2>6. Written(Stream0) \in Nat
    BY <2>3
  <2>. QED BY <2>1, <2>2, <2>4, <2>5, <2>6
\* Steps that leave what is written and what is known of it.
<1>. DEFINE Same == UNCHANGED <<matrix, at, phase, sinceSync, covered, seeks, error, failed>>
<1>1. ASSUME Same, Written(Stream0)' = Written(Stream0) PROVE WorkInv'
  BY <1>1 DEF WorkInv, WritingDone, FramesToWrite, Command
<1>2. ASSUME UNCHANGED <<file, gone>> PROVE Written(Stream0)' = Written(Stream0)
  BY <1>0, <1>2, WrittenStays
<1>3. ASSUME NEW s \in Streams, WriteStep(s), UNCHANGED process,
             phase = "threads" \/ ~AppendFrame(s)
      PROVE  WorkInv'
  <2>1. UNCHANGED <<matrix, at, phase, sinceSync, covered, seeks, error, failed>>
        /\ phase \in {"write", "threads"}
    BY <1>3 DEF WriteStep, process
  <2>2. CASE Command.reclaim
    BY <1>0, <2>1, <2>2 DEF WorkInv, WritingDone, Command
  <2>3. CASE ~Command.reclaim
    <3>1. \/ Written(Stream0)' = Written(Stream0)
          \/ AppendFrame(s) /\ Written(Stream0)' = Written(Stream0) + 1
      BY <1>0, <1>3, <2>3, WrittenByStep
    <3>2. CASE Written(Stream0)' = Written(Stream0)
      BY <1>1, <2>1, <3>2
    <3>3. CASE phase = "threads" /\ Written(Stream0)' = Written(Stream0) + 1
      <4>1. Prefill \in Nat
        BY BenchAssumption
      <4>2. Written(Stream0) >= Prefill => Written(Stream0)' >= Prefill
        BY <1>0, <3>3, <4>1
      <4>. QED BY <1>0, <2>1, <3>3, <4>2 DEF WorkInv, WritingDone, Command
    <3>. QED BY <1>3, <3>1, <3>2, <3>3
  <2>. QED BY <2>2, <2>3
<1>4. CASE QuietStep
  <2>1. CASE NextWrite
    BY <1>1, <1>2, <2>1 DEF NextWrite, GetContext, process
  <2>2. CASE WriteReturns
    <3>1. WriteStep(Stream0) /\ AppendFrame(Stream0) /\ phase = "write"
          /\ UNCHANGED <<matrix, at, phase>>
      BY <2>2 DEF WriteReturns, WriteStep
    <3>2. \/ sinceSync' = 0 /\ covered' = Written(Stream0) + 1
          \/ sinceSync' = sinceSync + FrameSize /\ covered' = covered
      BY <2>2 DEF WriteReturns
    <3>3. ~Command.reclaim => Written(Stream0)' = Written(Stream0) + 1
      BY <1>0, <3>1, WrittenByStep
    <3>4. covered' \in Nat /\ (~Command.reclaim /\ sinceSync' = 0 => covered' = Written(Stream0)')
      BY <1>0, <3>2, <3>3
    <3>. QED BY <3>1, <3>4 DEF WorkInv, WritingDone, Command
  <2>3. CASE NextSeek
    <3>1. Written(Stream0)' = Written(Stream0)
      BY <1>2, <2>3 DEF NextSeek
    <3>. QED BY <2>3, <3>1 DEF NextSeek, WorkInv, WritingDone, FramesToWrite, Command
  <2>4. ASSUME NEW s \in Streams, ThreadStep(s) PROVE WorkInv'
    <3>1. CASE ThreadWrites(s)
      BY <1>1, <1>2, <3>1 DEF ThreadWrites, GetContext, process
    <3>2. CASE ThreadWriteReturns(s)
      BY <1>3, <3>2 DEF ThreadWriteReturns, WriteStep
    <3>3. CASE CallGoesOn(s)
      <4>1. CASE PoolExhausted(s)
        BY <1>1, <1>2, <3>3, <4>1 DEF CallGoesOn, PoolExhausted, process
      <4>2. CASE ~PoolExhausted(s)
        <5>1. WriteStep(s) /\ UNCHANGED process
          BY <3>3, <4>2 DEF CallGoesOn, AdvanceWrite, WriteStep
        <5>2. ~AppendFrame(s)
          <6>1. file.current[s] # NoBlock /\ ~Full(s) /\ call[s] = "write" => FALSE
            BY <3>3, <4>2 DEF CallGoesOn, AdvanceWrite, FlushBlock, FinalizeBlock,
                              TakeFreeBlock, RecycleBlock, Needy
          <6>. QED BY <6>1 DEF AppendFrame
        <5>. QED BY <1>3, <5>1, <5>2
      <4>. QED BY <4>1, <4>2
    <3>4. CASE CallThrows(s)
      BY <1>1, <1>2, <3>4 DEF CallThrows, process
    <3>. QED BY <2>4, <3>1, <3>2, <3>3, <3>4 DEF ThreadStep
  <2>5. CASE ReaderStep
    BY <1>1, <1>2, <2>5 DEF ReaderStep, ReaderFinds, ReaderAdvances, Advance
  <2>. QED BY <1>4, <2>1, <2>2, <2>3, <2>4, <2>5 DEF QuietStep
<1>5. CASE SetUp
  <2>1. /\ phase = "setup" /\ gone' = gone /\ UNCHANGED <<matrix, at, sinceSync, covered, seeks>>
        /\ phase' = IF Command.workload = "multi_stream_write" THEN "threads" ELSE "write"
        /\ file' = Pristine(BlockSize(Command.durability),
                       BlocksFor(Command.blocks, ExpectedBytes(NumFrames, FrameSize),
                                 BlockSize(Command.durability)))
        /\ BlockSize(Command.durability) >= MinBlockSize
    BY <1>5 DEF SetUp, Setup, process, Accepts
  <2>2. covered = 0 /\ gone[Stream0] = <<>>
    BY <1>0, <2>1 DEF LifeInv
  <2>3. Kept(Stream0)' = 0
    <3>1. /\ file'.chain[Stream0] = <<>> /\ file'.current[Stream0] = NoBlock
          /\ file'.size = BlockSize(Command.durability)
      BY <1>0, <2>1 DEF Pristine
    <3>2. Command.durability \in Nat /\ Command.blocks \in Nat
      BY <1>0, MatrixIsAList
    <3>3. file'.size \in Nat /\ file'.size >= 16
      BY <2>1, <3>1, <3>2, SizesAreNumbers
    <3>4. PerBlock' \in Nat
      BY <3>3, PerBlockIsNat DEF PerBlock
    <3>5. Kept(Stream0)' = 0 * PerBlock' + 0
      BY <3>1 DEF Kept
    <3>6. \A x \in Nat : 0 * x + 0 = 0
      OBVIOUS
    <3>. QED BY <3>4, <3>5, <3>6, Zenon
  <2>4. Written(Stream0)' = 0
    BY <1>0, <2>1, <2>2, <2>3 DEF ContentInv
  <2>. QED BY <2>1, <2>2, <2>4 DEF WorkInv, WritingDone, Command
<1>6. CASE Create \/ SetUpFails
  <2>1. /\ UNCHANGED <<matrix, at, covered>>
        /\ phase' = "setup" \/ (phase' = "exited" /\ failed' = TRUE)
    BY <1>6 DEF Create, SetUpFails
  <2>. QED BY <2>1 DEF WorkInv, WritingDone
<1>7. CASE FinalSync
  <2>1. /\ phase = "write" /\ Written(Stream0) = FramesToWrite
        /\ covered' = CoveredInTheEnd /\ phase' = AfterWriting
        /\ UNCHANGED <<file, gone, matrix, at, seeks>>
    BY <1>7 DEF FinalSync, nanots
  <2>2. Command' = Command /\ FramesToWrite' = FramesToWrite
        /\ Written(Stream0)' = Written(Stream0)
    BY <1>2, <2>1 DEF Command, FramesToWrite
  <2>3. covered' \in Nat /\ (~Command.reclaim => covered' = FramesToWrite)
    BY <1>0, <2>1 DEF CoveredInTheEnd, WorkInv
  <2>4. \/ phase' = "teardown" /\ Command.workload = "sustained_write"
        \/ phase' = "seek" /\ Command.workload = "random_seek"
        \/ phase' = "threads" /\ Command.workload = "concurrent_readers"
    BY <1>0, <2>1 DEF AfterWriting, Workloads, CallsInv
  <2>5. Command.workload = "concurrent_readers" => FramesToWrite = Prefill /\ Prefill >= Prefill
    BY BenchAssumption DEF FramesToWrite, Prefilling
  <2>. QED BY <2>1, <2>2, <2>3, <2>4, <2>5 DEF WorkInv, WritingDone
<1>8. CASE SeeksEnd
  <2>1. Written(Stream0)' = Written(Stream0)
    BY <1>2, <1>8 DEF SeeksEnd, nanots
  <2>. QED BY <1>8, <2>1 DEF SeeksEnd, WorkInv, WritingDone, FramesToWrite, Command, process
<1>9. CASE RunThrows
  BY <1>9 DEF RunThrows, WorkInv, WritingDone
<1>10. CASE ThreadsEnd
  <2>1. Command' = Command /\ Command.workload \in {"multi_stream_write", "concurrent_readers"}
        /\ phase' = "teardown" /\ covered' = covered
    BY <1>10 DEF ThreadsEnd, WorkInv, Command
  <2>. QED BY <2>1 DEF WorkInv
<1>11. CASE TearDown \/ WriteResult
  <2>1. /\ UNCHANGED <<matrix, at, covered, seeks, error, file, gone>>
        /\ phase \in {"teardown", "result"} /\ phase' \in {"result", "exited"}
        /\ WritingDone' => WritingDone
    BY <1>11 DEF TearDown, Release, WriteResult, WritingDone, process, nanots, ExitsWithFailure
  <2>2. Written(Stream0)' = Written(Stream0)
    BY <1>2, <2>1
  <2>. QED BY <2>1, <2>2 DEF WorkInv, FramesToWrite, Command
<1>12. CASE ProgramDies
  BY <1>12 DEF ProgramDies, Die, WorkInv, WritingDone
<1>13. CASE Clean \/ Judge \/ Again \/ Blackout
  <2>1. covered' \in Nat /\ phase' \in {"create", "clean", "summary", "off"}
    BY <1>0, <1>13 DEF Clean, Judge, Again, Blackout, MachineDies, process
  <2>. QED BY <2>1 DEF WorkInv, WritingDone
<1>14. CASE Over \/ UNCHANGED vars
  BY <1>1, <1>2, <1>14 DEF Over, vars, nanots, process
<1>. QED BY <1>4, <1>5, <1>6, <1>7, <1>8, <1>9, <1>10, <1>11, <1>12, <1>13, <1>14, ProgramSteps
         DEF Next

LEMMA WorkInvariantHolds == Spec => []WorkInv
<1>1. Init => WorkInv
  BY DEF Init, WorkInv, WritingDone
<1>. QED BY <1>1, WorkGoesOn, ScriptInvariantHolds, FileInvariantHolds, ContentInvariantHolds,
            PTL DEF Spec

\* No command line of the two workloads with one thread asks for blocks to be used
\* again, as none of the script's does (run_all.sh, NEEDS_AUTO_RECLAIM).
OneThreadKeeps ==
    \A m \in Matrices : \A i \in DOMAIN m :
        m[i].workload \in {"sustained_write", "random_seek"} => ~m[i].reclaim

\* A run of sustained_write or random_seek that reports success has all its frames in
\* the file, covered by a sync_boundary, and has made all its seeks.
THEOREM SuccessIsAlwaysComplete ==
    ASSUME OneThreadKeeps
    PROVE  Spec => []SuccessIsComplete
<1>1. ASSUME FormInv, LifeInv, ContentInv, WorkInv PROVE SuccessIsComplete
  <2>. SUFFICES ASSUME phase = "exited", ~failed,
                       Command.workload \in {"sustained_write", "random_seek"}
                PROVE  /\ Content(Stream0) = [i \in 1 .. FramesToWrite |-> i]
                       /\ covered = FramesToWrite
                       /\ Command.workload = "random_seek" => seeks = NumFrames
    BY DEF SuccessIsComplete
  <2>1. ~Command.reclaim
    BY <1>1 DEF OneThreadKeeps, FormInv, Command
  <2>2. WritingDone
    BY DEF WritingDone
  <2>3. Written(Stream0) = FramesToWrite /\ covered = FramesToWrite
    BY <1>1, <2>1, <2>2 DEF WorkInv
  <2>4. Stream0 \in Streams
    BY BenchAssumption
  <2>5. Len(gone[Stream0]) = 0
    <3>1. gone[Stream0] = <<>>
      BY <1>1, <2>1, <2>4 DEF LifeInv
    <3>. QED BY <3>1
  <2>6. Content(Stream0) = Run(0, FramesToWrite)
    <3>1. /\ Kept(Stream0) \in Nat /\ Content(Stream0) = Run(0, Kept(Stream0))
          /\ Written(Stream0) = 0 + Kept(Stream0)
      BY <1>1, <2>4, <2>5 DEF ContentInv
    <3>. QED BY <2>3, <3>1
  <2>7. Run(0, FramesToWrite) = [i \in 1 .. FramesToWrite |-> i]
    <3>1. \A k \in Nat : [j \in 1 .. k |-> 0 + j] = [j \in 1 .. k |-> j]
      OBVIOUS
    <3>2. FramesToWrite \in Nat
      BY BenchAssumption DEF FramesToWrite
    <3>. QED BY <3>1, <3>2 DEF Run
  <2>8. Command.workload = "random_seek" => seeks = NumFrames
    BY <1>1, <2>2 DEF WorkInv
  <2>. QED BY <2>3, <2>6, <2>7, <2>8
<1>. QED BY <1>1, ScriptInvariantHolds, FileInvariantHolds, ContentInvariantHolds,
            WorkInvariantHolds, PTL DEF ScriptInv

\* A stream's blocks are its finalized ones and the one it fills.
LEMMA BlocksAre ==
    ASSUME FileForm, NEW s \in Streams, NEW i \in DOMAIN BlocksOf(s)
    PROVE  /\ i \in Nat /\ BlocksOf(s)[i] \in Blocks
           /\ \/ /\ i \in DOMAIN file.chain[s] /\ BlocksOf(s)[i] = file.chain[s][i]
              \/ /\ i = Len(file.chain[s]) + 1 /\ file.current[s] # NoBlock
                 /\ BlocksOf(s)[i] = file.current[s]
<1>. DEFINE q == file.chain[s]
            n == Len(q)
            c == file.current[s]
<1>1. /\ q \in Seq(Blocks) /\ n \in Nat /\ DOMAIN q = 1 .. n
      /\ \A j \in DOMAIN q : q[j] \in Blocks
      /\ c \in Blocks \cup {NoBlock} /\ NoBlock \notin Blocks
  BY FileParts
<1>2. CASE c = NoBlock
  <2>1. BlocksOf(s) = q
    BY <1>1, <1>2, ConcatEmptySeq DEF BlocksOf
  <2>. QED BY <1>1, <2>1
<1>3. CASE c # NoBlock
  <2>1. BlocksOf(s) = Append(q, c)
    BY <1>1, <1>3, AppendIsConcat DEF BlocksOf
  <2>2. c \in Blocks
    BY <1>1, <1>3
  <2>3. i \in DOMAIN Append(q, c)
    BY <2>1
  <2>. HIDE DEF q, c
  <2>4. /\ DOMAIN Append(q, c) = 1 .. n + 1
        /\ \A j \in 1 .. n : Append(q, c)[j] = q[j]
        /\ Append(q, c)[n + 1] = c
    BY <1>1, <2>2, AppendProperties, LenProperties
  <2>5. i \in 1 .. n \/ i = n + 1
    BY <1>1, <2>3, <2>4
  <2>6. i \in Nat
    BY <1>1, <2>5
  <2>. HIDE DEF n
  <2>. QED BY <1>1, <1>3, <2>1, <2>2, <2>4, <2>5, <2>6 DEF q, c, n
<1>. QED BY <1>2, <1>3

\* Every state is of the form it is meant to have: among other things each block of the
\* file is free and empty, or one stream's and in one place.
THEOREM TypeIsAlwaysCorrect == Spec => []TypeOK
<1>1. ASSUME FileForm, OwnInv PROVE BlocksAccounted
  <2>1. ASSUME NEW s \in Streams, NEW t \in Streams, NEW i \in DOMAIN BlocksOf(s),
               NEW j \in DOMAIN BlocksOf(t), BlocksOf(s)[i] = BlocksOf(t)[j]
        PROVE  s = t /\ i = j
    <3>1. /\ \/ /\ i \in DOMAIN file.chain[s] /\ BlocksOf(s)[i] = file.chain[s][i]
             \/ /\ i = Len(file.chain[s]) + 1 /\ file.current[s] # NoBlock
                /\ BlocksOf(s)[i] = file.current[s]
          /\ \/ /\ j \in DOMAIN file.chain[t] /\ BlocksOf(t)[j] = file.chain[t][j]
             \/ /\ j = Len(file.chain[t]) + 1 /\ file.current[t] # NoBlock
                /\ BlocksOf(t)[j] = file.current[t]
      BY <1>1, BlocksAre
    <3>2. /\ \A p \in DOMAIN file.chain[s], r \in DOMAIN file.chain[t] :
                file.chain[s][p] = file.chain[t][r] => s = t /\ p = r
          /\ \A p \in DOMAIN file.chain[s] : file.chain[s][p] # file.current[t]
          /\ \A p \in DOMAIN file.chain[t] : file.chain[t][p] # file.current[s]
          /\ file.current[s] = file.current[t] /\ file.current[s] # NoBlock => s = t
      BY <1>1 DEF OwnInv
    <3>. QED BY <2>1, <3>1, <3>2
  <2>2. \A s, t \in Streams : s # t => ToSet(BlocksOf(s)) \cap ToSet(BlocksOf(t)) = {}
    BY <2>1 DEF ToSet
  <2>3. \A s \in Streams : IsInjective(BlocksOf(s))
    BY <2>1 DEF IsInjective
  <2>4. \A s \in Streams : ToSet(BlocksOf(s)) \subseteq Blocks
    BY <1>1, BlocksAre DEF ToSet
  <2>5. \A b \in Free : file.frames[b] = <<>>
    BY <1>1, FreeBlocks
  <2>. QED BY <2>2, <2>3, <2>4, <2>5 DEF BlocksAccounted
<1>2. ASSUME FormInv, TallyInv PROVE tally \in [Verdicts -> 0 .. Len(matrix)]
  <2>1. Len(matrix) \in Nat /\ DOMAIN matrix = 1 .. Len(matrix)
    BY <1>2, MatrixIsAList
  <2>2. IsFiniteSet(1 .. Len(matrix)) /\ Cardinality(1 .. Len(matrix)) = Len(matrix)
    <3>1. IsFiniteSet(1 .. Len(matrix)) /\ Cardinality(1 .. Len(matrix))
            = IF 1 > Len(matrix) THEN 0 ELSE Len(matrix) - 1 + 1
      BY <2>1, FS_Interval
    <3>. QED BY <2>1, <3>1
  <2>3. \A v \in Verdicts : tally[v] \in 0 .. Len(matrix)
    <3>. TAKE v \in Verdicts
    <3>1. Given(v) \subseteq 1 .. Len(matrix)
      BY <2>1 DEF Given
    <3>2. /\ IsFiniteSet(Given(v)) /\ Cardinality(Given(v)) <= Cardinality(1 .. Len(matrix))
      BY <2>2, <3>1, FS_Subset
    <3>3. Cardinality(Given(v)) \in Nat
      BY <3>2, FS_CardinalityType
    <3>4. tally[v] = Cardinality(Given(v))
      BY <1>2 DEF TallyInv
    <3>. QED BY <2>1, <2>2, <3>2, <3>3, <3>4
  <2>. QED BY <1>2, <2>3 DEF FormInv
<1>3. ScriptInv /\ FileInv /\ WorkInv => TypeOK
  <2>. SUFFICES ASSUME ScriptInv, FileInv, WorkInv PROVE TypeOK
    OBVIOUS
  <2>1. FormInv /\ TallyInv /\ FileForm /\ OwnInv /\ covered \in Nat
    BY DEF ScriptInv, FileInv, WorkInv
  <2>2. BlocksAccounted /\ tally \in [Verdicts -> 0 .. Len(matrix)]
    BY <1>1, <1>2, <2>1
  <2>3. Verdicts = {"passed", "skipped", "failed"}
        /\ {"none"} \cup Verdicts = {"none", "passed", "skipped", "failed"}
        /\ CallPlaces = {"idle", "write", "finalize", "threw"}
    BY DEF Verdicts, CallPlaces
  <2>. QED BY <2>1, <2>2, <2>3 DEF TypeOK, FormInv, Outcomes
<1>. QED BY <1>3, ScriptInvariantHolds, FileInvariantHolds, WorkInvariantHolds, PTL

------------------------------------------------------------------------------
(* Iterators *)

\* An iterator that has found something points at it; and at what was sought.
CursorInv ==
    cursor # NoCursor =>
        /\ phase \in {"seek", "threads", "teardown"}
        /\ ~Command.reclaim =>
             /\ cursor[1] \in Blocks /\ cursor[2] \in DOMAIN file.frames[cursor[1]]
             /\ file.frames[cursor[1]][cursor[2]] = cursor[3]
             /\ sought # 0 => cursor[3] = sought

\* The first of some places.
LEMMA EarliestIsFirst ==
    ASSUME NEW places, \A p \in places : p[3] \in Nat, places # {}
    PROVE  /\ Earliest(places) \in places
           /\ \A q \in places : Earliest(places)[3] <= q[3]
<1>. DEFINE times == {p[3] : p \in places}
<1>1. PICK m \in times : \A k \in times : m <= k
  <2>1. times \in SUBSET Nat /\ times # {}
    OBVIOUS
  <2>. HIDE DEF times
  <2>. QED BY <2>1, LeastNumber
<1>2. \E p \in places : \A q \in places : p[3] <= q[3]
  <2>1. PICK p \in places : p[3] = m
    OBVIOUS
  <2>. QED BY <1>1, <2>1
<1>3. Earliest(places) = CHOOSE p \in places : \A q \in places : p[3] <= q[3]
  BY DEF Earliest
<1>. QED BY <1>2, <1>3, Zenon

\* A place is one of a frame.
LEMMA PlacesHoldFrames ==
    ASSUME FileForm, NEW s \in Streams, NEW p \in Places(s)
    PROVE  /\ p[1] \in Blocks /\ p[2] \in DOMAIN file.frames[p[1]]
           /\ file.frames[p[1]][p[2]] = p[3] /\ p[3] \in Nat
<1>1. PICK q \in ToSet(BlocksOf(s)) \X (1 .. FramesPerBlock(file.size, FrameSize)) :
        /\ q[2] <= Len(file.frames[q[1]])
        /\ p = <<q[1], q[2], file.frames[q[1]][q[2]]>>
  BY DEF Places
<1>2. q[1] \in Blocks
  BY <1>1, BlocksAre DEF ToSet
<1>3. file.frames[q[1]] \in Seq(Nat) /\ Len(file.frames[q[1]]) \in Nat
  BY <1>2, FileParts
<1>4. q[2] \in DOMAIN file.frames[q[1]] /\ file.frames[q[1]][q[2]] \in Nat
  <2>. DEFINE f == file.frames[q[1]]
              i == q[2]
  <2>1. f \in Seq(Nat) /\ Len(f) \in Nat /\ i \in Int /\ 1 <= i /\ i <= Len(f)
    BY <1>1, <1>3
  <2>. HIDE DEF f, i
  <2>2. i \in DOMAIN f /\ f[i] \in Nat
    BY <2>1
  <2>. QED BY <2>2 DEF f, i
<1>5. p[1] = q[1] /\ p[2] = q[2] /\ p[3] = file.frames[q[1]][q[2]]
  BY <1>1
<1>. QED BY <1>2, <1>4, <1>5

\* A stream's blocks are places of its frames.
LEMMA BlocksHavePlaces ==
    ASSUME FileForm, NEW s \in Streams, NEW b,
           \/ \E i \in DOMAIN file.chain[s] : file.chain[s][i] = b
           \/ file.current[s] = b /\ b # NoBlock,
           PerBlock \in Nat,
           NEW j \in 1 .. PerBlock, j <= Len(file.frames[b])
    PROVE  \E p \in Places(s) : p[3] = file.frames[b][j]
<1>. DEFINE q == file.chain[s]
            n == Len(q)
            c == file.current[s]
<1>1. /\ q \in Seq(Blocks) /\ n \in Nat /\ DOMAIN q = 1 .. n
      /\ c \in Blocks \cup {NoBlock} /\ NoBlock \notin Blocks
  BY FileParts
<1>2. b \in ToSet(BlocksOf(s))
  <2>1. CASE c = NoBlock
    <3>1. BlocksOf(s) = q
      BY <1>1, <2>1, ConcatEmptySeq DEF BlocksOf
    <3>. QED BY <2>1, <3>1 DEF ToSet
  <2>2. CASE c # NoBlock
    <3>1. BlocksOf(s) = Append(q, c) /\ c \in Blocks
      BY <1>1, <2>2, AppendIsConcat DEF BlocksOf
    <3>2. (\E i \in DOMAIN q : q[i] = b) \/ b = c
      OBVIOUS
    <3>. HIDE DEF q, c
    <3>3. /\ DOMAIN Append(q, c) = 1 .. n + 1
          /\ \A i \in 1 .. n : Append(q, c)[i] = q[i]
          /\ Append(q, c)[n + 1] = c
      BY <1>1, <3>1, AppendProperties, LenProperties
    <3>4. \A i \in 1 .. n : i \in 1 .. n + 1
      BY <1>1
    <3>5. n + 1 \in 1 .. n + 1
      BY <1>1
    <3>6. \E i \in DOMAIN Append(q, c) : Append(q, c)[i] = b
      <4>1. CASE b = c
        BY <3>3, <3>5, <4>1
      <4>2. CASE \E i \in DOMAIN q : q[i] = b
        BY <1>1, <3>3, <3>4, <4>2
      <4>. QED BY <3>2, <4>1, <4>2
    <3>. QED BY <3>1, <3>6 DEF ToSet
  <2>. QED BY <2>1, <2>2
<1>. DEFINE place == <<b, j>>
<1>3. place \in {x \in ToSet(BlocksOf(s)) \X (1 .. FramesPerBlock(file.size, FrameSize)) :
                   x[2] <= Len(file.frames[x[1]])}
  BY <1>2 DEF PerBlock
<1>4. <<place[1], place[2], file.frames[place[1]][place[2]]>> \in Places(s)
  BY <1>3, Zenon DEF Places
<1>5. <<place[1], place[2], file.frames[place[1]][place[2]]>>[3] = file.frames[b][j]
  OBVIOUS
<1>. QED BY <1>4, <1>5

\* Every frame that a stream has left is at some place.
LEMMA EveryFrameHasAPlace ==
    ASSUME FileForm, FillInv, NEW s \in Streams, gone[s] = <<>>, NEW ts \in 1 .. Kept(s)
    PROVE  \E p \in Places(s) : p[3] = ts
<1>. DEFINE n == Len(file.chain[s])
            c == file.current[s]
            F == PerBlock
<1>1. /\ Kept(s) \in Nat /\ n \in Nat /\ DOMAIN file.chain[s] = 1 .. n
      /\ \A i \in 1 .. n : file.chain[s][i] \in Blocks
      /\ c \in Blocks \cup {NoBlock} /\ NoBlock \notin Blocks
      /\ Blocks # {} => F \in Nat
      /\ \A b \in Blocks : Len(file.frames[b]) \in Nat
      /\ Len(gone[s]) = 0
  BY FileParts, ContentIsARun
<1>2. Kept(s) = n * F + (IF c = NoBlock THEN 0 ELSE Len(file.frames[c]))
  BY DEF Kept
<1>3. F \in Nat
  <2>1. FrameSize \in Nat /\ file.size \in Nat
    BY BenchAssumption, FileParts
  <2>2. F \in Int
    BY <2>1 DEF PerBlock, FramesPerBlock
  <2>3. CASE Blocks # {}
    BY <1>1, <2>3
  <2>4. CASE Blocks = {}
    <3>1. n = 0 /\ c = NoBlock
      <4>1. c = NoBlock
        BY <1>1, <2>4
      <4>2. n # 0 => 1 \in 1 .. n
        BY <1>1
      <4>. QED BY <1>1, <2>4, <4>1, <4>2
    <3>2. \A x \in Int : 0 * x + 0 = 0
      OBVIOUS
    <3>3. Kept(s) = 0
      BY <1>2, <2>2, <3>1, <3>2
    <3>. QED BY <3>3
  <2>. QED BY <2>3, <2>4
<1>4. CASE ts <= n * F
  <2>1. ts \in Nat \ {0} /\ F # 0
    <3>1. ts \in Nat \ {0}
      BY <1>1
    <3>2. F = 0 => n * F = 0
      BY <1>1
    <3>. QED BY <1>4, <3>1, <3>2
  <2>. DEFINE i == (ts - 1) \div F + 1
              j == ((ts - 1) % F) + 1
  <2>2. /\ i \in Nat \ {0} /\ j \in 1 .. F /\ ts = (i - 1) * F + j
    <3>1. \A m \in Nat, d \in Nat \ {0} :
            /\ m \div d \in Nat /\ m % d \in 0 .. d - 1
            /\ m = (m \div d) * d + (m % d)
      OBVIOUS
    <3>. DEFINE m == ts - 1
                q == m \div F
                r == m % F
    <3>2. m \in Nat /\ F \in Nat \ {0} /\ ts = m + 1
      BY <1>3, <2>1
    <3>. HIDE DEF m
    <3>3. q \in Nat /\ r \in 0 .. F - 1 /\ m = q * F + r
      BY <3>1, <3>2
    <3>4. i = q + 1 /\ j = r + 1
      BY DEF m
    <3>. HIDE DEF q, r, i, j, F
    <3>5. (i - 1) * F = q * F /\ q * F \in Nat
      BY <3>2, <3>3, <3>4
    <3>. QED BY <3>2, <3>3, <3>4, <3>5
  <2>. HIDE DEF i, j
  <2>3. i <= n
    <3>. HIDE DEF n, F
    <3>1. SUFFICES ASSUME i >= n + 1 PROVE FALSE
      BY <1>1, <2>2
    <3>2. (i - 1 - n) * F \in Nat /\ (i - 1) * F = n * F + (i - 1 - n) * F
          /\ n * F \in Nat /\ (i - 1) * F \in Nat
      BY <1>1, <1>3, <2>2, <3>1
    <3>. QED BY <1>4, <2>2, <3>2
  <2>. DEFINE b == file.chain[s][i]
  <2>4. i \in DOMAIN file.chain[s] /\ b \in Blocks
    BY <1>1, <2>2, <2>3
  <2>5. file.frames[b] = Run(Before(0, i, F), F)
    BY <1>1, <2>4 DEF FillInv
  <2>6. file.frames[b][j] = ts /\ Len(file.frames[b]) = F
    <3>. HIDE DEF F, b
    <3>1. Before(0, i, F) = (i - 1) * F /\ (i - 1) * F \in Nat
      BY <1>3, <2>2 DEF Before
    <3>2. Run(Before(0, i, F), F)[j] = Before(0, i, F) + j
      BY <2>2 DEF Run
    <3>3. Len(Run(Before(0, i, F), F)) = F
      BY <1>3, <3>1, Runs
    <3>. QED BY <2>2, <2>5, <3>1, <3>2, <3>3
  <2>7. j <= Len(file.frames[b])
    BY <1>3, <2>2, <2>6
  <2>. HIDE DEF b
  <2>8. \E p \in Places(s) : p[3] = file.frames[b][j]
    BY <1>3, <2>2, <2>4, <2>7, BlocksHavePlaces DEF b
  <2>. QED BY <2>6, <2>8
<1>5. CASE ~(ts <= n * F)
  <2>1. n * F \in Nat /\ ts \in Nat /\ ts <= Kept(s)
    <3>. HIDE DEF n, F
    <3>. QED BY <1>1, <1>3, Products
  <2>2. c # NoBlock
    BY <1>2, <1>5, <2>1
  <2>. DEFINE last == Len(file.frames[c])
              j == ts - n * F
  <2>3. /\ c \in Blocks /\ last \in Nat /\ last <= F
        /\ file.frames[c] = Run(Before(0, n + 1, F), last)
        /\ Before(0, n + 1, F) = 0 + n * F
    BY <1>1, <2>2, ContentIsARun DEF FillInv
  <2>. HIDE DEF n, F, last
  <2>4. j \in 1 .. last /\ j \in 1 .. F
    <3>. DEFINE p == n * F
    <3>1. Kept(s) = p + last
      BY <1>2, <2>2 DEF last, n, F
    <3>2. p \in Nat /\ j = ts - p /\ ~(ts <= p)
      BY <1>5, <2>1
    <3>. HIDE DEF p, j
    <3>. QED BY <1>3, <2>1, <2>3, <3>1, <3>2
  <2>5. file.frames[c][j] = ts
    <3>1. Run(Before(0, n + 1, F), last)[j] = Before(0, n + 1, F) + j
      BY <2>4 DEF Run
    <3>. QED BY <2>1, <2>3, <3>1
  <2>6. j <= Len(file.frames[c])
    BY <2>3, <2>4 DEF last
  <2>. HIDE DEF j
  <2>7. \E p \in Places(s) : p[3] = file.frames[c][j]
    BY <1>3, <2>2, <2>4, <2>6, BlocksHavePlaces DEF F
  <2>. QED BY <2>5, <2>7
<1>. QED BY <1>4, <1>5

\* A frame that is sought is found, when all of the prefill is there.
LEMMA SeekFinds ==
    ASSUME FileInv, LifeInv, ContentInv, WorkInv, ~Command.reclaim,
           \/ phase = "seek" /\ Command.workload = "random_seek"
           \/ phase = "threads" /\ Command.workload = "concurrent_readers",
           NEW ts \in Targets, Seek(Stream0, ts)
    PROVE  cursor' \in Places(Stream0) /\ cursor'[3] = ts
<1>1. FileForm /\ FillInv /\ Stream0 \in Streams /\ Prefill \in Nat
  BY BenchAssumption DEF FileInv
<1>2. gone[Stream0] = <<>>
  BY <1>1 DEF LifeInv
<1>3. Written(Stream0) >= Prefill
  <2>1. CASE phase = "seek" /\ Command.workload = "random_seek"
    <3>1. Written(Stream0) = FramesToWrite
      BY <2>1 DEF WorkInv, WritingDone
    <3>. QED BY <1>1, <2>1, <3>1 DEF FramesToWrite, Prefilling
  <2>2. CASE phase = "threads" /\ Command.workload = "concurrent_readers"
    BY <2>2 DEF WorkInv
  <2>. QED BY <2>1, <2>2
<1>4. Kept(Stream0) \in Nat /\ Kept(Stream0) >= Prefill
  <2>1. Len(gone[Stream0]) = 0
    BY <1>2
  <2>2. /\ Kept(Stream0) \in Nat
        /\ Written(Stream0) = Len(gone[Stream0]) + Kept(Stream0)
    BY <1>1 DEF ContentInv
  <2>. QED BY <1>3, <2>1, <2>2
<1>5. ts \in 1 .. Kept(Stream0) /\ ts \in Nat
  BY <1>1, <1>4 DEF Targets
<1>6. PICK p \in Places(Stream0) : p[3] = ts
  BY <1>1, <1>2, <1>5, EveryFrameHasAPlace
<1>. DEFINE later == {q \in Places(Stream0) : q[3] >= ts}
<1>7. p \in later /\ \A q \in later : q[3] \in Nat /\ q[3] >= ts
  BY <1>1, <1>5, <1>6, PlacesHoldFrames
<1>8. cursor' = Earliest(later)
  BY DEF Seek
<1>. HIDE DEF later
<1>9. Earliest(later) \in later /\ \A q \in later : Earliest(later)[3] <= q[3]
  BY <1>7, EarliestIsFirst
<1>10. Earliest(later)[3] <= ts /\ Earliest(later)[3] >= ts /\ Earliest(later)[3] \in Nat
  BY <1>6, <1>7, <1>9
<1>11. Earliest(later)[3] = ts
  BY <1>5, <1>10
<1>. QED BY <1>8, <1>9, <1>11 DEF later

\* The next frame is one of the stream's.
LEMMA AdvanceFinds ==
    ASSUME FileForm, NEW s \in Streams, Advance(s), cursor' # NoCursor
    PROVE  cursor' \in Places(s)
<1>. DEFINE later == {q \in Places(s) : q[3] > cursor[3]}
<1>1. \A q \in later : q[3] \in Nat
  BY PlacesHoldFrames
<1>2. cursor' = Earliest(later)
  BY DEF Advance
<1>. HIDE DEF later
<1>3. later # {}
  BY <1>2 DEF Earliest
<1>4. Earliest(later) \in later
  BY <1>1, <1>3, EarliestIsFirst
<1>. QED BY <1>2, <1>4 DEF later

\* What the blocks hold stays, as long as none is used again.
LEMMA FramesStay ==
    ASSUME FileInv, NEW s \in Streams,
           FlushBlock(s) \/ FinalizeBlock(s) \/ TakeFreeBlock(s) \/ AppendFrame(s),
           NEW b \in Blocks, NEW i \in DOMAIN file.frames[b]
    PROVE  b \in Blocks' /\ i \in DOMAIN file'.frames[b] /\ file'.frames[b][i] = file.frames[b][i]
<1>1. /\ file \in Files(Blocks) /\ file.frames \in [Blocks -> Seq(Nat)] /\ FileForm
  BY FileParts DEF FileInv, FileForm
<1>2. CASE FlushBlock(s) \/ FinalizeBlock(s) \/ TakeFreeBlock(s)
  <2>1. file'.frames = file.frames
    BY <1>1, <1>2 DEF FlushBlock, FinalizeBlock, TakeFreeBlock, Files
  <2>. QED BY <2>1 DEF Blocks
<1>3. CASE AppendFrame(s)
  <2>. DEFINE c == file.current[s]
              new == Append(file.frames[c], Written(s) + 1)
  <2>1. c # NoBlock /\ file' = [file EXCEPT !.frames[c] = new]
    BY <1>3 DEF AppendFrame
  <2>2. c \in Blocks /\ file.frames[c] \in Seq(Nat)
    BY <1>1, <2>1, FileParts
  <2>3. file'.frames = [file.frames EXCEPT ![c] = new]
    BY <1>1, <2>1 DEF Files
  <2>4. Blocks' = Blocks
    BY <2>3 DEF Blocks
  <2>5. CASE b # c
    BY <1>1, <2>2, <2>3, <2>4, <2>5
  <2>6. CASE b = c
    <3>1. \A q \in Seq(Nat) : \A e : \A j \in DOMAIN q :
            j \in DOMAIN Append(q, e) /\ Append(q, e)[j] = q[j]
      OBVIOUS
    <3>2. file'.frames[b] = new
      BY <1>1, <2>2, <2>3, <2>6
    <3>3. i \in DOMAIN file.frames[c]
      BY <2>6
    <3>4. i \in DOMAIN new /\ new[i] = file.frames[c][i]
      BY <2>2, <3>1, <3>3
    <3>. QED BY <2>4, <2>6, <3>2, <3>4
  <2>. QED BY <2>5, <2>6
<1>. QED BY <1>2, <1>3

LEMMA CursorGoesOn ==
    ASSUME ScriptInv, FileInv, LifeInv, ContentInv, WorkInv, CursorInv, [Next]_vars
    PROVE  CursorInv'
<1>0. FormInv /\ CallsInv /\ FileForm /\ Stream0 \in Streams
  BY BenchAssumption DEF ScriptInv, FileInv
\* Steps that leave the iterator and the frames.
<1>1. ASSUME UNCHANGED <<cursor, file, sought, matrix, at>>,
             \/ cursor = NoCursor
             \/ phase' = phase
             \/ phase \in {"seek", "threads"} /\ phase' = "teardown"
      PROVE  CursorInv'
  BY <1>1 DEF CursorInv, Command, Blocks
<1>2. ASSUME cursor' = NoCursor PROVE CursorInv'
  BY <1>2 DEF CursorInv
\* Steps that give it a place, or none.
<1>3. ASSUME UNCHANGED <<file, matrix, at, phase>>, phase \in {"seek", "threads"},
             ~Command.reclaim /\ cursor' # NoCursor =>
                 cursor' \in Places(Stream0) /\ (sought' # 0 => cursor'[3] = sought')
      PROVE  CursorInv'
  BY <1>0, <1>3, PlacesHoldFrames DEF CursorInv, Command, Blocks
<1>4. ASSUME NEW s \in Streams, WriteStep(s), UNCHANGED process PROVE CursorInv'
  <2>1. UNCHANGED <<matrix, at, phase, cursor, sought>>
    BY <1>0, <1>4, WriteStepIsModest DEF process
  <2>2. CASE Command.reclaim \/ cursor = NoCursor
    BY <2>1, <2>2 DEF CursorInv, Command
  <2>3. CASE ~Command.reclaim /\ cursor # NoCursor
    <3>1. ~RecycleBlock(s)
      BY <2>3 DEF RecycleBlock, LifeInv
    <3>2. /\ cursor[1] \in Blocks' /\ cursor[2] \in DOMAIN file'.frames[cursor[1]]
          /\ file'.frames[cursor[1]][cursor[2]] = file.frames[cursor[1]][cursor[2]]
      BY <1>4, <2>3, <3>1, FramesStay DEF CursorInv, WriteStep
    <3>. QED BY <2>1, <2>3, <3>2 DEF CursorInv, Command
  <2>. QED BY <2>2, <2>3
<1>5. CASE QuietStep
  <2>1. CASE NextWrite
    BY <1>1, <2>1 DEF NextWrite, GetContext, process
  <2>2. CASE WriteReturns
    <3>1. phase = "write" /\ cursor' = cursor
      BY <2>2 DEF WriteReturns, AppendFrame
    <3>. QED BY <1>2, <3>1 DEF CursorInv
  <2>3. CASE NextSeek
    <3>1. /\ sought' \in Targets /\ Seek(Stream0, sought') /\ phase = "seek"
          /\ UNCHANGED <<file, matrix, at, phase>>
      BY <2>3 DEF NextSeek
    <3>2. Command.workload = "random_seek"
      BY <1>0, <3>1 DEF CallsInv
    <3>3. ~Command.reclaim => cursor' \in Places(Stream0) /\ cursor'[3] = sought'
      BY <3>1, <3>2, SeekFinds
    <3>. QED BY <1>3, <3>1, <3>3
  <2>4. ASSUME NEW s \in Streams, ThreadStep(s) PROVE CursorInv'
    <3>1. CASE ThreadWrites(s)
      BY <1>1, <3>1 DEF ThreadWrites, GetContext, process
    <3>2. CASE ThreadWriteReturns(s)
      BY <1>4, <3>2 DEF ThreadWriteReturns, WriteStep
    <3>3. CASE CallGoesOn(s)
      <4>1. CASE PoolExhausted(s)
        BY <1>1, <3>3, <4>1 DEF CallGoesOn, PoolExhausted, process
      <4>. QED BY <1>4, <3>3, <4>1 DEF CallGoesOn, AdvanceWrite, WriteStep
    <3>4. CASE CallThrows(s)
      BY <1>1, <3>4 DEF CallThrows, process
    <3>. QED BY <2>4, <3>1, <3>2, <3>3, <3>4 DEF ThreadStep
  <2>5. CASE ReaderFinds
    <3>1. /\ sought' \in Targets /\ Seek(Stream0, sought') /\ phase = "threads"
          /\ Command.workload = "concurrent_readers"
          /\ UNCHANGED <<file, matrix, at, phase>>
      BY <2>5 DEF ReaderFinds
    <3>2. ~Command.reclaim => cursor' \in Places(Stream0) /\ cursor'[3] = sought'
      BY <3>1, SeekFinds
    <3>. QED BY <1>3, <3>1, <3>2
  <2>6. CASE ReaderAdvances
    <3>1. /\ Advance(Stream0) /\ sought' = 0 /\ phase = "threads"
          /\ UNCHANGED <<file, matrix, at, phase>>
      BY <2>6 DEF ReaderAdvances
    <3>2. cursor' # NoCursor => cursor' \in Places(Stream0)
      BY <1>0, <3>1, AdvanceFinds
    <3>. QED BY <1>3, <3>1, <3>2
  <2>. QED BY <1>5, <2>1, <2>2, <2>3, <2>4, <2>5, <2>6 DEF QuietStep, ReaderStep
<1>6. CASE Create \/ SetUp \/ SetUpFails \/ FinalSync \/ WriteResult \/ Clean \/ Judge \/ Again
  <2>1. phase \notin {"seek", "threads", "teardown"} /\ cursor' = cursor
    BY <1>6 DEF Create, SetUp, Setup, SetUpFails, FinalSync, WriteResult, Clean, Judge, Again,
                nanots
  <2>. QED BY <1>2, <2>1 DEF CursorInv
<1>7. CASE SeeksEnd \/ ThreadsEnd
  BY <1>1, <1>7 DEF SeeksEnd, ThreadsEnd, nanots, process
<1>8. CASE RunThrows
  <2>1. cursor = NoCursor \/ phase = "seek"
    BY <1>8 DEF RunThrows, CursorInv
  <2>. QED BY <1>1, <1>8, <2>1 DEF RunThrows, nanots
<1>9. CASE TearDown \/ ProgramDies \/ Blackout
  BY <1>2, <1>9 DEF TearDown, ProgramDies, Die, Release, Blackout, MachineDies, PowerLoss
<1>10. CASE Over \/ UNCHANGED vars
  BY <1>1, <1>10 DEF Over, vars, nanots, process
<1>. QED BY <1>5, <1>6, <1>7, <1>8, <1>9, <1>10, ProgramSteps DEF Next

\* "recycling would invalidate outstanding iterators" (nanots_backend.cpp:152-153):
\* without it the frame that an iterator has found stays where it is while the stream is
\* written on, and a frame that was sought is the one found; for any sizes and numbers.
THEOREM IteratorsAreUndisturbed == Spec => []IteratorsUndisturbed
<1>1. Init => CursorInv
  BY DEF Init, NoDatabase, CursorInv
<1>2. CursorInv => IteratorsUndisturbed
  BY DEF CursorInv, IteratorsUndisturbed, IteratorsStay
<1>. QED BY <1>1, <1>2, CursorGoesOn, ScriptInvariantHolds, FileInvariantHolds,
            ContentInvariantHolds, WorkInvariantHolds, PTL DEF Spec

------------------------------------------------------------------------------
(* The pool of blocks *)

\* What the layout has to satisfy for a command line with an automatically sized pool:
\* neither the bytes nor the blocks are too many for their types, and a full block is
\* accounted for by the bytes that are expected of its frames.
RoomForFrames(durability) ==
    LET size == BlockSize(durability)
        bytes == NumFrames * FrameSize * SafetyFactor
    IN  size >= MinBlockSize =>
           /\ FramesPerBlock(size, FrameSize) * (FrameSize * SafetyFactor) >= size
           /\ bytes + size - 1 < Word64
           /\ (bytes + size - 1) \div size + SpareBlocks < Word32

PoolsHaveRoom ==
    \A m \in Matrices : \A i \in DOMAIN m :
        m[i].workload = "sustained_write" /\ m[i].blocks = 0 => RoomForFrames(m[i].durability)

\* With frames that are not small, and of which a block takes one, the last condition is
\* met by the factor of the code (nanots_backend.cpp:19).
LEMMA LargeFramesHaveRoom ==
    ASSUME NEW size \in Nat, size >= 16, SafetyFactor >= 4, FrameSize >= 52,
           FramesPerBlock(size, FrameSize) >= 1
    PROVE  FramesPerBlock(size, FrameSize) * (FrameSize * SafetyFactor) >= size
<1>. DEFINE cost == ((21 + FrameSize + 7) \div 8) * 8 + 16
            q == (size - 16) \div cost
            c == FrameSize * SafetyFactor
<1>1. FrameSize \in Nat /\ SafetyFactor \in Nat
  BY BenchAssumption, SizingAssumption
<1>2. cost \in Nat \ {0} /\ cost <= FrameSize + 44
  BY <1>1
<1>3. c \in Nat /\ c >= 4 * FrameSize
  <2>1. \A f \in Nat, x \in Nat : x >= 4 => f * x \in Nat /\ f * x >= 4 * f
    <3>. TAKE f \in Nat, x \in Nat
    <3>. HAVE x >= 4
    <3>1. f * (x - 4) \in Nat /\ f * x = f * (x - 4) + 4 * f
      OBVIOUS
    <3>. QED BY <3>1
  <2>. QED BY <1>1, <2>1
<1>4. FramesPerBlock(size, FrameSize) = q
  BY DEF FramesPerBlock
<1>. HIDE DEF cost, c
<1>5. q \in Nat /\ size - 16 < (q + 1) * cost
  <2>1. \A m \in Nat, b \in Nat \ {0} : m \div b \in Nat /\ m < ((m \div b) + 1) * b
    OBVIOUS
  <2>2. size - 16 \in Nat
    OBVIOUS
  <2>. QED BY <1>2, <2>1, <2>2
<1>. HIDE DEF q
<1>6. q \in Nat /\ q >= 1
  BY <1>4, <1>5
\* A block's 16 bytes and the rest that is too short for a frame cost less than a frame.
<1>7. c >= 2 * cost + 16
  BY <1>1, <1>2, <1>3
<1>8. q * c >= q * (2 * cost + 16) /\ q * (2 * cost + 16) = q * cost + q * cost + 16 * q
  <2>1. \A a \in Nat, x, y \in Nat : x >= y => a * x >= a * y
    <3>. TAKE a \in Nat, x, y \in Nat
    <3>. HAVE x >= y
    <3>1. a * (x - y) \in Nat /\ a * x = a * y + a * (x - y) /\ a * y \in Nat
      OBVIOUS
    <3>. QED BY <3>1
  <2>2. 2 * cost + 16 \in Nat
    BY <1>2
  <2>3. q * (2 * cost + 16) = q * cost + q * cost + 16 * q
    BY <1>2, <1>6
  <2>. QED BY <1>3, <1>6, <1>7, <2>1, <2>2, <2>3
<1>9. q * cost >= cost /\ (q + 1) * cost = q * cost + cost /\ q * cost \in Nat
  <2>1. (q - 1) * cost \in Nat /\ q * cost = (q - 1) * cost + cost
    BY <1>2, <1>6
  <2>. QED BY <1>2, <1>6, <2>1
<1>10. q * c \in Nat
  BY <1>3, <1>6
<1>. QED BY <1>2, <1>4, <1>5, <1>6, <1>8, <1>9, <1>10 DEF c

\* The main thread of sustained_write is the only one, has not yet written all when it
\* writes, and writes into the file that has been laid out for it.
PoolInv ==
    Command.workload = "sustained_write" /\ Command.blocks = 0 =>
        /\ call[Stream0] \in {"write", "finalize"} =>
               phase = "write" /\ Written(Stream0) < NumFrames
        /\ phase = "write" =>
               /\ \A s \in Streams \ {Stream0} : file.chain[s] = <<>> /\ file.current[s] = NoBlock
               /\ file.size = BlockSize(Command.durability) /\ file.size >= MinBlockSize
               /\ Blocks = 1 .. BlocksFor(0, ExpectedBytes(NumFrames, FrameSize), file.size)

\* There is a block whenever one is needed.
LEMMA PoolSuffices ==
    ASSUME PoolsHaveRoom, FormInv, FileInv, ContentInv, PoolInv,
           Command.workload = "sustained_write", Command.blocks = 0, Needy(Stream0)
    PROVE  Free # {}
<1>. DEFINE size == file.size
            bytes == NumFrames * FrameSize * SafetyFactor
            n == BlocksFor(0, bytes, size)
            q == file.chain[Stream0]
            k == Len(q)
            F == PerBlock
            c == FrameSize * SafetyFactor
<1>. SUFFICES ASSUME Free = {} PROVE FALSE
  OBVIOUS
<1>1. /\ Stream0 \in Streams
      /\ FrameSize \in Nat \ {0} /\ NumFrames \in Nat \ {0} /\ SafetyFactor \in Nat \ {0}
      /\ SpareBlocks \in Nat /\ Word64 \in Nat /\ MinBlockSize \in Nat /\ MinBlockSize >= 16
  BY BenchAssumption, SizingAssumption
<1>2. /\ phase = "write" /\ Written(Stream0) < NumFrames /\ file.current[Stream0] = NoBlock
      /\ \A s \in Streams \ {Stream0} : file.chain[s] = <<>> /\ file.current[s] = NoBlock
      /\ size = BlockSize(Command.durability) /\ size >= MinBlockSize
      /\ Blocks = 1 .. BlocksFor(0, ExpectedBytes(NumFrames, FrameSize), size)
  BY DEF Needy, PoolInv
<1>3. FileForm
  BY DEF FileInv
<1>4. size \in Nat /\ size >= 16 /\ size # 0
  BY <1>1, <1>2, <1>3, FileParts
<1>5. RoomForFrames(Command.durability)
  BY DEF PoolsHaveRoom, FormInv, Command
<1>6. /\ F * c >= size /\ bytes + size - 1 < Word64
      /\ (bytes + size - 1) \div size + SpareBlocks < Word32
  BY <1>2, <1>5 DEF RoomForFrames, PerBlock
<1>7. F \in Nat
  BY <1>4, PerBlockIsNat DEF PerBlock
<1>8. c \in Nat \ {0} /\ bytes \in Nat \ {0} /\ bytes = NumFrames * c
  <2>1. \A x, y \in Nat \ {0} : x * y \in Nat \ {0}
    OBVIOUS
  <2>2. c \in Nat \ {0} /\ NumFrames * FrameSize \in Nat \ {0}
    BY <1>1, <2>1
  <2>3. bytes \in Nat \ {0}
    BY <1>1, <2>1, <2>2
  <2>4. \A x, y, z \in Nat : x * y * z = x * (y * z)
    OBVIOUS
  <2>. QED BY <1>1, <2>2, <2>3, <2>4
<1>. HIDE DEF size, c
<1>9. ExpectedBytes(NumFrames, FrameSize) = bytes
  <2>1. ExpectedBytes(NumFrames, FrameSize) = bytes % Word64
    BY DEF ExpectedBytes
  <2>. HIDE DEF bytes
  <2>2. bytes \in Nat /\ bytes < Word64
    BY <1>1, <1>4, <1>6, <1>8
  <2>. QED BY <1>1, <2>1, <2>2, Fits
<1>. HIDE DEF bytes
<1>10. (n - SpareBlocks) * size >= bytes
  BY <1>4, <1>6, <1>8, FileHoldsExpectedBytes
<1>11. n \in Nat
  <2>1. Command.durability \in Nat
    BY MatrixIsAList
  <2>2. BlockSize(Command.durability) >= MinBlockSize
    BY <1>2
  <2>3. \A r \in Nat :
          BlocksFor(r, ExpectedBytes(NumFrames, FrameSize), BlockSize(Command.durability)) \in Nat
    BY <2>1, <2>2, SizesAreNumbers
  <2>4. BlocksFor(0, ExpectedBytes(NumFrames, FrameSize), BlockSize(Command.durability)) \in Nat
    BY <2>3
  <2>. QED BY <1>2, <1>9, <2>4
\* All blocks are finalized ones of the stream.
<1>12. k \in Nat /\ n <= k
  <2>1. q \in Seq(Blocks) /\ k \in Nat /\ DOMAIN q = 1 .. k
    BY <1>1, <1>3, FileParts
  <2>2. Blocks = 1 .. n
    BY <1>2, <1>9 DEF size
  <2>3. ASSUME NEW b \in Blocks PROVE \E i \in 1 .. k : q[i] = b
    <3>1. b \in InUse
      BY DEF Free
    <3>2. b # NoBlock
      BY <1>3, FileParts
    <3>3. PICK s \in Streams : b \in ToSet(file.chain[s]) \/ b = file.current[s]
      BY <3>1 DEF InUse
    <3>4. s = Stream0
      <4>1. ToSet(<<>>) = {}
        BY DEF ToSet
      <4>. QED BY <1>2, <3>2, <3>3, <4>1
    <3>5. b \in ToSet(q)
      BY <1>2, <3>2, <3>3, <3>4
    <3>. QED BY <2>1, <3>5 DEF ToSet
  <2>. HIDE DEF n, k
  <2>4. q \in Surjection(1 .. k, Blocks)
    <3>1. q \in [1 .. k -> Blocks]
      BY <2>1 DEF k
    <3>. QED BY <2>3, <3>1 DEF Surjection
  <2>5. IsFiniteSet(1 .. k) /\ Cardinality(1 .. k) = k /\ Cardinality(Blocks) = n
    <3>1. \A m \in Nat : Cardinality(1 .. m) = m /\ IsFiniteSet(1 .. m)
      <4>. TAKE m \in Nat
      <4>1. IsFiniteSet(1 .. m) /\ Cardinality(1 .. m) = IF 1 > m THEN 0 ELSE m - 1 + 1
        BY FS_Interval
      <4>. QED BY <4>1
    <3>. QED BY <1>11, <2>1, <2>2, <3>1
  <2>6. Cardinality(Blocks) <= Cardinality(1 .. k)
    BY <2>4, <2>5, FS_Surjection
  <2>. QED BY <2>1, <2>5, <2>6
\* So there are as many frames as were to be written.
<1>13. k * F < NumFrames /\ k * F \in Nat
  <2>1. Kept(Stream0) = k * F + 0
    BY <1>2 DEF Kept
  <2>2. Kept(Stream0) \in Nat /\ Len(gone[Stream0]) \in Nat
        /\ Written(Stream0) = Len(gone[Stream0]) + Kept(Stream0)
    BY <1>1 DEF ContentInv
  <2>. HIDE DEF k, F
  <2>3. k * F \in Nat
    BY <1>7, <1>12
  <2>. QED BY <1>1, <1>2, <2>1, <2>2, <2>3
<1>. HIDE DEF n, q, k, F
<1>14. k * size <= (k * F) * c
  <2>1. \A x, y, z \in Nat : y <= z => x * y <= x * z
    <3>. TAKE x, y, z \in Nat
    <3>. HAVE y <= z
    <3>1. x * (z - y) \in Nat /\ x * z = x * y + x * (z - y) /\ x * y \in Nat
      OBVIOUS
    <3>. QED BY <3>1
  <2>2. F * c \in Nat
    BY <1>7, <1>8
  <2>3. k * size <= k * (F * c)
    BY <1>4, <1>6, <1>12, <2>1, <2>2
  <2>4. \A x, y, z \in Nat : x * (y * z) = (x * y) * z
    OBVIOUS
  <2>5. k * (F * c) = (k * F) * c
    BY <1>7, <1>8, <1>12, <2>4
  <2>. QED BY <2>3, <2>5
<1>15. (k * F) * c < NumFrames * c
  <2>1. \A x, y \in Nat, z \in Nat \ {0} : x < y => x * z < y * z
    <3>. TAKE x, y \in Nat, z \in Nat \ {0}
    <3>. HAVE x < y
    <3>1. (y - x) * z \in Nat \ {0} /\ y * z = x * z + (y - x) * z /\ x * z \in Nat
      OBVIOUS
    <3>. QED BY <3>1
  <2>. QED BY <1>1, <1>8, <1>13, <2>1
<1>16. (n - SpareBlocks) * size <= k * size
  <2>1. \A x \in Int, y \in Nat, z \in Nat : x <= y => x * z <= y * z
    <3>. TAKE x \in Int, y \in Nat, z \in Nat
    <3>. HAVE x <= y
    <3>1. (y - x) * z \in Nat /\ y * z = x * z + (y - x) * z /\ x * z \in Int
      OBVIOUS
    <3>. QED BY <3>1
  <2>2. n - SpareBlocks \in Int /\ n - SpareBlocks <= k
    BY <1>1, <1>11, <1>12
  <2>. QED BY <1>4, <1>12, <2>1, <2>2
<1>17. /\ (n - SpareBlocks) * size \in Int /\ k * size \in Int /\ (k * F) * c \in Int
       /\ NumFrames * c \in Int
  BY <1>1, <1>4, <1>7, <1>8, <1>11, <1>12, <1>13
<1>. QED BY <1>8, <1>10, <1>14, <1>15, <1>16, <1>17

\* A call that goes on leaves the blocks of the other streams, unless it takes one.
LEMMA OthersStay ==
    ASSUME FileForm, NEW s \in Streams, WriteStep(s), ~RecycleBlock(s)
    PROVE  /\ Blocks' = Blocks /\ file'.size = file.size
           /\ \A t \in Streams \ {s} : /\ file'.chain[t] = file.chain[t]
                                       /\ file'.current[t] = file.current[t]
<1>1. /\ file \in Files(Blocks) /\ file.frames \in [Blocks -> Seq(Nat)]
      /\ file.chain \in [Streams -> Seq(Blocks)]
      /\ file.current \in [Streams -> Blocks \cup {NoBlock}]
  BY FileParts DEF FileForm
<1>2. CASE FlushBlock(s) \/ FinalizeBlock(s) \/ TakeFreeBlock(s)
  <2>1. file'.frames = file.frames /\ file'.size = file.size
    BY <1>1, <1>2 DEF FlushBlock, FinalizeBlock, TakeFreeBlock, Files
  <2>2. \A t \in Streams \ {s} : file'.chain[t] = file.chain[t] /\ file'.current[t] = file.current[t]
    <3>1. CASE FlushBlock(s)
      BY <1>1, <3>1 DEF FlushBlock, Files
    <3>2. CASE FinalizeBlock(s)
      BY <1>1, <3>2 DEF FinalizeBlock, Files
    <3>3. CASE TakeFreeBlock(s)
      BY <1>1, <3>3 DEF TakeFreeBlock, Files
    <3>. QED BY <1>2, <3>1, <3>2, <3>3
  <2>3. Blocks' = Blocks
    BY <2>1 DEF Blocks
  <2>. QED BY <2>1, <2>2, <2>3
<1>3. CASE AppendFrame(s)
  <2>1. /\ file'.chain = file.chain /\ file'.current = file.current /\ file'.size = file.size
        /\ DOMAIN file'.frames = DOMAIN file.frames
    BY <1>1, <1>3 DEF AppendFrame, Files
  <2>. QED BY <2>1 DEF Blocks
<1>. QED BY <1>2, <1>3 DEF WriteStep

LEMMA PoolGoesOn ==
    ASSUME PoolsHaveRoom, ScriptInv, FileInv, LifeInv, ContentInv, ContentInv', WorkInv, PoolInv,
           [Next]_vars
    PROVE  PoolInv'
<1>0. FormInv /\ CallsInv /\ FileForm /\ Stream0 \in Streams
      /\ call \in [Streams -> CallPlaces]
  BY BenchAssumption DEF ScriptInv, FileInv, FormInv
<1>. DEFINE Sized == Command.workload = "sustained_write" /\ Command.blocks = 0
\* Steps that leave no call under way, outside of the writing.
<1>1. ASSUME call'[Stream0] \notin {"write", "finalize"}, phase' # "write" PROVE PoolInv'
  BY <1>1 DEF PoolInv
\* Steps of the writing.
<1>2. ASSUME UNCHANGED <<file, gone, matrix, at, phase>>, phase = "write",
             call'[Stream0] \in {"write", "finalize"} =>
                 call[Stream0] \in {"write", "finalize"} \/ Written(Stream0) < FramesToWrite
      PROVE  PoolInv'
  <2>1. Written(Stream0)' = Written(Stream0) /\ Blocks' = Blocks /\ Command' = Command
    BY <1>0, <1>2, WrittenStays DEF Blocks, Command
  <2>2. Command.workload = "sustained_write" => FramesToWrite = NumFrames
    BY DEF FramesToWrite, Prefilling
  <2>. QED BY <1>2, <2>1, <2>2 DEF PoolInv
<1>3. ASSUME UNCHANGED <<matrix, at>>, ~Sized PROVE PoolInv'
  BY <1>3 DEF PoolInv, Command
<1>4. ASSUME NEW s \in Streams, WriteStep(s) PROVE PoolInv'
  <2>1. UNCHANGED <<matrix, at, phase>> /\ phase \in {"write", "threads"}
    BY <1>4 DEF WriteStep
  <2>2. CASE ~Sized
    BY <1>3, <2>1, <2>2
  <2>3. CASE Sized
    <3>1. phase = "write"
      BY <2>1, <2>3 DEF WorkInv
    <3>2. call[s] # "idle"
      BY <1>4 DEF WriteStep, FlushBlock, FinalizeBlock, TakeFreeBlock, RecycleBlock, AppendFrame,
                  Needy
    <3>3. s = Stream0
      BY <1>0, <3>1, <3>2 DEF CallsInv
    <3>4. ~RecycleBlock(s)
      BY <1>0, <2>3, <3>3, PoolSuffices DEF RecycleBlock
    <3>5. /\ Blocks' = Blocks /\ file'.size = file.size
          /\ \A t \in Streams \ {s} : /\ file'.chain[t] = file.chain[t]
                                      /\ file'.current[t] = file.current[t]
      BY <1>0, <1>4, <3>4, OthersStay
    <3>6. /\ Written(Stream0)' = Written(Stream0) \/ AppendFrame(s)
      BY <1>0, <1>4, <3>4, WrittenByCall
    <3>7. call'[Stream0] \in {"write", "finalize"} =>
             call[Stream0] \in {"write", "finalize"} /\ ~AppendFrame(s)
      BY <1>0, <1>4, <3>3, <3>4
         DEF WriteStep, FlushBlock, FinalizeBlock, TakeFreeBlock, AppendFrame, Needy, Goto
    <3>8. Command' = Command
      BY <2>1 DEF Command
    <3>9. call'[Stream0] \in {"write", "finalize"} =>
             phase' = "write" /\ Written(Stream0)' < NumFrames
      BY <2>1, <2>3, <3>1, <3>6, <3>7 DEF PoolInv
    <3>10. /\ \A t \in Streams \ {Stream0} :
                 file'.chain[t] = <<>> /\ file'.current[t] = NoBlock
           /\ file'.size = BlockSize(Command.durability) /\ file'.size >= MinBlockSize
           /\ Blocks' = 1 .. BlocksFor(0, ExpectedBytes(NumFrames, FrameSize), file'.size)
      BY <2>3, <3>1, <3>3, <3>5 DEF PoolInv
    <3>. QED BY <3>8, <3>9, <3>10 DEF PoolInv
  <2>. QED BY <2>2, <2>3
<1>5. CASE QuietStep
  <2>1. CASE NextWrite
    BY <1>2, <2>1 DEF NextWrite, GetContext
  <2>2. CASE WriteReturns
    BY <1>0, <1>4, <2>2 DEF WriteReturns, WriteStep
  <2>3. CASE NextSeek \/ ReaderStep
    <3>1. ~Sized /\ UNCHANGED <<matrix, at>>
      BY <1>0, <2>3 DEF NextSeek, ReaderStep, ReaderFinds, ReaderAdvances, CallsInv
    <3>. QED BY <1>3, <3>1
  <2>4. ASSUME NEW s \in Streams, ThreadStep(s) PROVE PoolInv'
    <3>1. CASE ThreadWrites(s) \/ ThreadWriteReturns(s)
      <4>1. ~Sized /\ UNCHANGED <<matrix, at>>
        BY <3>1 DEF ThreadWrites, ThreadWriteReturns, WorkInv
      <4>. QED BY <1>3, <4>1
    <3>2. CASE CallGoesOn(s) /\ ~PoolExhausted(s)
      BY <1>4, <3>2 DEF CallGoesOn, AdvanceWrite, WriteStep
    <3>3. CASE (CallGoesOn(s) /\ PoolExhausted(s)) \/ CallThrows(s)
      <4>1. UNCHANGED <<file, gone, matrix, at, phase>> /\ phase \in {"write", "threads"}
            /\ call' = [call EXCEPT ![s] = "threw"]
        BY <3>3 DEF CallGoesOn, PoolExhausted, CallThrows, Goto
      <4>2. CASE phase = "write"
        BY <1>0, <1>2, <4>1, <4>2
      <4>3. CASE phase = "threads"
        BY <1>3, <4>1, <4>3 DEF WorkInv
      <4>. QED BY <4>1, <4>2, <4>3
    <3>. QED BY <2>4, <3>1, <3>2, <3>3 DEF ThreadStep
  <2>. QED BY <1>5, <2>1, <2>2, <2>3, <2>4 DEF QuietStep
<1>6. CASE SetUp
  <2>1. /\ UNCHANGED <<matrix, at, call>> /\ phase = "setup"
        /\ BlockSize(Command.durability) >= MinBlockSize
        /\ file' = Pristine(BlockSize(Command.durability),
                            BlocksFor(Command.blocks, ExpectedBytes(NumFrames, FrameSize),
                                      BlockSize(Command.durability)))
    BY <1>6 DEF SetUp, Setup, Accepts
  <2>2. call'[Stream0] = "idle"
    BY <1>0, <2>1 DEF CallsInv
  <2>3. /\ file'.size = BlockSize(Command.durability)
        /\ \A t \in Streams : file'.chain[t] = <<>> /\ file'.current[t] = NoBlock
        /\ Blocks' = 1 .. BlocksFor(Command.blocks, ExpectedBytes(NumFrames, FrameSize),
                                    BlockSize(Command.durability))
    BY <2>1 DEF Pristine, Blocks
  <2>4. Command' = Command
    BY <2>1 DEF Command
  <2>. QED BY <2>1, <2>2, <2>3, <2>4 DEF PoolInv
<1>7. CASE \/ Create \/ SetUpFails \/ FinalSync \/ WriteResult \/ Clean \/ Judge \/ Again
  <2>1. call' = call /\ call[Stream0] = "idle" /\ phase' # "write"
    <3>1. CASE Create \/ SetUpFails \/ WriteResult \/ Clean \/ Judge \/ Again
      BY <1>0, <3>1 DEF Create, SetUpFails, WriteResult, Clean, Judge, Again, nanots, CallsInv
    <3>2. CASE FinalSync
      <4>1. Command.workload \in Workloads /\ Command.workload # "multi_stream_write"
        BY <1>0, <3>2, MatrixIsAList DEF FinalSync, CallsInv
      <4>. QED BY <1>0, <3>2, <4>1 DEF FinalSync, nanots, AfterWriting, Workloads
    <3>. QED BY <1>7, <3>1, <3>2
  <2>. QED BY <1>1, <2>1
<1>8. CASE SeeksEnd \/ ThreadsEnd \/ (RunThrows /\ phase = "seek")
  <2>1. ~Sized /\ UNCHANGED <<matrix, at>>
    BY <1>0, <1>8 DEF SeeksEnd, ThreadsEnd, RunThrows, CallsInv, WorkInv
  <2>. QED BY <1>3, <2>1
<1>9. CASE RunThrows /\ phase # "seek"
  <2>1. call'[Stream0] = "threw" /\ phase' = "teardown"
    BY <1>9 DEF RunThrows, nanots
  <2>. QED BY <1>1, <2>1
<1>10. CASE TearDown \/ ProgramDies \/ Blackout
  <2>1. call' = [s \in Streams |-> "idle"] /\ phase' # "write"
    BY <1>10 DEF TearDown, ProgramDies, Die, Release, Blackout, MachineDies, PowerLoss
  <2>2. call'[Stream0] = "idle"
    BY <1>0, <2>1
  <2>. QED BY <1>1, <2>1, <2>2
<1>11. CASE Over \/ UNCHANGED vars
  <2>1. UNCHANGED vars
    BY <1>11 DEF Over
  <2>2. Written(Stream0)' = Written(Stream0)
    BY <1>0, <2>1, WrittenStays DEF vars, nanots
  <2>. QED BY <2>1, <2>2 DEF vars, nanots, PoolInv, Command, Blocks
<1>. QED BY <1>5, <1>6, <1>7, <1>8, <1>9, <1>10, <1>11, ProgramSteps DEF Next

\* "We need enough blocks so the benchmark's data fits without recycling during a run."
\* (nanots_backend.cpp:17-18): a sustained_write with an automatically sized pool finds a
\* block whenever it needs one, whatever block size, frame size and number of frames, if
\* the layout has room for the frames at all.
THEOREM AutoSizedPoolAlwaysSuffices ==
    ASSUME PoolsHaveRoom
    PROVE  Spec => []AutoSizedPoolSuffices
<1>1. Init => PoolInv
  <2>. SUFFICES ASSUME Init PROVE PoolInv
    OBVIOUS
  <2>1. call[Stream0] = "idle" /\ phase = "clean"
    BY BenchAssumption DEF Init, NoDatabase
  <2>. QED BY <2>1 DEF PoolInv
<1>2. FormInv /\ FileInv /\ ContentInv /\ PoolInv => AutoSizedPoolSuffices
  BY PoolSuffices DEF AutoSizedPoolSuffices
<1>3. /\ ScriptInv /\ FileInv /\ LifeInv /\ ContentInv /\ ContentInv' /\ WorkInv /\ PoolInv
      /\ [Next]_vars
      => PoolInv'
  BY PoolGoesOn
<1>. QED BY <1>1, <1>2, <1>3, ScriptInvariantHolds, FileInvariantHolds, ContentInvariantHolds,
            WorkInvariantHolds, PTL DEF Spec, ScriptInv

==============================================================================
