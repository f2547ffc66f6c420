-------------------------------- MODULE RunAll --------------------------------
(***************************************************************************)
(* The script run_all.sh: for each cell of a matrix of backends, workloads  *)
(* and fairness axes, the data directory is made anew, the program is run   *)
(* and its exit status and output file are judged.  The script may be       *)
(* started again, over the output files of an earlier time; only one        *)
(* process runs at a time.                                                  *)
(***************************************************************************)
EXTENDS BenchMain, Functions

CONSTANT MaxRounds   \* bound: how often the script is started

ASSUME RoundsAssumption == MaxRounds \in Nat \ {0}

VARIABLES
    tally,     \* PASSED, SKIPPED and FAILED
    verdicts,  \* history: per cell what was printed in this round
    ran        \* history: per cell how the workload fared in this round

vars == <<nanots, matrix, at, phase, process, files, round, tally, verdicts, ran>>

\* The keys of NEEDS_AUTO_RECLAIM among the workloads modelled.
NeedsAutoReclaim == {"concurrent_readers", "multi_stream_write"}

\* What the script passes to the program for a cell.
Cell(backend, workload, durability) ==
    [backend |-> backend, workload |-> workload, durability |-> durability,
     blocks |-> 0, reclaim |-> workload \in NeedsAutoReclaim]

NoCount == [passed |-> 0, skipped |-> 0, failed |-> 0]

Init ==
    /\ NoDatabase
    /\ matrix \in Matrices
    /\ at = 1 /\ round = 1
    /\ phase = "clean"
    /\ sinceSync = 0 /\ covered = 0 /\ seeks = 0 /\ sought = 0
    /\ error = FALSE /\ failed = FALSE
    /\ files = [i \in DOMAIN matrix |-> [what |-> "none", since |-> 0]]
    /\ tally = NoCount
    /\ verdicts = [i \in DOMAIN matrix |-> "none"]
    /\ ran = [i \in DOMAIN matrix |-> "not"]

script == <<tally, verdicts, ran>>

\* rm -rf, mkdir; the program is started.
Clean ==
    /\ phase = "clean"
    /\ phase' = "create"
    /\ file' = NoFile
    /\ gone' = [s \in Streams |-> <<>>]
    /\ sinceSync' = 0 /\ covered' = 0 /\ seeks' = 0 /\ sought' = 0
    /\ error' = FALSE /\ failed' = FALSE
    /\ UNCHANGED <<writer, contexts, call, cursor, matrix, at, files, round, script>>

Fares(how) == ran' = [ran EXCEPT ![at] = how]

\* A step of the program; whether its run succeeds is known when the workload's
\* run() is left, normally or by an exception, or when it is never reached.
ProgramRuns ==
    /\ MainStep \/ (\E s \in Streams : ThreadStep(s)) \/ ReaderStep
    /\ CASE phase' = "teardown" /\ phase # "teardown" ->
              Fares(IF \/ \E s \in Streams : call[s] = "threw"
                       \/ phase = "seek" /\ seeks < NumFrames
                      THEN "failed" ELSE "succeeded")
         [] phase' = "exited" /\ phase # "result" -> Fares("failed")
         [] OTHER -> UNCHANGED ran
    /\ UNCHANGED <<tally, verdicts>>

\* A plausible slip: a killed process is taken for one that has done its work.
KilledUnseen ==
    /\ Die
    /\ Fares(IF ran[at] = "succeeded" THEN "succeeded" ELSE "failed")
    /\ UNCHANGED <<tally, verdicts>>

\* run() may have ended well before.
ProgramDies ==
    /\ Die
    /\ Fares(IF ran[at] = "succeeded" THEN "killed" ELSE "failed")
    /\ UNCHANGED <<tally, verdicts>>

\* A plausible slip: the file is looked at, the exit status is not.
JudgedByFile ==
    CASE files[at].what = "none"  -> "failed"
      [] files[at].what = "error" -> "skipped"
      [] OTHER                    -> "passed"

\* "SKIPPED" when the file has an error in it.
Judgement ==
    CASE failed \/ files[at].what = "none" -> "failed"
      [] ~failed /\ files[at].what = "error" -> "skipped"
      [] OTHER -> "passed"

Judge ==
    /\ phase = "exited"
    /\ verdicts' = [verdicts EXCEPT ![at] = Judgement]
    /\ tally' = [tally EXCEPT ![Judgement] = @ + 1]
    /\ IF at < Len(matrix)
         THEN at' = at + 1 /\ phase' = "clean"
         ELSE phase' = "summary" /\ UNCHANGED at
    /\ UNCHANGED <<nanots, matrix, process, files, round, ran>>

\* The script is started another time.
Again ==
    /\ phase = "summary" /\ round < MaxRounds
    /\ round' = round + 1
    /\ at' = 1
    /\ phase' = "clean"
    /\ tally' = NoCount
    /\ verdicts' = [i \in DOMAIN matrix |-> "none"]
    /\ ran' = [i \in DOMAIN matrix |-> "not"]
    /\ UNCHANGED <<nanots, matrix, process, files>>

Blackout == MachineDies /\ UNCHANGED script

Finished == phase = "off" \/ (phase = "summary" /\ round = MaxRounds)

Over == Finished /\ UNCHANGED vars

Next == Clean \/ ProgramRuns \/ ProgramDies \/ Judge \/ Again \/ Blackout \/ Over

Spec == Init /\ [][Next]_vars

\* The script and the program go on, the threads too, and sleep_for returns.
Fairness ==
    /\ WF_vars(Clean) /\ WF_vars(Judge) /\ WF_vars(Again)
    /\ WF_vars(MainStep /\ ProgramRuns)
    /\ \A s \in Streams : WF_vars(ThreadStep(s) /\ ProgramRuns)

FairSpec == Spec /\ Fairness

------------------------------------------------------------------------------
(* Properties *)

Phases == {"clean", "create", "setup", "write", "seek", "threads", "teardown", "result",
           "exited", "summary", "off"}

FileHolds == [what : {"none", "error", "result", "part"}, since : 0 .. MaxRounds]

\* Each block of the file is free, or one stream's and in one place.
BlocksAccounted ==
    /\ \A s, t \in Streams : s # t => ToSet(BlocksOf(s)) \cap ToSet(BlocksOf(t)) = {}
    /\ \A s \in Streams : IsInjective(BlocksOf(s)) /\ ToSet(BlocksOf(s)) \subseteq Blocks
    /\ \A b \in Free : file.frames[b] = <<>>

TypeOK ==
    /\ matrix \in Matrices /\ at \in DOMAIN matrix /\ round \in 1 .. MaxRounds
    /\ phase \in Phases
    /\ writer \in {"none", "keeping", "reclaiming"}
    /\ contexts \subseteq Streams
    /\ call \in [Streams -> {"idle", "write", "finalize", "threw"}]
    /\ sinceSync \in Nat /\ covered \in Nat /\ seeks \in 0 .. NumFrames
    /\ sought \in 0 .. Prefill
    /\ error \in BOOLEAN /\ failed \in BOOLEAN
    /\ files \in [DOMAIN matrix -> FileHolds]
    /\ tally \in [{"passed", "skipped", "failed"} -> 0 .. Len(matrix)]
    /\ verdicts \in [DOMAIN matrix -> {"none", "passed", "skipped", "failed"}]
    /\ ran \in [DOMAIN matrix -> {"not", "succeeded", "killed", "failed"}]
    /\ BlocksAccounted

\* "recycle oldest finalized blocks" (nanots_backend.cpp:154): what is left of a
\* stream, with what was recycled, is everything written, in order and without a
\* gap, also after a crash; and without auto_reclaim nothing is recycled.
FramesInOrder ==
    \A s \in Streams :
        LET all == gone[s] \o Content(s)
        IN  /\ all = [i \in DOMAIN all |-> i]
            /\ phase \notin {"clean", "off"} /\ gone[s] # <<>> => Command.reclaim

\* "We need enough blocks so the benchmark's data fits without recycling during a
\* run." (nanots_backend.cpp:17-18): a sustained_write whose frames fit into a block
\* and whose pool has been sized automatically does not run out of blocks.
AutoSizedPoolSuffices ==
    Command.workload = "sustained_write" /\ Command.blocks = 0 /\ Needy(Stream0) => Free # {}

\* The command line that the database is of: while the script is about to remove it,
\* that of the cell before.
LastCommand == IF phase = "clean" THEN matrix[IF at = 1 THEN Len(matrix) ELSE at - 1]
                                  ELSE Command

\* "a crash can lose at most one in-flight block worth of data"
\* (nanots_backend.cpp:6-7): of each stream, less than the larger of 64 KB and
\* durability_bytes.
LossWithinWindow ==
    [][phase' = "off" =>
        \A s \in Streams :
            (Len(Content(s)) - Len(Content(s)')) * FrameSize
                < Max({MinBlockSize, LastCommand.durability})]_vars

\* "recycling would invalidate outstanding iterators" (nanots_backend.cpp:152-153):
\* an iterator's frame stays where the iterator found it, while the stream's writer
\* goes on.
IteratorsStay ==
    cursor # NoCursor =>
        LET b == cursor[1]  i == cursor[2]
        IN  i \in DOMAIN file.frames[b] /\ file.frames[b][i] = cursor[3]

\* They do without recycling, and a frame that was sought is the one found. With it, in
\* a cell that the script passes --nanots-auto-reclaim to (run_all.sh:94), they do not.
IteratorsUndisturbed ==
    ~Command.reclaim =>
        /\ IteratorsStay
        /\ cursor # NoCursor /\ sought # 0 => cursor[3] = sought

\* A run that reports success has done what its figures are about: all frames
\* written and covered by a sync_boundary, and each seek of random_seek, whose
\* result is not looked at (random_seek.cpp:95-96), has found its target.
SuccessIsComplete ==
    phase = "exited" /\ ~failed /\ Command.workload \in {"sustained_write", "random_seek"} =>
        /\ Content(Stream0) = [i \in 1 .. FramesToWrite |-> i]
        /\ covered = FramesToWrite
        /\ Command.workload = "random_seek" => seeks = NumFrames

\* What becomes of a cell without an exit status of 0 (run_all.sh:160): whatever its
\* output file holds, it is not called OK, nor skipped.
NoFailurePasses ==
    \A i \in DOMAIN matrix :
        ran[i] \in {"failed", "killed"} => verdicts[i] \in {"none", "failed"}

\* An output file of this round that holds figures is from a workload that ended well,
\* though its process may have been killed afterwards; one with an error is not.
FilesAreTrue ==
    \A i \in DOMAIN matrix :
        files[i].since = round =>
            /\ files[i].what = "result" => ran[i] \in {"succeeded", "killed"}
            /\ files[i].what = "error" => ran[i] = "failed"

\* "exit $FAILED" (run_all.sh:199): the script's exit status counts every process that
\* failed or was killed, and more only when there is no output file at all.
FailuresAreCounted ==
    phase = "summary" =>
        /\ tally.failed = Cardinality({i \in DOMAIN matrix : ran[i] \in {"failed", "killed"}})
                          + Cardinality({i \in DOMAIN matrix : files[i].what = "none"
                                                             /\ ran[i] = "succeeded"})
        /\ tally.passed + tally.skipped + tally.failed = Len(matrix)

\* A failure anywhere in a process shows in the verdict, in the output file if there is
\* one of this round, and in the script's exit status. (What OK and SKIPPED say of
\* the cells that have not failed is VerdictsAreTrue.)
FailuresAreReported == NoFailurePasses /\ FilesAreTrue /\ FailuresAreCounted

\* "OK -> <file>" (run_all.sh:166): the file that is called OK is one that this run of
\* the cell has written, "so results are fresh" (run_all.sh:134).
PassedIsFresh ==
    \A i \in DOMAIN matrix : verdicts[i] = "passed" => files[i].since = round

\* "OK -> <file>" (run_all.sh:166): the file that is called OK holds figures, whole.
PassedIsWhole ==
    \A i \in DOMAIN matrix : verdicts[i] = "passed" => files[i].what = "result"

\* "SKIPPED (backend not implemented)" (run_all.sh:163).
SkippedIsUnimplemented ==
    \A i \in DOMAIN matrix : verdicts[i] = "skipped" => matrix[i].backend # "nanots"

\* What the script prints of a cell that it does not call FAILED (run_all.sh:160-167)
\* is true of it, whatever the earlier runs have left and the disk has taken.
VerdictsAreTrue == PassedIsFresh /\ PassedIsWhole /\ SkippedIsUnimplemented

\* The script comes to its end, as long as the machine stays up.
ScriptEnds == <>Finished

===============================================================================
