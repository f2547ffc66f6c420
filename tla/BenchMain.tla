------------------------------ MODULE BenchMain ------------------------------
(***************************************************************************)
(* One run of the program with the nanots backend: main() creates backend   *)
(* and workload, sets the backend up, runs the workload, tears the backend  *)
(* down, writes the result and exits.                                       *)
(*                                                                          *)
(* sustained_write and random_seek are modelled whole, and so is the        *)
(* prefill of concurrent_readers.  Of the threads of the other workloads,   *)
(* which have modules of their own, there are here the calls they make.     *)
(* Timestamps count the frames of a stream (the code: 1 ms apart).          *)
(***************************************************************************)
EXTENDS NanotsBackend

CONSTANTS
    Stream0,       \* "stream_0"
    NumFrames,     \* --num-frames
    Prefill,       \* PREFILL_FRAMES of random_seek and concurrent_readers
    MaxFrames,     \* bound: frames per stream that threads write
    Faults,        \* what may go wrong in this instance
    Matrices       \* lists of command lines, of which one is used

FaultKinds == {"setup", "write", "find", "kill", "power", "output"}

Workloads == {"sustained_write", "random_seek", "concurrent_readers", "multi_stream_write"}
Prefilling == {"random_seek", "concurrent_readers"}

\* The options of a command line that make a difference here.
CommandLines == [backend : {"nanots", "unknown"}, workload : Workloads,
                 durability : Nat, blocks : Nat, reclaim : BOOLEAN]

ASSUME BenchAssumption ==
    /\ Stream0 \in Streams
    /\ {NumFrames, Prefill, FrameSize} \subseteq Nat \ {0} /\ MaxFrames \in Nat
    /\ Faults \subseteq FaultKinds
    /\ \A m \in Matrices : m \in Seq(CommandLines) /\ m # <<>>

VARIABLES
    matrix,     \* the command lines of this instance
    at,         \* which of them is running
    phase,      \* where main() stands
    sinceSync,  \* bytes_since_sync
    covered,    \* history: frames in stream_0 when sync_boundary was last called
    seeks,      \* turns of the measuring loop of random_seek
    sought,     \* target_ts of the last seek, 0: none
    error,      \* result.error is not empty
    failed,     \* the exit status is not 0
    files,      \* per command line what its output file holds, and since which round
    round       \* which time the command lines are gone through

process == <<sinceSync, covered, seeks, sought, error, failed>>

Command == matrix[at]

------------------------------------------------------------------------------
(* From the start to the workload *)

\* The registries know the names, or create throws.
Create ==
    /\ phase = "create"
    /\ IF Command.backend = "nanots"
         THEN phase' = "setup" /\ UNCHANGED failed
         ELSE phase' = "exited" /\ failed' = TRUE
    /\ UNCHANGED <<nanots, matrix, at, sinceSync, covered, seeks, sought, error, files, round>>

\* A plausible slip: blocks are always used again.
AlwaysReclaims == TRUE
Reclaims == Command.reclaim

SetUp ==
    /\ phase = "setup"
    /\ Setup(Command.durability, Command.blocks, ExpectedBytes(NumFrames, FrameSize),
             Reclaims)
    /\ phase' = IF Command.workload = "multi_stream_write" THEN "threads" ELSE "write"
    /\ UNCHANGED <<matrix, at, process, files, round>>

\* setup throws, or the division traps: either way there is no result.
SetUpFails ==
    /\ phase = "setup"
    /\ \/ ~Accepts(Command.durability)
       \/ DividesByZero(Command.blocks, BlockSize(Command.durability))
       \/ "setup" \in Faults
    /\ phase' = "exited"
    /\ failed' = TRUE
    /\ UNCHANGED <<nanots, matrix, at, sinceSync, covered, seeks, sought, error, files, round>>

------------------------------------------------------------------------------
(* sustained_write, random_seek and the prefill of concurrent_readers *)

FramesToWrite == IF Command.workload \in Prefilling THEN Prefill ELSE NumFrames

NextWrite ==
    /\ phase = "write"
    /\ Written(Stream0) < FramesToWrite
    /\ GetContext(Stream0)
    /\ UNCHANGED <<matrix, at, phase, process, files, round>>

\* The write returns; its bytes are counted, and the boundary is drawn when due.
\* (With nanots sync_boundary does nothing.)
WriteReturns ==
    /\ phase = "write"
    /\ AppendFrame(Stream0)
    /\ IF sinceSync + FrameSize >= Command.durability
         THEN sinceSync' = 0 /\ covered' = Written(Stream0) + 1
         ELSE sinceSync' = sinceSync + FrameSize /\ UNCHANGED covered
    /\ UNCHANGED <<matrix, at, phase, seeks, sought, error, failed, files, round>>

AfterWriting == CASE Command.workload = "sustained_write"    -> "teardown"
                  [] Command.workload = "random_seek"        -> "seek"
                  [] Command.workload = "concurrent_readers" -> "threads"

\* A plausible slip: the last partial window is forgotten.
CoveredUntilNow == covered
CoveredInTheEnd == IF sinceSync > 0 THEN Written(Stream0) ELSE covered

\* The last partial window is synced.
FinalSync ==
    /\ phase = "write"
    /\ call[Stream0] = "idle" /\ Written(Stream0) = FramesToWrite
    /\ covered' = CoveredInTheEnd
    /\ phase' = AfterWriting
    /\ UNCHANGED <<nanots, matrix, at, sinceSync, seeks, sought, error, failed, files, round>>

Targets == 1 .. Prefill

NextSeek ==
    /\ phase = "seek"
    /\ seeks < NumFrames
    /\ seeks' = seeks + 1
    /\ sought' \in Targets
    /\ Seek(Stream0, sought')
    /\ UNCHANGED <<file, writer, contexts, call, gone, matrix, at, phase, sinceSync, covered,
                   error, failed, files, round>>

SeeksEnd ==
    /\ phase = "seek"
    /\ seeks = NumFrames
    /\ phase' = "teardown"
    /\ UNCHANGED <<nanots, matrix, at, process, files, round>>

\* A call of the main thread throws out of run().
RunThrows ==
    /\ \/ phase = "write" /\ call[Stream0] = "threw"
       \/ phase = "seek" /\ seeks < NumFrames /\ "find" \in Faults
    /\ phase' = "teardown"
    /\ error' = TRUE
    /\ UNCHANGED <<nanots, matrix, at, sinceSync, covered, seeks, sought, failed, files, round>>

------------------------------------------------------------------------------
(* The calls of the workloads with threads *)

ThreadStreams == IF Command.workload = "multi_stream_write" THEN Streams ELSE {Stream0}

ThreadWrites(s) ==
    /\ phase = "threads"
    /\ s \in ThreadStreams
    /\ Written(s) < (IF Command.workload \in Prefilling THEN Prefill ELSE 0) + MaxFrames
    /\ GetContext(s)
    /\ UNCHANGED <<matrix, at, phase, process, files, round>>

ThreadWriteReturns(s) ==
    /\ phase = "threads"
    /\ AppendFrame(s)
    /\ UNCHANGED <<matrix, at, phase, process, files, round>>

\* A call under way, of whichever thread.
CallGoesOn(s) ==
    /\ phase \in {"write", "threads"}
    /\ AdvanceWrite(s)
    /\ UNCHANGED <<matrix, at, phase, process, files, round>>

\* Something fails inside of the library.
CallThrows(s) ==
    /\ phase \in {"write", "threads"}
    /\ "write" \in Faults
    /\ call[s] \in {"write", "finalize"}
    /\ Goto(s, "threw")
    /\ UNCHANGED <<file, writer, contexts, cursor, gone, matrix, at, phase, process, files, round>>

\* A reader looks for a prefilled frame, or takes the next one.
ReaderFinds ==
    /\ phase = "threads" /\ Command.workload = "concurrent_readers"
    /\ sought' \in Targets
    /\ Seek(Stream0, sought')
    /\ UNCHANGED <<file, writer, contexts, call, gone, matrix, at, phase, sinceSync, covered,
                   seeks, error, failed, files, round>>

ReaderAdvances ==
    /\ phase = "threads" /\ Command.workload = "concurrent_readers"
    /\ Advance(Stream0)
    /\ sought' = 0
    /\ UNCHANGED <<file, writer, contexts, call, gone, matrix, at, phase, sinceSync, covered,
                   seeks, error, failed, files, round>>

\* A plausible slip: a thread that has failed is waited for.
AllSucceeded == \A s \in Streams : call[s] = "idle"
AllBack == \A s \in Streams : call[s] \in {"idle", "threw"}

\* The threads have been joined; an exception of one of them is passed on.
ThreadsEnd ==
    /\ phase = "threads"
    /\ AllBack
    /\ error' = (\E s \in Streams : call[s] = "threw")
    /\ phase' = "teardown"
    /\ UNCHANGED <<nanots, matrix, at, sinceSync, covered, seeks, sought, failed, files, round>>

------------------------------------------------------------------------------
(* From the workload to the end *)

TearDown ==
    /\ phase = "teardown"
    /\ Release
    /\ phase' = "result"
    /\ UNCHANGED <<matrix, at, process, files, round>>

\* A plausible slip: the error is not printed.
FiguresOnly == "result"
ResultText == IF error THEN "error" ELSE "result"

Holding(what) == files' = [files EXCEPT ![at] = [what |-> what, since |-> round]]

\* A plausible slip: a failed run exits as if it had succeeded.
AlwaysSucceeds == FALSE
ExitsWithFailure == error

\* The file may fail to open, which leaves an older one as it is, or to take all of
\* the output; the exit status does not tell. A "part" is cut before any error; what
\* is cut after it looks to the script as if it were whole.
WriteResult ==
    /\ phase = "result"
    /\ \/ Holding(ResultText)
       \/ "output" \in Faults /\ (UNCHANGED files \/ Holding("part"))
    /\ failed' = ExitsWithFailure
    /\ phase' = "exited"
    /\ UNCHANGED <<nanots, matrix, at, sinceSync, covered, seeks, sought, error, round>>

\* The process ends without an exit status of its own: a reader's exception, a signal,
\* no memory. If it was about to write the result, the file may be as it was, cut, or
\* complete.
Die ==
    /\ "kill" \in Faults
    /\ phase \in {"setup", "write", "seek", "threads", "teardown", "result"}
    /\ Release
    /\ phase' = "exited"
    /\ failed' = TRUE
    /\ \/ UNCHANGED files
       \/ phase = "result" /\ (Holding("part") \/ Holding(ResultText))
    /\ UNCHANGED <<matrix, at, sinceSync, covered, seeks, sought, error, round>>

\* The machine dies, and everything on it.
MachineDies ==
    /\ "power" \in Faults
    /\ phase # "off"
    /\ PowerLoss
    /\ phase' = "off"
    /\ UNCHANGED <<matrix, at, process, files, round>>

MainStep == \/ Create \/ SetUp \/ SetUpFails \/ NextWrite \/ WriteReturns \/ FinalSync
            \/ NextSeek \/ SeeksEnd \/ RunThrows \/ ThreadsEnd \/ TearDown \/ WriteResult

ThreadStep(s) == ThreadWrites(s) \/ ThreadWriteReturns(s) \/ CallGoesOn(s) \/ CallThrows(s)

ReaderStep == ReaderFinds \/ ReaderAdvances

==============================================================================
