---------------------------- MODULE NanotsBackend ----------------------------
(***************************************************************************)
(* The nanots backend: a file of equal blocks, a write context per stream,  *)
(* and iterators that point into the mapped blocks.                         *)
(*                                                                          *)
(* The nanots library is external; what is modelled of it is what           *)
(* INVESTIGATION.md:58-75 and the comments of the backend say: a frame goes *)
(* into its stream's current block; a full block is flushed, then marked    *)
(* finalized, then a free block is taken or, with auto_reclaim, the oldest  *)
(* finalized block of some stream is used again.  A crash keeps every       *)
(* flushed block and of a stream's current block some first part.           *)
(*                                                                          *)
(* One thread writes each stream. Iterators share nothing, so there is one. *)
(* The file is a record:                                                    *)
(*   size      the block size                                               *)
(*   frames    per block the timestamps in it                               *)
(*   chain     per stream its finalized blocks, oldest first                *)
(*   current   per stream the block that it is filling, or none             *)
(*   flushed   the blocks that are on durable storage                       *)
(***************************************************************************)
EXTENDS BlockSizing, SequencesExt

CONSTANTS
    Streams,     \* the names in use
    FrameSize    \* --frame-size

VARIABLES
    file,       \* data.nts
    writer,     \* _writer: "none", or one that is "keeping" or "reclaiming" blocks
    contexts,   \* _write_contexts
    call,       \* per stream, where the write of its thread stands
    cursor,     \* the iterator: block, index there and timestamp found
    gone        \* history: per stream the frames that were in blocks used again

nanots == <<file, writer, contexts, call, cursor, gone>>

NoBlock == 0
NoCursor == <<NoBlock, 0, 0>>

Pristine(blockSize, blocks) ==
    [size    |-> blockSize,
     frames  |-> [b \in 1 .. blocks |-> <<>>],
     chain   |-> [s \in Streams |-> <<>>],
     current |-> [s \in Streams |-> NoBlock],
     flushed |-> {}]

NoFile == Pristine(0, 0)

Blocks == DOMAIN file.frames
InUse == (UNION {ToSet(file.chain[s]) : s \in Streams})
         \cup ({file.current[s] : s \in Streams} \ {NoBlock})
Free == Blocks \ InUse

\* A stream's blocks in the order of their frames, and those frames.
BlocksOf(s) ==
    file.chain[s] \o (IF file.current[s] = NoBlock THEN <<>> ELSE <<file.current[s]>>)
Content(s) == FlattenSeq([i \in DOMAIN BlocksOf(s) |-> file.frames[BlocksOf(s)[i]]])

Written(s) == Len(gone[s]) + Len(Content(s))

\* There is no database, nor a process that could use it.
NoDatabase ==
    /\ file = NoFile
    /\ writer = "none"
    /\ contexts = {}
    /\ call = [s \in Streams |-> "idle"]
    /\ cursor = NoCursor
    /\ gone = [s \in Streams |-> <<>>]

------------------------------------------------------------------------------
(* setup and teardown *)

\* The library takes no block size below its minimum: allocate throws.
Accepts(durability) == BlockSize(durability) >= MinBlockSize

\* In an empty directory the file is allocated.
Setup(durability, requested, expected, reclaim) ==
    /\ Accepts(durability)
    /\ file' = LET size == BlockSize(durability)
               IN  Pristine(size, BlocksFor(requested, expected, size))
    /\ writer' = IF reclaim THEN "reclaiming" ELSE "keeping"
    /\ UNCHANGED <<contexts, call, cursor, gone>>

\* What the process holds is released; the file stays as it is, with the current
\* blocks as they are. (Whether the library does more with them is not known.)
Release ==
    /\ writer' = "none"
    /\ contexts' = {}
    /\ call' = [s \in Streams |-> "idle"]
    /\ cursor' = NoCursor
    /\ UNCHANGED <<file, gone>>

\* The machine dies. Of a block that has not been flushed some first part is left.
PowerLoss ==
    /\ file # NoFile
    /\ LET torn == InUse \ file.flushed
       IN  \E kept \in [torn -> 0 .. FramesPerBlock(file.size, FrameSize)] :
             /\ \A b \in torn : kept[b] <= Len(file.frames[b])
             /\ file' = [file EXCEPT !.frames = [b \in Blocks |->
                    IF b \in torn THEN SubSeq(@[b], 1, kept[b]) ELSE @[b]]]
    /\ writer' = "none"
    /\ contexts' = {}
    /\ call' = [s \in Streams |-> "idle"]
    /\ cursor' = NoCursor
    /\ UNCHANGED gone

------------------------------------------------------------------------------
(* write *)

Goto(s, step) == call' = [call EXCEPT ![s] = step]

\* get_or_create_context, under _ctx_mu.
GetContext(s) ==
    /\ writer # "none"
    /\ call[s] = "idle"
    /\ contexts' = contexts \cup {s}
    /\ Goto(s, "write")
    /\ UNCHANGED <<file, writer, cursor, gone>>

Full(s) ==
    /\ file.current[s] # NoBlock
    /\ Len(file.frames[file.current[s]]) = FramesPerBlock(file.size, FrameSize)

\* A plausible slip: the flush is left to the operating system.
FlushLater(s) ==
    /\ call[s] = "write" /\ Full(s)
    /\ Goto(s, "finalize")
    /\ UNCHANGED <<file, writer, contexts, cursor, gone>>

\* Writing on into the next block starts with a flush of the full one.
FlushBlock(s) ==
    /\ call[s] = "write" /\ Full(s)
    /\ file' = [file EXCEPT !.flushed = @ \cup {file.current[s]}]
    /\ Goto(s, "finalize")
    /\ UNCHANGED <<writer, contexts, cursor, gone>>

\* A plausible slip: the context keeps its block.
FinalizeAndKeep(s) ==
    /\ call[s] = "finalize"
    /\ file' = [file EXCEPT !.chain[s] = Append(@, file.current[s])]
    /\ Goto(s, "write")
    /\ UNCHANGED <<writer, contexts, cursor, gone>>

FinalizeBlock(s) ==
    /\ call[s] = "finalize"
    /\ file' = [file EXCEPT !.chain[s] = Append(@, file.current[s]),
                            !.current[s] = NoBlock]
    /\ Goto(s, "write")
    /\ UNCHANGED <<writer, contexts, cursor, gone>>

Needy(s) == call[s] = "write" /\ file.current[s] = NoBlock

\* Which of the free ones is taken makes no difference.
TakeFreeBlock(s) ==
    /\ Needy(s) /\ Free # {}
    /\ file' = [file EXCEPT !.current[s] = Min(Free)]
    /\ UNCHANGED <<writer, contexts, call, cursor, gone>>

\* The oldest block of a stream is used again, whoever may be reading it.
Recycle(s, from, i) ==
    LET b == file.chain[from][i]
    IN  /\ file' = [file EXCEPT !.chain[from] = RemoveAt(@, i),
                                !.current[s] = b,
                                !.frames[b] = <<>>,
                                !.flushed = @ \ {b}]
        /\ gone' = [gone EXCEPT ![from] = @ \o file.frames[b]]

\* A plausible slip: the youngest.
RecycleYoungest(s) ==
    /\ Needy(s) /\ Free = {} /\ writer = "reclaiming"
    /\ \E from \in Streams :
         file.chain[from] # <<>> /\ Recycle(s, from, Len(file.chain[from]))
    /\ UNCHANGED <<writer, contexts, call, cursor>>

RecycleBlock(s) ==
    /\ Needy(s) /\ Free = {} /\ writer = "reclaiming"
    /\ \E from \in Streams :
         file.chain[from] # <<>> /\ Recycle(s, from, 1)
    /\ UNCHANGED <<writer, contexts, call, cursor>>

\* No block is to be had.
PoolExhausted(s) ==
    /\ Needy(s) /\ Free = {}
    /\ writer = "keeping" \/ \A t \in Streams : file.chain[t] = <<>>
    /\ Goto(s, "threw")
    /\ UNCHANGED <<file, writer, contexts, cursor, gone>>

\* Timestamps count a stream's frames.
AppendFrame(s) ==
    /\ call[s] = "write" /\ file.current[s] # NoBlock /\ ~Full(s)
    /\ file' = [file EXCEPT !.frames[file.current[s]] = Append(@, Written(s) + 1)]
    /\ Goto(s, "idle")
    /\ UNCHANGED <<writer, contexts, cursor, gone>>

\* A write on its way, up to the frame itself.
AdvanceWrite(s) == \/ FlushBlock(s) \/ FinalizeBlock(s) \/ TakeFreeBlock(s)
                   \/ RecycleBlock(s) \/ PoolExhausted(s)

------------------------------------------------------------------------------
(* Iterators *)

\* The places of a stream's frames, as cursors.
Places(s) == {<<p[1], p[2], file.frames[p[1]][p[2]]>> :
                p \in {q \in ToSet(BlocksOf(s)) \X (1 .. FramesPerBlock(file.size, FrameSize)) :
                         q[2] <= Len(file.frames[q[1]])}}

\* The first of some places, if there is one.
Earliest(places) ==
    IF places = {} THEN NoCursor ELSE CHOOSE p \in places : \A q \in places : p[3] <= q[3]

\* find: to the first frame not older than ts.
Seek(s, ts) == cursor' = Earliest({p \in Places(s) : p[3] >= ts})

\* next, from the frame found.
Advance(s) ==
    /\ cursor # NoCursor
    /\ cursor' = Earliest({p \in Places(s) : p[3] > cursor[3]})

==============================================================================
