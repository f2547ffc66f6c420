----------------------------- MODULE FrameStore -----------------------------
(***************************************************************************)
(* What a backend promises the workloads: frames are appended to streams,   *)
(* and after a crash a stream is what it was, up to a tail that no          *)
(* sync_boundary has covered before it returned.                            *)
(***************************************************************************)
EXTENDS Integers, Sequences

CONSTANT Streams

VARIABLES
    up,        \* whether the store is "open", has been "closed", or is "off"
    content,   \* per stream the timestamps of its frames
    kept       \* per stream the number of frames no crash may take

store == <<up, content, kept>>

Lengths == [s \in Streams |-> Len(content[s])]

Init ==
    /\ up = "off"
    /\ content = [s \in Streams |-> <<>>]
    /\ kept = [s \in Streams |-> 0]

Open ==
    /\ up # "open"
    /\ up' = "open"
    /\ UNCHANGED <<content, kept>>

\* One frame more, at the end of one stream.
Add ==
    /\ up = "open"
    /\ \E s \in Streams :
         /\ content'[s] # <<>>
         /\ content' = [content EXCEPT ![s] = Append(@, content'[s][Len(content'[s])])]
    /\ UNCHANGED <<up, kept>>

\* sync_boundary returns.
Boundary ==
    /\ up = "open"
    /\ kept' = Lengths
    /\ UNCHANGED <<up, content>>

\* teardown returns.
Close ==
    /\ up = "open"
    /\ up' = "closed"
    /\ kept' = Lengths
    /\ UNCHANGED content

\* The same without the flush: to a crash the store is as it was when open.
CloseUnflushed ==
    /\ up = "open"
    /\ up' = "closed"
    /\ UNCHANGED <<content, kept>>

\* Of an open store or of a closed one.
Crash ==
    /\ up # "off"
    /\ up' = "off"
    /\ DOMAIN content' = Streams
    /\ \A s \in Streams :
         \E n \in kept[s] .. Len(content[s]) : content'[s] = SubSeq(content[s], 1, n)
    /\ UNCHANGED kept

Spec == Init /\ [][Open \/ Add \/ Boundary \/ Close \/ Crash]_store

\* What is left when only sync_boundary keeps anything.
BoundarySpec == Init /\ [][Open \/ Add \/ Boundary \/ CloseUnflushed \/ Crash]_store

\* What no crash may take is there.
NothingKeptIsLost == \A s \in Streams : kept[s] <= Len(content[s])

=============================================================================
