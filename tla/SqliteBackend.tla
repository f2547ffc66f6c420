---------------------------- MODULE SqliteBackend ----------------------------
(***************************************************************************)
(* The SQLite backend: one connection for all threads, a transaction that   *)
(* is kept open and exchanged for a new one at every sync_boundary, and a   *)
(* cache of stream ids.                                                     *)
(*                                                                          *)
(* Writers call write and sync_boundary, readers iterate, find and next; a  *)
(* client whose call throws calls no more.  The connection is in serialised *)
(* mode, so a statement is one step.  What SQLite does is external: a       *)
(* statement outside of a transaction commits at once; one that fails may   *)
(* have the connection roll back and leave its transaction, upon which      *)
(* pending reads are aborted.                                               *)
(***************************************************************************)
EXTENDS Integers, Sequences, FiniteSets, FiniteSetsExt, Functions

CONSTANTS
    Writers, Readers,   \* the threads that call the backend
    Own,                \* the stream each of them uses
    Synchronous,        \* PRAGMA synchronous
    Failing,            \* which statements may fail in this instance
    MaxFrames,          \* bound: frames written by each writer
    MaxProcesses        \* bound: runs of the program on one database file

Clients == Writers \cup Readers
Streams == {Own[c] : c \in Clients}
Nobody == "nobody"

Statements == {"row", "frame", "commit", "begin", "cursor"}

ASSUME SqliteAssumption ==
    /\ Writers \cap Readers = {} /\ Nobody \notin Clients /\ IsFiniteSet(Clients)
    /\ Own \in [Clients -> Streams]
    /\ \A v, w \in Writers : Own[v] = Own[w] => v = w
    /\ Synchronous \in {"normal", "full"}
    /\ Failing \subseteq Statements
    /\ MaxFrames \in Nat /\ MaxProcesses \in Nat \ {0}

VARIABLES
    life,      \* the process: "off", then "open" from setup to teardown, "closed"
    runs,      \* processes started
    view,      \* the tables as the connection sees them
    disk,      \* the tables as of the last commit
    flushed,   \* the tables as last flushed to durable storage
    auto,      \* SQLite's autocommit mode: no transaction is open
    inTxn,     \* _in_txn
    cache,     \* _stream_cache, 0: no entry
    writeMu,   \* holder of _write_mu
    cacheMu,   \* holder of _stream_cache_mu
    pc,        \* where each client stands
    sid,       \* the stream id its call works with
    ts,        \* the timestamp a writer writes next
    acked,     \* history: per writer the timestamps whose write returned in this process
    cursor,    \* per reader the timestamp of its current frame, or none
    promised   \* history: per stream the frames there were when sync_boundary or
               \* teardown last returned

tables == <<view, disk, flushed, auto>>
vars == <<life, runs, tables, inTxn, cache, writeMu, cacheMu, pc, sid, ts, acked, cursor, promised>>

NoCursor == 0
Aborted == -1

\* streams maps a name to its id (0: no row); frames maps it to the rows of frames
\* whose writers used that name.
Empty == [streams |-> [s \in Streams |-> 0], frames |-> [s \in Streams |-> <<>>]]

Init ==
    /\ life = "off" /\ runs = 0
    /\ view = Empty /\ disk = Empty /\ flushed = Empty
    /\ auto = TRUE /\ inTxn = FALSE
    /\ cache = [s \in Streams |-> 0]
    /\ writeMu = Nobody /\ cacheMu = Nobody
    /\ pc = [c \in Clients |-> "idle"]
    /\ sid = [c \in Clients |-> 0]
    /\ ts = [w \in Writers |-> 1]
    /\ acked = [w \in Writers |-> {}]
    /\ cursor = [r \in Readers |-> NoCursor]
    /\ promised = [s \in Streams |-> 0]

Lengths(t) == [s \in Streams |-> Len(t.frames[s])]

------------------------------------------------------------------------------
(* The connection *)

\* A commit: with synchronous=full the log is flushed with it.
Store(t) ==
    /\ disk' = t
    /\ flushed' = IF Synchronous = "full" THEN t ELSE flushed

\* A statement that changes the tables to t.
Execute(t) ==
    /\ view' = t
    /\ IF auto THEN Store(t) ELSE UNCHANGED <<disk, flushed>>
    /\ UNCHANGED <<auto, cursor>>

\* Pending reads stop with SQLITE_ABORT_ROLLBACK.
RollBack ==
    /\ view' = disk
    /\ auto' = TRUE
    /\ cursor' = [r \in Readers |-> IF cursor[r] = NoCursor THEN NoCursor ELSE Aborted]
    /\ UNCHANGED <<disk, flushed>>

\* A statement fails; the transaction is undone with it, or goes on.
Fail(kind) ==
    /\ kind \in Failing
    /\ RollBack \/ UNCHANGED <<tables, cursor>>

\* An automatic checkpoint.
Checkpoint ==
    /\ life = "open"
    /\ flushed # disk
    /\ flushed' = disk
    /\ UNCHANGED <<life, runs, view, disk, auto, inTxn, cache, writeMu, cacheMu, pc, sid, ts, acked, cursor, promised>>

------------------------------------------------------------------------------
(* The main thread *)

\* The schema is there or created; then the first transaction is begun.
Setup ==
    /\ life # "open" /\ runs < MaxProcesses
    /\ runs' = runs + 1
    /\ \/ /\ life' = "open"
          /\ auto' = FALSE
          /\ inTxn' = TRUE
       \/ "begin" \in Failing /\ UNCHANGED <<life, auto, inTxn>>
    /\ acked' = [w \in Writers |-> {}]
    /\ UNCHANGED <<view, disk, flushed, cache, writeMu, cacheMu, pc, sid, ts, cursor, promised>>

\* The next process starts with none of the members of this one, and t; closing
\* the connection moves the log into the database.
Exit(state, t) ==
    /\ life' = state
    /\ view' = t /\ disk' = t
    /\ flushed' = IF state = "closed" THEN t ELSE flushed
    /\ auto' = TRUE
    /\ inTxn' = FALSE
    /\ cache' = [s \in Streams |-> 0]
    /\ writeMu' = Nobody /\ cacheMu' = Nobody
    /\ pc' = [c \in Clients |-> "idle"]
    /\ sid' = [c \in Clients |-> 0]
    /\ cursor' = [r \in Readers |-> NoCursor]
    /\ promised' = IF state = "closed" THEN Lengths(view) ELSE promised
    /\ UNCHANGED <<runs, ts, acked>>

\* After the threads have ended.  Whether COMMIT succeeds is not asked.
Teardown ==
    /\ life = "open"
    /\ \A c \in Clients : pc[c] \in {"idle", "threw"}
    /\ \/ Exit("closed", IF inTxn THEN view ELSE disk)
       \/ inTxn /\ "commit" \in Failing /\ Exit("closed", disk)

\* The process dies, or the machine does.
Die == life = "open" /\ Exit("off", disk)
PowerLoss == life # "off" /\ Exit("off", flushed)

------------------------------------------------------------------------------
(* get_or_create_stream *)

Goto(c, loc) == pc' = [pc EXCEPT ![c] = loc]

\* Where the caller goes on with the id.
After(c) == IF c \in Writers THEN "insert" ELSE "prepare"

LookUp(c) ==
    /\ pc[c] = "lookUp" /\ cacheMu = Nobody
    /\ IF cache[Own[c]] # 0
         THEN /\ sid' = [sid EXCEPT ![c] = cache[Own[c]]]
              /\ Goto(c, After(c))
              /\ UNCHANGED cacheMu
         ELSE /\ cacheMu' = c
              /\ Goto(c, "row")
              /\ UNCHANGED sid
    /\ UNCHANGED <<life, runs, tables, inTxn, cache, writeMu, ts, acked, cursor, promised>>

Rows == {s \in Streams : view.streams[s] # 0}

\* INSERT OR IGNORE; ids are AUTOINCREMENT.  Its result is not looked at.
InsertRow(c) ==
    /\ pc[c] = "row"
    /\ \/ Execute(IF Own[c] \in Rows THEN view
                  ELSE [view EXCEPT !.streams[Own[c]] = Cardinality(Rows) + 1])
       \/ Fail("row")
    /\ Goto(c, "select")
    /\ UNCHANGED <<life, runs, inTxn, cache, writeMu, cacheMu, sid, ts, acked, promised>>

\* A plausible slip: the exception leaves _stream_cache_mu locked.
ThrowHolding(c) ==
    /\ Goto(c, "threw")
    /\ writeMu' = IF writeMu = c THEN Nobody ELSE writeMu
    /\ UNCHANGED cacheMu

\* A plausible slip: _write_mu is unlocked by hand, where the call returns.
ThrowLocked(c) ==
    /\ Goto(c, "threw")
    /\ cacheMu' = IF cacheMu = c THEN Nobody ELSE cacheMu
    /\ UNCHANGED writeMu

\* The caller's locks are released and the exception leaves its call.
Throw(c) ==
    /\ Goto(c, "threw")
    /\ writeMu' = IF writeMu = c THEN Nobody ELSE writeMu
    /\ cacheMu' = IF cacheMu = c THEN Nobody ELSE cacheMu

\* A plausible slip: sqlite3_last_insert_rowid() in the place of the SELECT.
LastRowid(c) == Cardinality(Rows)
RowId(c) == view.streams[Own[c]]

SelectRow(c) ==
    /\ pc[c] = "select"
    /\ \/ /\ RowId(c) # 0
          /\ sid' = [sid EXCEPT ![c] = RowId(c)]
          /\ cache' = [cache EXCEPT ![Own[c]] = RowId(c)]
          /\ cacheMu' = Nobody
          /\ Goto(c, After(c))
          /\ UNCHANGED writeMu
       \/ /\ RowId(c) = 0
          /\ Throw(c)
          /\ UNCHANGED <<sid, cache>>
    /\ UNCHANGED <<life, runs, tables, inTxn, ts, acked, cursor, promised>>

------------------------------------------------------------------------------
(* write and sync_boundary *)

Call(w, place) ==
    /\ life = "open" /\ pc[w] = "idle"
    /\ Goto(w, place)
    /\ UNCHANGED <<life, runs, tables, inTxn, cache, writeMu, cacheMu, sid, ts, acked, cursor, promised>>

\* Either call begins by waiting for _write_mu.
Waiting == {"write", "sync"}

Write(w) == ts[w] <= MaxFrames /\ Call(w, "write")
SyncBoundary(w) == Call(w, "sync")

Begun(w) == CASE pc[w] = "write" -> "lookUp"
              [] pc[w] = "sync" /\ inTxn -> "commit"
              [] OTHER -> "begin"

\* A plausible slip: sync_boundary does not lock.
LockForWrites(w) ==
    /\ pc[w] \in Waiting
    /\ pc[w] = "write" => writeMu = Nobody
    /\ writeMu' = IF pc[w] = "write" THEN w ELSE writeMu
    /\ Goto(w, Begun(w))
    /\ UNCHANGED <<life, runs, tables, inTxn, cache, cacheMu, sid, ts, acked, cursor, promised>>

Lock(w) ==
    /\ pc[w] \in Waiting /\ writeMu = Nobody
    /\ writeMu' = w
    /\ Goto(w, Begun(w))
    /\ UNCHANGED <<life, runs, tables, inTxn, cache, cacheMu, sid, ts, acked, cursor, promised>>

FrameInserted(w) ==
    [view EXCEPT !.frames[Own[w]] = Append(@, [id |-> sid[w], ts |-> ts[w]])]

\* write returns.
WriteReturns(w) ==
    /\ writeMu' = Nobody
    /\ Goto(w, "idle")
    /\ ts' = [ts EXCEPT ![w] = @ + 1]
    /\ acked' = [acked EXCEPT ![w] = @ \cup {ts[w]}]
    /\ UNCHANGED cacheMu

\* A plausible slip: the result of the INSERT is not checked.
InsertFrameUnchecked(w) ==
    /\ pc[w] = "insert"
    /\ Execute(FrameInserted(w)) \/ Fail("frame")
    /\ WriteReturns(w)
    /\ UNCHANGED <<life, runs, inTxn, cache, sid, promised>>

InsertFrame(w) ==
    /\ pc[w] = "insert"
    /\ \/ Execute(FrameInserted(w)) /\ WriteReturns(w)
       \/ Fail("frame") /\ Throw(w) /\ UNCHANGED <<ts, acked>>
    /\ UNCHANGED <<life, runs, inTxn, cache, sid, promised>>

\* A plausible slip: the transaction is left and no one asks whether it is stored.
CommitOmitted(w) ==
    /\ pc[w] = "commit"
    /\ auto' = TRUE
    /\ Goto(w, "begin")
    /\ UNCHANGED <<life, runs, view, disk, flushed, inTxn, cache, writeMu, cacheMu, sid, ts, acked, cursor, promised>>

\* Without a transaction COMMIT is an error.
Commit(w) ==
    /\ pc[w] = "commit"
    /\ \/ /\ ~auto
          /\ Store(view)
          /\ auto' = TRUE
          /\ Goto(w, "begin")
          /\ UNCHANGED <<view, writeMu, cacheMu, cursor>>
       \/ /\ auto
          /\ Throw(w)
          /\ UNCHANGED <<tables, cursor>>
       \/ Fail("commit") /\ Throw(w)
    /\ UNCHANGED <<life, runs, inTxn, cache, sid, ts, acked, promised>>

\* Within a transaction BEGIN is an error.
Begin(w) ==
    /\ pc[w] = "begin"
    /\ \/ /\ auto
          /\ auto' = FALSE
          /\ inTxn' = TRUE
          /\ writeMu' = Nobody
          /\ Goto(w, "idle")
          /\ promised' = Lengths(view)
          /\ UNCHANGED cacheMu
       \/ /\ ~auto \/ "begin" \in Failing
          /\ Throw(w)
          /\ UNCHANGED <<auto, inTxn, promised>>
    /\ UNCHANGED <<life, runs, view, disk, flushed, cache, sid, ts, acked, cursor>>

WriterStep(w) == \/ Lock(w) \/ LookUp(w) \/ InsertRow(w) \/ SelectRow(w)
                 \/ InsertFrame(w) \/ Commit(w) \/ Begin(w)

------------------------------------------------------------------------------
(* iterate, find and next *)

Iterate(r) ==
    /\ life = "open" /\ pc[r] = "idle"
    /\ Goto(r, "lookUp")
    /\ UNCHANGED <<life, runs, tables, inTxn, cache, writeMu, cacheMu, sid, ts, acked, cursor, promised>>

PrepareCursor(r) ==
    /\ pc[r] = "prepare"
    /\ \/ Goto(r, "reading") /\ UNCHANGED <<tables, writeMu, cacheMu, cursor>>
       \/ Fail("cursor") /\ Throw(r)
    /\ UNCHANGED <<life, runs, inTxn, cache, sid, ts, acked, promised>>

\* The statement selects by id.
RowsFrom(r, first) ==
    {n \in first .. MaxFrames :
        \E s \in Streams : [id |-> sid[r], ts |-> n] \in Range(view.frames[s])}

\* One step of the statement from timestamp first on.
MoveTo(r, first) ==
    \/ /\ cursor' = [cursor EXCEPT ![r] = IF RowsFrom(r, first) = {} THEN NoCursor
                                          ELSE Min(RowsFrom(r, first))]
       /\ UNCHANGED <<tables, writeMu, cacheMu, pc>>
    \/ Fail("cursor") /\ Throw(r)

\* The reset forgets that the statement was aborted.
Find(r) ==
    /\ pc[r] = "reading"
    /\ \E target \in 1 .. MaxFrames : MoveTo(r, target)
    /\ UNCHANGED <<life, runs, inTxn, cache, sid, ts, acked, promised>>

\* The workloads ask valid() before.
NextFrame(r) ==
    /\ pc[r] = "reading"
    /\ \/ cursor[r] > 0 /\ MoveTo(r, cursor[r] + 1)
       \/ cursor[r] = Aborted /\ Throw(r) /\ UNCHANGED <<tables, cursor>>
    /\ UNCHANGED <<life, runs, inTxn, cache, sid, ts, acked, promised>>

CloseCursor(r) ==
    /\ pc[r] = "reading"
    /\ cursor' = [cursor EXCEPT ![r] = NoCursor]
    /\ Goto(r, "idle")
    /\ UNCHANGED <<life, runs, tables, inTxn, cache, writeMu, cacheMu, sid, ts, acked, promised>>

ReaderStep(r) == LookUp(r) \/ InsertRow(r) \/ SelectRow(r) \/ PrepareCursor(r)

------------------------------------------------------------------------------

Over == life # "open" /\ runs = MaxProcesses /\ UNCHANGED vars

Next == \/ Setup \/ Teardown \/ Die \/ PowerLoss \/ Checkpoint
        \/ \E w \in Writers : Write(w) \/ SyncBoundary(w) \/ WriterStep(w)
        \/ \E r \in Readers : Iterate(r) \/ Find(r) \/ NextFrame(r) \/ CloseCursor(r)
                             \/ ReaderStep(r)
        \/ Over

Spec == Init /\ [][Next]_vars

\* A call that is under way goes on; nobody has to make one. A stream is looked
\* up in vain at most once, so nobody is kept from _stream_cache_mu for ever. A
\* std::mutex need not go to who waits longest, so _write_mu gets no more than this.
Fairness == /\ \A w \in Writers : WF_vars(WriterStep(w))
            /\ \A r \in Readers : WF_vars(ReaderStep(r))

FairSpec == Spec /\ Fairness

------------------------------------------------------------------------------
(* Properties *)

Tables == [streams : [Streams -> 0 .. Cardinality(Streams)],
           frames  : [Streams -> Seq([id : 0 .. Cardinality(Streams), ts : 1 .. MaxFrames])]]

\* Types; _write_mu is held by the writer whose call is past its beginning.
TypeOK ==
    /\ life \in {"off", "open", "closed"} /\ runs \in 0 .. MaxProcesses
    /\ view \in Tables /\ disk \in Tables /\ flushed \in Tables
    /\ auto \in BOOLEAN /\ inTxn \in BOOLEAN
    /\ cache \in [Streams -> 0 .. Cardinality(Streams)]
    /\ writeMu \in Writers \cup {Nobody} /\ cacheMu \in Clients \cup {Nobody}
    /\ pc \in [Clients -> {"idle", "write", "sync", "lookUp", "row", "select", "insert", "commit", "begin",
                           "prepare", "reading", "threw"}]
    /\ \A w \in Writers : (writeMu = w) <=> (pc[w] \notin {"idle", "threw"} \cup Waiting)
    /\ sid \in [Clients -> 0 .. Cardinality(Streams)]
    /\ ts \in [Writers -> 1 .. MaxFrames + 1]
    /\ acked \in [Writers -> SUBSET (1 .. MaxFrames)]
    /\ cursor \in [Readers -> Aborted .. MaxFrames]
    /\ promised \in [Streams -> 0 .. MaxFrames]

\* "Return the integer id for |name|, inserting a row if needed."
\* (sqlite_backend.cpp:265): a frame has the id that the table streams gives
\* its stream, over all processes that have written to the file.
FramesKeepTheirStream ==
    \A s \in Streams : \A i \in 1 .. Len(view.frames[s]) :
        view.frames[s][i].id = view.streams[s]

\* "We wrap writes in an explicit transaction." (sqlite_backend.cpp:31): no frame
\* is inserted between the COMMIT and the BEGIN of another thread's sync_boundary.
WritesAreWrapped ==
    [][(\E s \in Streams : Len(view'.frames[s]) > Len(view.frames[s])) => ~auto]_vars

Content == [s \in Streams |-> [i \in 1 .. Len(view.frames[s]) |-> view.frames[s][i].ts]]
Promise == INSTANCE FrameStore WITH up <- life, content <- Content, kept <- promised

\* "after a crash, at most durability_bytes of data can be lost (whatever
\* accumulated since the last sync_boundary call)" (sqlite_backend.cpp:229-230).
ImplementsFrameStore == Promise!Spec

\* A failure is seen by somebody: when all calls have returned and none has thrown,
\* whatever statements have failed and rolled back, every frame whose write returned
\* is there, frames have their stream's id, and _in_txn (sqlite_backend.cpp:237) is
\* right that a transaction is open; in a file that was empty before.
FailuresAreThrown ==
    (life = "open" /\ \A c \in Clients : pc[c] \in {"idle", "reading"}) =>
        /\ \A w \in Writers : acked[w] \subseteq {f.ts : f \in Range(view.frames[Own[w]])}
        /\ FramesKeepTheirStream
        /\ inTxn /\ ~auto

\* No call waits for ever, whichever calls fail: the mutexes are taken in one order and
\* given back by the calls that throw. A call that has begun ends; one that waits to
\* begin does so, unless other writers' calls keep taking _write_mu before it.
CallsEnd ==
    /\ \A c \in Clients :
         pc[c] \in {"lookUp", "row", "select", "insert", "prepare", "commit", "begin"} ~>
             pc[c] \in {"idle", "reading", "threw"}
    /\ \A w \in Writers :
         \/ pc[w] \in Waiting ~> pc[w] \notin Waiting
         \/ []<><<\E v \in Writers \ {w} : Lock(v)>>_vars

==============================================================================
