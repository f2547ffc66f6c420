----------------------------- MODULE RocksBackend -----------------------------
(***************************************************************************)
(* The RocksDB backend: a column family per stream, created by the first    *)
(* call that uses the stream, and a map of their handles that is locked for *)
(* each access but not between looking a stream up and creating it.         *)
(*                                                                          *)
(* RocksDB itself is external. Put is logged; SyncWAL makes what is logged   *)
(* durable, memtable flushes may do so earlier, stream by stream. An        *)
(* iterator reads the snapshot of its creation. A column family is created  *)
(* once, and a database with column families is not opened without them.   *)
(***************************************************************************)
EXTENDS Integers, Sequences, FiniteSets, FiniteSetsExt

CONSTANTS
    Writers, Readers,   \* the threads that call the backend
    Own,                \* the stream each of them uses
    Prewarmed,          \* streams the main thread writes to before they start
    Failing,            \* which calls into RocksDB may fail in this instance
    MaxFrames,          \* bound: frames per writer
    KeyBytes, Byte      \* 8 and 256: a key is so many digits of this base

Clients == Writers \cup Readers
Streams == {Own[c] : c \in Clients}

\* What the digit before the last i ones of a key is worth, 2^(8 * i).
Weight[i \in 0 .. KeyBytes] == IF i = 0 THEN 1 ELSE Byte * Weight[i - 1]

ASSUME RocksAssumption ==
    /\ Writers \cap Readers = {}
    /\ Own \in [Clients -> Streams]
    /\ \A v, w \in Writers : Own[v] = Own[w] => v = w
    /\ Prewarmed \subseteq Streams
    /\ Failing \subseteq {"create", "put", "sync"}
    /\ MaxFrames \in Nat
    /\ KeyBytes \in Nat \ {0} /\ Byte \in Nat \ {0, 1}
    /\ MaxFrames + 1 < Weight[KeyBytes]

VARIABLES
    life,      \* "off", then "open" from setup to teardown, "closed"
    content,   \* per column family the timestamps put
    synced,    \* per column family how many of them are durable
    families,  \* the column families of the database
    handles,   \* _cf_handles: the streams in it
    created,   \* handles created and not yet destroyed, per stream
    pc,        \* where each client stands
    iter,      \* the iterator of each reader, see Iterators
    covered,   \* history: per stream the frames there were when sync_boundary last
               \* returned
    promised   \* history: the same, teardown included

Lengths == [s \in Streams |-> Len(content[s])]

vars == <<life, content, synced, families, handles, created, pc, iter, covered, promised>>

\* An iterator: how many frames its snapshot has, the key it is at, the timestamp
\* in _frame, and (history) the timestamp it should be at, by what it was asked.
NoKey == <<>>
NotAsked == -1
NoIterator == [snapshot |-> 0, key |-> NoKey, frame |-> 0, due |-> NotAsked]

Init ==
    /\ life = "off"
    /\ content = [s \in Streams |-> <<>>]
    /\ synced = [s \in Streams |-> 0]
    /\ families = {} /\ handles = {}
    /\ created = [s \in Streams |-> 0]
    /\ pc = [c \in Clients |-> "idle"]
    /\ iter = [r \in Readers |-> NoIterator]
    /\ covered = [s \in Streams |-> 0] /\ promised = [s \in Streams |-> 0]

------------------------------------------------------------------------------
(* The main thread *)

\* The database is opened with the default column family only; the column families
\* of the streams that are used before the threads start are there soon after.
Setup ==
    /\ life = "off"
    /\ families = {}
    /\ life' = "open"
    /\ families' = Prewarmed /\ handles' = Prewarmed
    /\ created' = [s \in Streams |-> IF s \in Prewarmed THEN 1 ELSE 0]
    /\ UNCHANGED <<content, synced, pc, iter, covered, promised>>

\* A plausible slip: the handles are forgotten, not destroyed.
TeardownForgetting ==
    /\ life = "open"
    /\ \A c \in Clients : pc[c] \in {"idle", "threw"}
    /\ life' = "closed"
    /\ handles' = {}
    /\ promised' = Lengths
    /\ UNCHANGED <<content, synced, families, created, pc, iter, covered>>

\* After the threads have ended. Deleting the database does not sync its log.
Teardown ==
    /\ life = "open"
    /\ \A c \in Clients : pc[c] \in {"idle", "threw"}
    /\ life' = "closed"
    /\ handles' = {}
    /\ created' = [s \in Streams |-> IF s \in handles THEN created[s] - 1 ELSE created[s]]
    /\ promised' = Lengths
    /\ UNCHANGED <<content, synced, families, pc, iter, covered>>

\* Some memtable is flushed.
MemtableFlush ==
    /\ life = "open"
    /\ \E s \in Streams :
         /\ synced[s] < Len(content[s])
         /\ synced' = [synced EXCEPT ![s] = Len(content[s])]
    /\ UNCHANGED <<life, content, families, handles, created, pc, iter, covered, promised>>

\* The machine dies; of each stream what is durable is left, perhaps more.
PowerLoss ==
    /\ life # "off"
    /\ life' = "off"
    /\ handles' = {}
    /\ created' = [s \in Streams |-> 0]
    /\ \E n \in [Streams -> 0 .. MaxFrames] :
         /\ \A s \in Streams : synced[s] <= n[s] /\ n[s] <= Len(content[s])
         /\ content' = [s \in Streams |-> SubSeq(content[s], 1, n[s])]
         /\ synced' = n
    /\ pc' = [c \in Clients |-> "idle"]
    /\ iter' = [r \in Readers |-> NoIterator]
    /\ UNCHANGED <<families, covered, promised>>

------------------------------------------------------------------------------
(* get_or_create_cf *)

Goto(c, loc) == pc' = [pc EXCEPT ![c] = loc]

\* Where the caller goes on with the handle.
After(c) == IF c \in Writers THEN "put" ELSE "open"

\* The first of the two critical sections.
LookUp(c) ==
    /\ life = "open" /\ pc[c] = "idle"
    /\ c \in Writers => Len(content[Own[c]]) < MaxFrames
    /\ Goto(c, IF Own[c] \in handles THEN After(c) ELSE "create")
    /\ UNCHANGED <<life, content, synced, families, handles, created, iter, covered, promised>>

Throw(c) ==
    /\ Goto(c, "threw")
    /\ UNCHANGED <<life, content, synced, families, handles, created, iter, covered, promised>>

\* A plausible slip: the status of CreateColumnFamily is not looked at.
CreateUnchecked(c) ==
    /\ pc[c] = "create"
    /\ Goto(c, "remember")
    /\ \/ /\ Own[c] \notin families
          /\ families' = families \cup {Own[c]}
          /\ created' = [created EXCEPT ![Own[c]] = @ + 1]
       \/ /\ Own[c] \in families \/ "create" \in Failing
          /\ UNCHANGED <<families, created>>
    /\ UNCHANGED <<life, content, synced, handles, iter, covered, promised>>

Create(c) ==
    /\ pc[c] = "create"
    /\ \/ /\ Own[c] \notin families
          /\ families' = families \cup {Own[c]}
          /\ created' = [created EXCEPT ![Own[c]] = @ + 1]
          /\ Goto(c, "remember")
          /\ UNCHANGED <<life, content, synced, handles, iter, covered, promised>>
       \/ /\ Own[c] \in families \/ "create" \in Failing
          /\ Throw(c)

\* The second one. The handle of a thread that comes late is destroyed.
Remember(c) ==
    /\ pc[c] = "remember"
    /\ handles' = handles \cup {Own[c]}
    /\ created' = IF Own[c] \in handles THEN [created EXCEPT ![Own[c]] = @ - 1] ELSE created
    /\ Goto(c, After(c))
    /\ UNCHANGED <<life, content, synced, families, iter, covered, promised>>

------------------------------------------------------------------------------
(* write, sync_boundary, iterate *)

Put(w) ==
    /\ pc[w] = "put"
    /\ \/ /\ content' = [content EXCEPT ![Own[w]] = Append(@, Len(@) + 1)]
          /\ Goto(w, "idle")
          /\ UNCHANGED <<life, synced, families, handles, created, iter, covered, promised>>
       \/ "put" \in Failing /\ Throw(w)

\* A plausible slip: a full write buffer is taken for enough.
SyncNothing(w) ==
    /\ life = "open" /\ pc[w] = "idle"
    /\ covered' = Lengths /\ promised' = Lengths
    /\ UNCHANGED <<life, content, synced, families, handles, created, pc, iter>>

\* The log is one for all streams.
SyncWAL(w) ==
    /\ life = "open" /\ pc[w] = "idle"
    /\ \/ /\ synced' = Lengths
          /\ covered' = Lengths /\ promised' = Lengths
          /\ UNCHANGED <<life, content, families, handles, created, pc, iter>>
       \/ "sync" \in Failing /\ Throw(w)

------------------------------------------------------------------------------
(* Iterators *)

\* Keys are the digits of the timestamp, and RocksDB compares them from the left.
\* A plausible slip: the digits in the order in which the machine keeps them.
EncodeLittleEndian(ts) == [i \in 1 .. KeyBytes |-> (ts \div Weight[i - 1]) % Byte]
Encode(ts) == [i \in 1 .. KeyBytes |-> (ts \div Weight[KeyBytes - i]) % Byte]

\* The digits are shifted in from the left.
Decode(key) ==
    LET value[i \in 0 .. KeyBytes] ==
            IF i = 0 THEN 0 ELSE Byte * value[i - 1] + key[i]
    IN  value[KeyBytes]

Before(j, k) ==
    \E i \in 1 .. KeyBytes : j[i] < k[i] /\ \A h \in 1 .. i - 1 : j[h] = k[h]

Smallest(keys) ==
    IF keys = {} THEN NoKey ELSE CHOOSE k \in keys : \A j \in keys : ~Before(j, k)
Greatest(keys) ==
    IF keys = {} THEN NoKey ELSE CHOOSE k \in keys : \A j \in keys : ~Before(k, j)

Keys(r) == {Encode(content[Own[r]][i]) : i \in 1 .. iter[r].snapshot}

OpenIterator(r) ==
    /\ pc[r] = "open"
    /\ iter' = [iter EXCEPT ![r].snapshot = Len(content[Own[r]])]
    /\ Goto(r, "reading")
    /\ UNCHANGED <<life, content, synced, families, handles, created, covered, promised>>

\* What a move leaves behind; past either end _frame keeps what it had.
MoveTo(r, key, due) ==
    /\ pc[r] = "reading"
    /\ iter' = [iter EXCEPT ![r].key = key,
                            ![r].frame = IF key = NoKey THEN @ ELSE Decode(key),
                            ![r].due = due]
    /\ UNCHANGED <<life, content, synced, families, handles, created, pc, covered, promised>>

Find(r) ==
    \E ts \in 0 .. MaxFrames + 1 :
        MoveTo(r, Smallest({k \in Keys(r) : ~Before(k, Encode(ts))}), Max({ts, 1}))

\* Neither may be called when the iterator is not valid.
NextFrame(r) ==
    /\ iter[r].key # NoKey
    /\ MoveTo(r, Smallest({k \in Keys(r) : Before(iter[r].key, k)}), iter[r].due + 1)

PrevFrame(r) ==
    /\ iter[r].key # NoKey
    /\ MoveTo(r, Greatest({k \in Keys(r) : Before(k, iter[r].key)}), iter[r].due - 1)

CloseIterator(r) ==
    /\ pc[r] = "reading"
    /\ iter' = [iter EXCEPT ![r] = NoIterator]
    /\ Goto(r, "idle")
    /\ UNCHANGED <<life, content, synced, families, handles, created, covered, promised>>

------------------------------------------------------------------------------

Over == life # "open" /\ UNCHANGED vars

Next == \/ Setup \/ Teardown \/ MemtableFlush \/ PowerLoss
        \/ \E c \in Clients : LookUp(c) \/ Create(c) \/ Remember(c)
        \/ \E w \in Writers : Put(w) \/ SyncWAL(w)
        \/ \E r \in Readers : OpenIterator(r) \/ Find(r) \/ NextFrame(r) \/ PrevFrame(r)
                               \/ CloseIterator(r)
        \/ Over

Spec == Init /\ [][Next]_vars

------------------------------------------------------------------------------
(* Properties *)

\* Types; what the map holds is in the database.
TypeOK ==
    /\ life \in {"off", "open", "closed"}
    /\ content \in [Streams -> Seq(Nat)]
    /\ synced \in [Streams -> 0 .. MaxFrames] /\ covered \in [Streams -> 0 .. MaxFrames]
    /\ promised \in [Streams -> 0 .. MaxFrames]
    /\ families \subseteq Streams /\ handles \subseteq families
    /\ created \in [Streams -> Nat]
    /\ pc \in [Clients -> {"idle", "create", "remember", "put", "open", "reading", "threw"}]
    /\ \A r \in Readers : /\ iter[r].snapshot \in 0 .. Len(content[Own[r]])
                          /\ pc[r] # "reading" => iter[r] = NoIterator

\* "Close non-default column family handles before closing DB."
\* (rocksdb_backend.cpp:164): every handle is in the map or with the one thread
\* that has just created it, and teardown leaves none.
HandlesAccounted ==
    \A s \in Streams :
        created[s] = Cardinality(handles \cap {s})
                     + Cardinality({c \in Clients : Own[c] = s /\ pc[c] = "remember"})

\* "ensures correct range-scan order" (rocksdb_backend.cpp:5): whatever writers do
\* meanwhile, an iterator goes through the frames there were when it was opened, in
\* the order of their timestamps, and is at an end exactly where these have one.
IteratorsInOrder ==
    \A r \in Readers :
        LET it == iter[r]
        IN  it.due # NotAsked =>
              IF it.due \in 1 .. it.snapshot
                THEN it.key # NoKey /\ it.frame = content[Own[r]][it.due]
                ELSE it.key = NoKey

\* "sync_boundary() calls db->SyncWAL(), which flushes the WAL to disk"
\* (rocksdb_backend.cpp:9): a crash, also one after teardown, takes only the last
\* frames of a stream, and none that a sync_boundary has covered. Of teardown itself
\* it asks nothing; NothingPromisedIsLost does.
Boundaries == INSTANCE FrameStore WITH up <- life, kept <- covered
BoundariesAreKept == Boundaries!BoundarySpec

\* "Flush all data and close." (backend.h:70): nor any that teardown has returned with.
Promise == INSTANCE FrameStore WITH up <- life, kept <- promised
NothingPromisedIsLost == Promise!NothingKeptIsLost

==============================================================================
