------------------------- MODULE SqliteBackendProofs -------------------------
(***************************************************************************)
(* The SQLite backend for any threads, streams, bounds and processes:       *)
(* its mutexes, its transaction and its ids, what it promises the           *)
(* workloads, and which of that needs statements that do not fail.          *)
(***************************************************************************)
EXTENDS SqliteBackend, FiniteSetTheorems, WellFoundedInduction, TLAPS

Locations == {"idle", "write", "sync", "lookUp", "row", "select", "insert", "commit", "begin",
              "prepare", "reading", "threw"}
Away == {"idle", "threw"} \cup Waiting
Ids == 0 .. Cardinality(Streams)

\* Who stands where: a mutex is held by the client whose place says so, and a writer
\* that is to write has a frame left to write.
PlaceInv ==
    /\ life \in {"off", "open", "closed"}
    /\ pc \in [Clients -> Locations]
    /\ ts \in [Writers -> 1 .. MaxFrames + 1]
    /\ writeMu \in Writers \cup {Nobody} /\ cacheMu \in Clients \cup {Nobody}
    /\ \A w \in Writers : (writeMu = w) <=> (pc[w] \notin Away)
    /\ \A c \in Clients : (cacheMu = c) <=> (pc[c] \in {"row", "select"})
    /\ \A c \in Clients :
         /\ pc[c] \in {"write", "sync", "insert", "commit", "begin"} => c \in Writers
         /\ pc[c] \in {"prepare", "reading"} => c \in Readers
    /\ \A w \in Writers :
         pc[w] \in {"write", "lookUp", "row", "select", "insert"} => ts[w] <= MaxFrames
    /\ life # "open" => \A c \in Clients : pc[c] = "idle"

\* A table with no more frames in a stream than its writer has written.
Legal(t, written) ==
    /\ t \in Tables
    /\ \A s \in Streams : \/ t.frames[s] = <<>>
                          \/ \E w \in Writers : Own[w] = s /\ Len(t.frames[s]) < written[w]

ValueInv ==
    /\ runs \in 0 .. MaxProcesses
    /\ Legal(view, ts) /\ Legal(disk, ts) /\ Legal(flushed, ts)
    /\ auto \in BOOLEAN /\ inTxn \in BOOLEAN
    /\ cache \in [Streams -> Ids] /\ sid \in [Clients -> Ids]
    /\ acked \in [Writers -> SUBSET (1 .. MaxFrames)]
    /\ cursor \in [Readers -> Aborted .. MaxFrames]
    /\ promised \in [Streams -> 0 .. MaxFrames]

\* Table u has the frames of t, and maybe others after them.
Grown(t, u) ==
    \A s \in Streams : /\ Len(t.frames[s]) <= Len(u.frames[s])
                       /\ \A i \in 1 .. Len(t.frames[s]) : u.frames[s][i] = t.frames[s][i]

\* Only the open transaction is not on disk, only what is on disk is flushed, and all
\* of it with synchronous=full.
TableInv ==
    /\ Grown(flushed, disk) /\ Grown(disk, view)
    /\ auto => view = disk
    /\ Synchronous = "full" => flushed = disk

BackendInv == PlaceInv /\ ValueInv /\ TableInv

------------------------------------------------------------------------------
(* What holds when no statement fails that may roll back *)

\* BEGIN changes nothing when it fails.
Steady == Failing \subseteq {"begin"}

IdsAgree(t) ==
    \A s \in Streams : \A i \in 1 .. Len(t.frames[s]) :
        t.streams[s] # 0 /\ t.frames[s][i].id = t.streams[s]

\* Ids in the cache and in the hands of writers are those of the table.
IdInv ==
    /\ IdsAgree(view) /\ IdsAgree(disk) /\ IdsAgree(flushed)
    /\ \A s \in Streams : cache[s] # 0 => view.streams[s] = cache[s]
    /\ \A w \in Writers : pc[w] = "insert" => sid[w] # 0 /\ view.streams[Own[w]] = sid[w]

\* With synchronous=full, the backend knows that it has begun a transaction, and what is
\* promised is on disk.
KeptInv ==
    /\ life = "open" => inTxn
    /\ \A s \in Streams : promised[s] <= Len(disk.frames[s])

\* Without failures, a transaction is open unless a writer is about to begin one.
WrapInv ==
    /\ life = "open" => inTxn
    /\ life = "open" /\ auto => \E w \in Writers : pc[w] = "begin"

------------------------------------------------------------------------------
(* What holds in the first process, whatever fails *)

Stored(w) == acked[w] \subseteq {f.ts : f \in Range(view.frames[Own[w]])}

\* A rollback that took this client's row: its SELECT will find nothing.
Doomed(c) == pc[c] = "select" /\ view.streams[Own[c]] = 0

\* The ids in use are those of the table, and a transaction is open, as _in_txn says,
\* unless a writer is about to begin one.
Intact ==
    /\ IdsAgree(view)
    /\ \A s \in Streams : cache[s] # 0 => view.streams[s] = cache[s]
    /\ \A w \in Writers : pc[w] = "insert" => sid[w] # 0 /\ view.streams[Own[w]] = sid[w]
    /\ inTxn /\ (auto => \E w \in Writers : pc[w] = "begin")

\* Until a call throws, the rows there are have been looked up, and unless a call is
\* about to throw, nothing has been undone: what has been acknowledged is stored.
SeenInv ==
    /\ life # "off" => runs > 0
    /\ runs = 0 => view = Empty /\ disk = Empty
    /\ \A c \in Clients : pc[c] = "row" => cache[Own[c]] = 0
    /\ life # "open" => cache = [s \in Streams |-> 0]
    /\ (life = "open" /\ \A c \in Clients : pc[c] # "threw") =>
         /\ \A s \in Streams : cache[s] = 0 =>
              \/ view.streams[s] = 0 /\ disk.streams[s] = 0
              \/ \E c \in Clients : pc[c] = "select" /\ Own[c] = s
         /\ (\E c \in Clients : Doomed(c)) \/ (Intact /\ \A w \in Writers : Stored(w))

------------------------------------------------------------------------------
(* Streams, rows and frames *)

\* Every client has a stream, and a stream has one writer.
LEMMA ClientFacts ==
    /\ \A c \in Clients : Own[c] \in Streams
    /\ \A v, w \in Writers : Own[v] = Own[w] => v = w
    /\ Writers \subseteq Clients /\ Readers \subseteq Clients
    /\ Clients = Writers \cup Readers
    /\ \A w \in Writers : w \notin Readers
    /\ Nobody \notin Clients
    /\ MaxFrames \in Nat /\ MaxProcesses \in Nat \ {0}
BY SqliteAssumption DEF Clients

\* There are finitely many streams.
LEMMA StreamsAreFinite == IsFiniteSet(Streams) /\ Cardinality(Streams) \in Nat
<1>1. Own \in Surjection(Clients, Streams)
  BY SqliteAssumption DEF Surjection, Streams
<1>2. IsFiniteSet(Clients)
  BY SqliteAssumption
<1>3. IsFiniteSet(Streams)
  BY <1>1, <1>2, FS_Surjection
<1>. QED BY <1>3, FS_CardinalityType

\* A row that is missing can be given the next id.
LEMMA NextId ==
    ASSUME NEW s \in Streams, s \notin Rows
    PROVE  Cardinality(Rows) + 1 \in Ids /\ Cardinality(Rows) + 1 # 0
<1>1. IsFiniteSet(Streams \ {s}) /\ Cardinality(Streams \ {s}) = Cardinality(Streams) - 1
  BY StreamsAreFinite, FS_RemoveElement
<1>2. Rows \in SUBSET (Streams \ {s})
  BY DEF Rows
<1>3. IsFiniteSet(Rows) /\ Cardinality(Rows) <= Cardinality(Streams \ {s})
  BY <1>1, <1>2, FS_Subset
<1>4. Cardinality(Rows) \in Nat
  BY <1>3, FS_CardinalityType
<1>. QED BY <1>1, <1>3, <1>4, StreamsAreFinite DEF Ids

\* A set of numbers has a least one.
LEMMA LeastNumber ==
    ASSUME NEW S \in SUBSET Nat, S # {}
    PROVE  Min(S) \in S
<1>. DEFINE R == {p \in Nat \X Nat : p[1] < p[2]}
<1>1. IsWellFoundedOn(R, Nat)
  BY NatLessThanWellFounded, Zenon DEF OpToRel
<1>2. PICK m \in S : \A k \in S : <<k, m>> \notin R
  <2>. HIDE DEF R
  <2>. QED BY <1>1, WFMin
<1>3. \A k \in S : m <= k
  <2>1. \A k \in S : ~(k < m)
    BY <1>2
  <2>. QED BY <2>1
<1>4. \E x \in S : \A y \in S : x <= y
  BY <1>3
<1>. QED BY <1>4, Zenon DEF Min

FrameRows == [id : Ids, ts : 1 .. MaxFrames]

\* The fields of a table.
LEMMA TableFields ==
    ASSUME NEW t \in Tables
    PROVE  /\ t.streams \in [Streams -> Ids] /\ t.frames \in [Streams -> Seq(FrameRows)]
           /\ \A s \in Streams : Len(t.frames[s]) \in Nat
<1>1. Tables = [streams : [Streams -> Ids], frames : [Streams -> Seq(FrameRows)]]
  BY DEF Tables, Ids, FrameRows
<1>2. t.streams \in [Streams -> Ids] /\ t.frames \in [Streams -> Seq(FrameRows)]
  BY <1>1
<1>3. \A s \in Streams : t.frames[s] \in Seq(FrameRows)
  BY <1>2
<1>. QED BY <1>2, <1>3

\* The table with one row more, if it is missing.
RowInserted(c) ==
    IF Own[c] \in Rows THEN view
      ELSE [view EXCEPT !.streams[Own[c]] = Cardinality(Rows) + 1]

\* Inserting a row leaves the frames and the other rows alone.
LEMMA RowFacts ==
    ASSUME NEW c \in Clients, view \in Tables
    PROVE  /\ RowInserted(c) \in Tables
           /\ RowInserted(c).frames = view.frames
           /\ RowInserted(c).streams[Own[c]] # 0
           /\ \A s \in Streams : /\ s # Own[c] => RowInserted(c).streams[s] = view.streams[s]
                                 /\ view.streams[s] # 0 =>
                                      RowInserted(c).streams[s] = view.streams[s]
<1>1. Own[c] \in Streams
  BY ClientFacts
<1>2. CASE Own[c] \in Rows
  BY <1>1, <1>2 DEF RowInserted, Rows
<1>3. CASE Own[c] \notin Rows
  <2>. DEFINE n == Cardinality(Rows) + 1
              ids == [view.streams EXCEPT ![Own[c]] = n]
  <2>1. n \in Ids /\ n # 0
    BY <1>1, <1>3, NextId
  <2>2. view.streams[Own[c]] = 0
    BY <1>1, <1>3 DEF Rows
  <2>. HIDE DEF n
  <2>3. /\ ids \in [Streams -> Ids] /\ ids[Own[c]] = n
        /\ \A s \in Streams : s # Own[c] => ids[s] = view.streams[s]
    BY <1>1, <2>1, TableFields
  <2>4. RowInserted(c) = [view EXCEPT !.streams = ids]
    BY <1>3 DEF RowInserted, n
  <2>. HIDE DEF ids
  <2>5. RowInserted(c) = [streams |-> ids, frames |-> view.frames]
    BY <2>4 DEF Tables
  <2>6. RowInserted(c) \in Tables
    BY <2>3, <2>5, TableFields DEF Tables, Ids, FrameRows
  <2>. QED BY <2>1, <2>2, <2>3, <2>5, <2>6
<1>. QED BY <1>2, <1>3

\* A frame is inserted at the end of its writer's stream.
LEMMA FrameFacts ==
    ASSUME NEW w \in Writers, view \in Tables, sid[w] \in Ids, ts[w] \in 1 .. MaxFrames
    PROVE  /\ FrameInserted(w) \in Tables
           /\ FrameInserted(w).streams = view.streams
           /\ FrameInserted(w).frames[Own[w]] =
                Append(view.frames[Own[w]], [id |-> sid[w], ts |-> ts[w]])
           /\ \A s \in Streams : s # Own[w] => FrameInserted(w).frames[s] = view.frames[s]
<1>. DEFINE row == [id |-> sid[w], ts |-> ts[w]]
            all == [view.frames EXCEPT ![Own[w]] = Append(@, row)]
<1>1. Own[w] \in Streams /\ row \in FrameRows
  BY ClientFacts DEF FrameRows
<1>2. FrameInserted(w) = [view EXCEPT !.frames = all]
  BY DEF FrameInserted
<1>. HIDE DEF row
<1>3. /\ all \in [Streams -> Seq(FrameRows)] /\ all[Own[w]] = Append(view.frames[Own[w]], row)
      /\ \A s \in Streams : s # Own[w] => all[s] = view.frames[s]
  BY <1>1, TableFields
<1>. HIDE DEF all
<1>4. FrameInserted(w) = [streams |-> view.streams, frames |-> all]
  BY <1>2 DEF Tables
<1>5. FrameInserted(w) \in Tables
  BY <1>3, <1>4, TableFields DEF Tables, Ids, FrameRows
<1>. QED BY <1>3, <1>4, <1>5 DEF row

\* Tables grow in turn.
LEMMA GrownTwice ==
    ASSUME NEW t \in Tables, NEW u \in Tables, NEW v \in Tables, Grown(t, u), Grown(u, v)
    PROVE  Grown(t, v)
<1>. SUFFICES ASSUME NEW s \in Streams
              PROVE  /\ Len(t.frames[s]) <= Len(v.frames[s])
                     /\ \A i \in 1 .. Len(t.frames[s]) : v.frames[s][i] = t.frames[s][i]
  BY DEF Grown
<1>1. Len(t.frames[s]) \in Nat /\ Len(u.frames[s]) \in Nat /\ Len(v.frames[s]) \in Nat
  BY TableFields
<1>2. Len(t.frames[s]) <= Len(u.frames[s]) /\ Len(u.frames[s]) <= Len(v.frames[s])
  BY DEF Grown
<1>3. ASSUME NEW i \in 1 .. Len(t.frames[s]) PROVE v.frames[s][i] = t.frames[s][i]
  <2>1. i \in 1 .. Len(u.frames[s])
    BY <1>1, <1>2
  <2>. QED BY <2>1 DEF Grown
<1>. QED BY <1>1, <1>2, <1>3

\* A table has its own frames.
LEMMA GrownNot ==
    ASSUME NEW t \in Tables, NEW u \in Tables, u.frames = t.frames
    PROVE  Grown(t, u)
<1>1. \A s \in Streams : Len(t.frames[s]) \in Nat /\ u.frames[s] = t.frames[s]
  BY TableFields
<1>. QED BY <1>1 DEF Grown

\* A table with one frame more has grown.
LEMMA GrownByFrame ==
    ASSUME NEW w \in Writers, view \in Tables, sid[w] \in Ids, ts[w] \in 1 .. MaxFrames
    PROVE  Grown(view, FrameInserted(w))
<1>. SUFFICES ASSUME NEW s \in Streams
              PROVE  /\ Len(view.frames[s]) <= Len(FrameInserted(w).frames[s])
                     /\ \A i \in 1 .. Len(view.frames[s]) :
                          FrameInserted(w).frames[s][i] = view.frames[s][i]
  BY DEF Grown
<1>1. view.frames[s] \in Seq(FrameRows) /\ Len(view.frames[s]) \in Nat
  BY TableFields
<1>2. CASE s = Own[w]
  <2>. DEFINE row == [id |-> sid[w], ts |-> ts[w]]
  <2>1. FrameInserted(w).frames[s] = Append(view.frames[s], row)
    BY <1>2, FrameFacts
  <2>2. row \in FrameRows
    BY DEF FrameRows
  <2>. HIDE DEF row
  <2>. QED BY <1>1, <2>1, <2>2
<1>3. CASE s # Own[w]
  <2>1. FrameInserted(w).frames[s] = view.frames[s]
    BY <1>3, FrameFacts
  <2>. QED BY <1>1, <2>1
<1>. QED BY <1>2, <1>3

------------------------------------------------------------------------------
(* Places *)

\* A client moves; the others do not.
LEMMA GotoFacts ==
    ASSUME pc \in [Clients -> Locations], NEW c \in Clients, NEW loc \in Locations, Goto(c, loc)
    PROVE  /\ pc' \in [Clients -> Locations] /\ pc'[c] = loc
           /\ \A d \in Clients : d # c => pc'[d] = pc[d]
BY DEF Goto

\* Whether a place is within a call of a writer, or within the part of a call that
\* looks after the row of a stream.
Held(c, loc) == c \in Writers /\ loc \notin Away
Looking(loc) == loc \in {"row", "select"}

\* A client that moves takes and gives back the mutexes as its places say.
LEMMA MoveKeeps ==
    ASSUME PlaceInv, NEW c \in Clients, NEW loc \in Locations, Goto(c, loc),
           life = "open", UNCHANGED life,
           loc \in {"write", "sync", "insert", "commit", "begin"} => c \in Writers,
           loc \in {"prepare", "reading"} => c \in Readers,
           Held(c, loc) => writeMu \in {c, Nobody},
           writeMu' = IF Held(c, loc) THEN c ELSE IF writeMu = c THEN Nobody ELSE writeMu,
           Looking(loc) => cacheMu \in {c, Nobody},
           cacheMu' = IF Looking(loc) THEN c ELSE IF cacheMu = c THEN Nobody ELSE cacheMu,
           ts' \in [Writers -> 1 .. MaxFrames + 1],
           \A w \in Writers : w # c => ts'[w] = ts[w],
           c \in Writers /\ loc \in {"write", "lookUp", "row", "select", "insert"} =>
             ts'[c] <= MaxFrames
    PROVE  PlaceInv'
<1>1. /\ pc' \in [Clients -> Locations] /\ pc'[c] = loc
      /\ \A d \in Clients : d # c => pc'[d] = pc[d]
  BY GotoFacts DEF PlaceInv
<1>2. /\ writeMu' \in Writers \cup {Nobody} /\ cacheMu' \in Clients \cup {Nobody}
      /\ \A w \in Writers : (writeMu' = w) <=> (pc'[w] \notin Away)
      /\ \A d \in Clients : (cacheMu' = d) <=> (pc'[d] \in {"row", "select"})
  <2>1. \A w \in Writers : (writeMu' = w) <=> (pc'[w] \notin Away)
    BY <1>1, ClientFacts DEF PlaceInv, Held
  <2>2. \A d \in Clients : (cacheMu' = d) <=> (pc'[d] \in {"row", "select"})
    BY <1>1, ClientFacts DEF PlaceInv, Looking
  <2>. QED BY <2>1, <2>2 DEF PlaceInv, Held
<1>3. \A d \in Clients :
        /\ pc'[d] \in {"write", "sync", "insert", "commit", "begin"} => d \in Writers
        /\ pc'[d] \in {"prepare", "reading"} => d \in Readers
  BY <1>1 DEF PlaceInv
<1>4. \A w \in Writers :
        pc'[w] \in {"write", "lookUp", "row", "select", "insert"} => ts'[w] <= MaxFrames
  BY <1>1, ClientFacts DEF PlaceInv
<1>. QED BY <1>1, <1>2, <1>3, <1>4 DEF PlaceInv

\* A call that throws gives back what it holds.
LEMMA ThrowKeeps ==
    ASSUME PlaceInv, NEW c \in Clients, Throw(c), life = "open", UNCHANGED <<life, ts>>
    PROVE  PlaceInv'
<1>1. Goto(c, "threw") /\ "threw" \in Locations
  BY DEF Throw, Locations
<1>2. ~Held(c, "threw") /\ ~Looking("threw")
  BY DEF Held, Looking, Away, Waiting
<1>. QED BY <1>1, <1>2, MoveKeeps DEF Throw, PlaceInv

\* Whoever is in a call is in an open database, and a writer in a call holds _write_mu.
LEMMA InCall ==
    ASSUME PlaceInv, NEW c \in Clients, pc[c] # "idle"
    PROVE  /\ life = "open"
           /\ Held(c, pc[c]) => writeMu = c
           /\ c \notin Writers => writeMu # c
BY ClientFacts DEF PlaceInv, Held

\* The next process starts where all did.
LEMMA ExitKeepsPlaces ==
    ASSUME PlaceInv, NEW state \in {"off", "closed"}, NEW t, Exit(state, t)
    PROVE  PlaceInv'
<1>1. \A c \in Clients : pc'[c] = "idle"
  BY DEF Exit
<1>2. pc' \in [Clients -> Locations]
  BY DEF Exit, Locations
<1>. QED BY <1>1, <1>2, ClientFacts DEF Exit, PlaceInv, Away, Waiting

\* Every step preserves the places.
LEMMA PlacesKept == PlaceInv /\ [Next]_vars => PlaceInv'
<1>. SUFFICES ASSUME PlaceInv, [Next]_vars PROVE PlaceInv'
  OBVIOUS
<1>pc. pc \in [Clients -> Locations] /\ ts \in [Writers -> 1 .. MaxFrames + 1]
  BY DEF PlaceInv
<1>1. CASE Setup
  BY <1>1 DEF Setup, PlaceInv
<1>2. CASE Teardown
  BY <1>2, ExitKeepsPlaces DEF Teardown
<1>3. CASE Die \/ PowerLoss
  BY <1>3, ExitKeepsPlaces DEF Die, PowerLoss
<1>4. CASE Checkpoint
  BY <1>4 DEF Checkpoint, PlaceInv
<1>5. ASSUME NEW c \in Clients, LookUp(c) PROVE PlaceInv'
  <2>1. /\ pc[c] = "lookUp" /\ life = "open" /\ cacheMu = Nobody
        /\ c \in Writers => ts[c] <= MaxFrames
    BY <1>5, InCall DEF LookUp, PlaceInv
  <2>2. Held(c, "lookUp") => writeMu = c
    BY <2>1, InCall
  <2>3. CASE Goto(c, After(c)) /\ UNCHANGED cacheMu
    <3>1. /\ After(c) \in Locations /\ After(c) \in {"insert", "prepare"}
          /\ (After(c) = "insert" => c \in Writers) /\ (After(c) = "prepare" => c \in Readers)
      BY ClientFacts DEF After, Locations
    <3>. QED
      BY <1>5, <1>pc, <2>1, <2>2, <2>3, <3>1, InCall, MoveKeeps, ClientFacts
         DEF LookUp, Held, Looking, Away, Waiting, After
  <2>4. CASE Goto(c, "row") /\ cacheMu' = c
    BY <1>5, <1>pc, <2>1, <2>2, <2>4, InCall, MoveKeeps, ClientFacts
       DEF LookUp, Held, Looking, Away, Waiting, Locations
  <2>. QED BY <1>5, <2>3, <2>4 DEF LookUp
<1>6. ASSUME NEW c \in Clients, InsertRow(c) PROVE PlaceInv'
  <2>1. /\ pc[c] = "row" /\ life = "open" /\ cacheMu = c
        /\ Goto(c, "select")
        /\ c \in Writers => ts[c] <= MaxFrames
    BY <1>6, InCall DEF InsertRow, PlaceInv
  <2>2. Held(c, "row") => writeMu = c
    BY <2>1, InCall
  <2>3. UNCHANGED <<life, ts, writeMu, cacheMu>>
    BY <1>6 DEF InsertRow
  <2>. QED
    BY <1>pc, <2>1, <2>2, <2>3, InCall, MoveKeeps, ClientFacts
       DEF Held, Looking, Away, Waiting, Locations
<1>7. ASSUME NEW c \in Clients, SelectRow(c) PROVE PlaceInv'
  <2>1. /\ pc[c] = "select" /\ life = "open" /\ cacheMu = c
        /\ c \in Writers => ts[c] <= MaxFrames
        /\ UNCHANGED <<life, ts>>
    BY <1>7, InCall DEF SelectRow, PlaceInv
  <2>2. Held(c, "select") => writeMu = c
    BY <2>1, InCall
  <2>3. CASE Throw(c)
    BY <2>1, <2>3, ThrowKeeps
  <2>4. CASE Goto(c, After(c)) /\ cacheMu' = Nobody /\ UNCHANGED writeMu
    <3>1. /\ After(c) \in Locations /\ After(c) \in {"insert", "prepare"}
          /\ (After(c) = "insert" => c \in Writers) /\ (After(c) = "prepare" => c \in Readers)
      BY ClientFacts DEF After, Locations
    <3>. QED
      BY <1>pc, <2>1, <2>2, <2>4, <3>1, InCall, MoveKeeps, ClientFacts
         DEF Held, Looking, Away, Waiting, After
  <2>. QED BY <1>7, <2>3, <2>4 DEF SelectRow
<1>8. ASSUME NEW w \in Writers, Write(w) \/ SyncBoundary(w) PROVE PlaceInv'
  <2>1. PICK place \in Waiting : Call(w, place) /\ (place = "write" => ts[w] <= MaxFrames)
    BY <1>8 DEF Write, SyncBoundary, Waiting
  <2>2. /\ pc[w] = "idle" /\ w \in Clients /\ place \in Locations
        /\ cacheMu # w /\ writeMu # w
        /\ ~Looking(place) /\ ~Held(w, place)
    BY <2>1, ClientFacts DEF Call, Waiting, Locations, PlaceInv, Looking, Held, Away
  <2>3. place \in {"write", "sync"}
    BY DEF Waiting
  <2>. QED BY <1>pc, <2>1, <2>2, <2>3, MoveKeeps, ClientFacts DEF Call
<1>14. ASSUME NEW w \in Writers, Lock(w) PROVE PlaceInv'
  <2>1. /\ pc[w] \in {"write", "sync"} /\ w \in Clients
        /\ Begun(w) \in {"lookUp", "commit", "begin"}
        /\ Begun(w) = "lookUp" => ts[w] <= MaxFrames
    BY <1>14, ClientFacts DEF Lock, Waiting, Begun, PlaceInv
  <2>2. life = "open" /\ cacheMu # w
    BY <2>1, InCall DEF PlaceInv
  <2>3. Begun(w) \in Locations /\ ~Looking(Begun(w)) /\ Held(w, Begun(w))
    BY <2>1 DEF Locations, Looking, Held, Away, Waiting
  <2>4. Goto(w, Begun(w)) /\ writeMu = Nobody /\ writeMu' = w /\ UNCHANGED <<life, cacheMu, ts>>
    BY <1>14 DEF Lock
  <2>. QED BY <1>pc, <2>1, <2>2, <2>3, <2>4, MoveKeeps
<1>9. ASSUME NEW w \in Writers, InsertFrame(w) PROVE PlaceInv'
  <2>1. /\ pc[w] = "insert" /\ life = "open" /\ w \in Clients /\ ts[w] <= MaxFrames
        /\ cacheMu # w /\ UNCHANGED life
    BY <1>9, InCall, ClientFacts DEF InsertFrame, PlaceInv
  <2>2. writeMu = w
    BY <2>1, InCall DEF Held, Away, Waiting
  <2>3. CASE Throw(w) /\ UNCHANGED ts
    BY <2>1, <2>3, ThrowKeeps
  <2>4. CASE WriteReturns(w)
    <3>1. /\ ts' \in [Writers -> 1 .. MaxFrames + 1]
          /\ \A v \in Writers : v # w => ts'[v] = ts[v]
      BY <1>pc, <2>1, <2>4, ClientFacts DEF WriteReturns
    <3>2. "idle" \in Locations /\ ~Held(w, "idle") /\ ~Looking("idle")
      BY DEF Locations, Held, Looking, Away, Waiting
    <3>. QED BY <2>1, <2>2, <2>4, <3>1, <3>2, MoveKeeps DEF WriteReturns
  <2>. QED BY <1>9, <2>3, <2>4 DEF InsertFrame
<1>10. ASSUME NEW w \in Writers, Commit(w) PROVE PlaceInv'
  <2>1. /\ pc[w] = "commit" /\ life = "open" /\ w \in Clients /\ cacheMu # w
        /\ UNCHANGED <<life, ts>>
    BY <1>10, InCall, ClientFacts DEF Commit, PlaceInv
  <2>2. writeMu = w
    BY <2>1, InCall DEF Held, Away, Waiting
  <2>3. CASE Throw(w)
    BY <2>1, <2>3, ThrowKeeps
  <2>4. CASE Goto(w, "begin") /\ UNCHANGED <<writeMu, cacheMu>>
    <3>1. "begin" \in Locations /\ Held(w, "begin") /\ ~Looking("begin")
      BY DEF Locations, Held, Looking, Away, Waiting
    <3>. QED BY <1>pc, <2>1, <2>2, <2>4, <3>1, MoveKeeps
  <2>. QED BY <1>10, <2>3, <2>4 DEF Commit
<1>11. ASSUME NEW w \in Writers, Begin(w) PROVE PlaceInv'
  <2>1. /\ pc[w] = "begin" /\ life = "open" /\ w \in Clients /\ cacheMu # w
        /\ UNCHANGED <<life, ts>>
    BY <1>11, InCall, ClientFacts DEF Begin, PlaceInv
  <2>2. writeMu = w
    BY <2>1, InCall DEF Held, Away, Waiting
  <2>3. CASE Throw(w)
    BY <2>1, <2>3, ThrowKeeps
  <2>4. CASE Goto(w, "idle") /\ writeMu' = Nobody /\ UNCHANGED cacheMu
    <3>1. "idle" \in Locations /\ ~Held(w, "idle") /\ ~Looking("idle")
      BY DEF Locations, Held, Looking, Away, Waiting
    <3>. QED BY <1>pc, <2>1, <2>2, <2>4, <3>1, MoveKeeps
  <2>. QED BY <1>11, <2>3, <2>4 DEF Begin
<1>12. ASSUME NEW r \in Readers,
              \/ Iterate(r) \/ PrepareCursor(r) \/ Find(r) \/ NextFrame(r) \/ CloseCursor(r)
       PROVE  PlaceInv'
  <2>1. /\ r \in Clients /\ r \notin Writers /\ life = "open" /\ writeMu # r /\ cacheMu # r
        /\ UNCHANGED <<life, ts>>
    BY <1>12, InCall, ClientFacts
       DEF Iterate, PrepareCursor, Find, NextFrame, MoveTo, CloseCursor, PlaceInv
  <2>2. CASE Throw(r)
    BY <2>1, <2>2, ThrowKeeps
  <2>3. ASSUME NEW loc \in {"lookUp", "reading", "idle"}, Goto(r, loc),
               UNCHANGED <<writeMu, cacheMu>>
        PROVE  PlaceInv'
    <3>1. loc \in Locations /\ ~Held(r, loc) /\ ~Looking(loc)
      BY <2>1 DEF Locations, Held, Looking
    <3>. QED BY <1>pc, <2>1, <2>3, <3>1, MoveKeeps
  <2>4. CASE UNCHANGED <<pc, writeMu, cacheMu>>
    BY <2>1, <2>4 DEF PlaceInv
  <2>. QED
    BY <1>12, <2>2, <2>3, <2>4
       DEF Iterate, PrepareCursor, Find, NextFrame, MoveTo, CloseCursor
<1>13. CASE UNCHANGED vars
  BY <1>13 DEF vars, PlaceInv
<1>. QED
  BY <1>1, <1>2, <1>3, <1>4, <1>5, <1>6, <1>7, <1>8, <1>9, <1>10, <1>11, <1>12, <1>13,
     <1>14, ClientFacts
     DEF Next, WriterStep, ReaderStep, Over

------------------------------------------------------------------------------
(* Values *)

\* No stream is longer than the bound.
LEMMA LengthsFacts ==
    ASSUME PlaceInv, NEW t, Legal(t, ts)
    PROVE  /\ \A s \in Streams : Len(t.frames[s]) \in 0 .. MaxFrames
           /\ Lengths(t) \in [Streams -> 0 .. MaxFrames]
<1>1. ASSUME NEW s \in Streams PROVE Len(t.frames[s]) \in 0 .. MaxFrames
  <2>1. Len(t.frames[s]) \in Nat /\ MaxFrames \in Nat
    BY TableFields, ClientFacts DEF Legal
  <2>2. CASE t.frames[s] = <<>>
    BY <2>1, <2>2
  <2>3. ASSUME NEW w \in Writers, Len(t.frames[s]) < ts[w]
        PROVE  Len(t.frames[s]) <= MaxFrames
    <3>1. ts[w] \in 1 .. MaxFrames + 1
      BY DEF PlaceInv
    <3>. QED BY <2>1, <2>3, <3>1
  <2>. QED BY <2>1, <2>2, <2>3 DEF Legal
<1>. QED BY <1>1 DEF Lengths

\* What writers write next never goes back.
LEMMA StillLegal ==
    ASSUME PlaceInv, NEW t, Legal(t, ts), ts' \in [Writers -> 1 .. MaxFrames + 1],
           \A w \in Writers : ts[w] <= ts'[w]
    PROVE  Legal(t, ts')
<1>1. ASSUME NEW s \in Streams, NEW w \in Writers, Own[w] = s, Len(t.frames[s]) < ts[w]
      PROVE  Len(t.frames[s]) < ts'[w]
  <2>1. ts[w] \in Nat /\ ts'[w] \in Nat /\ Len(t.frames[s]) \in Nat
    BY TableFields, ClientFacts DEF Legal, PlaceInv
  <2>. QED BY <1>1, <2>1
<1>. QED BY <1>1 DEF Legal

\* A failing statement changes nothing, or restores what is on disk.
LEMMA FailKeepsValues ==
    ASSUME ValueInv, NEW kind, Fail(kind),
           UNCHANGED <<runs, inTxn, cache, sid, ts, acked, promised>>
    PROVE  ValueInv'
<1>1. CASE UNCHANGED <<tables, cursor>>
  BY <1>1 DEF ValueInv, tables
<1>2. CASE RollBack
  <2>1. cursor' \in [Readers -> Aborted .. MaxFrames]
    BY <1>2, ClientFacts DEF RollBack, ValueInv, Aborted, NoCursor
  <2>. QED BY <1>2, <2>1 DEF RollBack, ValueInv
<1>. QED BY <1>1, <1>2 DEF Fail

\* A statement that succeeds.
LEMMA ExecuteKeepsValues ==
    ASSUME PlaceInv, ValueInv, NEW t, Execute(t), Legal(t, ts'),
           ts' \in [Writers -> 1 .. MaxFrames + 1], \A w \in Writers : ts[w] <= ts'[w],
           acked' \in [Writers -> SUBSET (1 .. MaxFrames)],
           UNCHANGED <<runs, inTxn, cache, sid, promised>>
    PROVE  ValueInv'
<1>1. Legal(disk, ts') /\ Legal(flushed, ts')
  BY StillLegal DEF ValueInv
<1>2. view' = t /\ disk' \in {disk, t} /\ flushed' \in {flushed, t}
  BY DEF Execute, Store
<1>3. Legal(view', ts') /\ Legal(disk', ts') /\ Legal(flushed', ts')
  BY <1>1, <1>2
<1>. QED BY <1>3 DEF ValueInv, Execute

\* A row more.
LEMMA RowIsLegal ==
    ASSUME ValueInv, NEW c \in Clients
    PROVE  Legal(RowInserted(c), ts)
<1>1. RowInserted(c) \in Tables /\ RowInserted(c).frames = view.frames
  BY RowFacts DEF ValueInv, Legal
<1>. QED BY <1>1 DEF ValueInv, Legal

\* A writer's next frame.
LEMMA FrameIsLegal ==
    ASSUME PlaceInv, ValueInv, NEW w \in Writers, ts[w] <= MaxFrames,
           ts' = [ts EXCEPT ![w] = @ + 1]
    PROVE  /\ ts' \in [Writers -> 1 .. MaxFrames + 1] /\ ts'[w] = ts[w] + 1
           /\ \A v \in Writers : ts[v] <= ts'[v]
           /\ Legal(FrameInserted(w), ts')
<1>1. /\ ts \in [Writers -> 1 .. MaxFrames + 1] /\ ts[w] \in 1 .. MaxFrames
      /\ sid[w] \in Ids /\ view \in Tables
  BY ClientFacts DEF PlaceInv, ValueInv, Legal
<1>2. /\ ts' \in [Writers -> 1 .. MaxFrames + 1] /\ ts'[w] = ts[w] + 1
      /\ \A v \in Writers : ts[v] <= ts'[v]
  BY <1>1, ClientFacts
<1>3. Legal(view, ts')
  BY <1>2, StillLegal DEF ValueInv
<1>4. FrameInserted(w) \in Tables
  BY <1>1, FrameFacts
<1>5. ASSUME NEW s \in Streams
      PROVE  \/ FrameInserted(w).frames[s] = <<>>
             \/ \E v \in Writers : Own[v] = s /\ Len(FrameInserted(w).frames[s]) < ts'[v]
  <2>1. CASE s = Own[w]
    <3>. DEFINE row == [id |-> sid[w], ts |-> ts[w]]
    <3>1. FrameInserted(w).frames[s] = Append(view.frames[s], row)
      BY <1>1, <2>1, FrameFacts
    <3>2. row \in FrameRows /\ view.frames[s] \in Seq(FrameRows)
      BY <1>1, TableFields DEF FrameRows
    <3>. HIDE DEF row
    <3>3. Len(FrameInserted(w).frames[s]) = Len(view.frames[s]) + 1 /\ Len(view.frames[s]) \in Nat
      BY <3>1, <3>2
    <3>4. Len(view.frames[s]) < ts[w]
      <4>1. CASE view.frames[s] = <<>>
        BY <1>1, <4>1
      <4>2. CASE view.frames[s] # <<>>
        <5>1. PICK v \in Writers : Own[v] = s /\ Len(view.frames[s]) < ts[v]
          BY <4>2 DEF ValueInv, Legal
        <5>2. v = w
          BY <2>1, <5>1, ClientFacts
        <5>. QED BY <5>1, <5>2
      <4>. QED BY <4>1, <4>2
    <3>5. Len(FrameInserted(w).frames[s]) < ts'[w]
      BY <1>1, <1>2, <3>3, <3>4
    <3>. QED BY <2>1, <3>5
  <2>2. CASE s # Own[w]
    <3>1. FrameInserted(w).frames[s] = view.frames[s]
      BY <1>1, <2>2, FrameFacts
    <3>. QED BY <1>3, <3>1 DEF Legal
  <2>. QED BY <2>1, <2>2
<1>. QED BY <1>2, <1>4, <1>5 DEF Legal

\* The next process finds one of the tables there were.
LEMMA ExitKeepsValues ==
    ASSUME PlaceInv, ValueInv, NEW state, NEW t \in {view, disk, flushed}, Exit(state, t)
    PROVE  ValueInv'
<1>1. Legal(t, ts) /\ UNCHANGED <<runs, ts, acked>>
  BY DEF ValueInv, Exit
<1>2. view' = t /\ disk' = t /\ flushed' \in {t, flushed}
  BY DEF Exit
<1>3. Legal(view', ts') /\ Legal(disk', ts') /\ Legal(flushed', ts')
  BY <1>1, <1>2 DEF ValueInv
<1>4. promised' \in [Streams -> 0 .. MaxFrames]
  BY LengthsFacts DEF Exit, ValueInv
<1>5. cache' \in [Streams -> Ids] /\ sid' \in [Clients -> Ids]
  BY StreamsAreFinite DEF Exit, Ids
<1>6. cursor' \in [Readers -> Aborted .. MaxFrames]
  BY ClientFacts DEF Exit, Aborted, NoCursor
<1>. QED BY <1>1, <1>3, <1>4, <1>5, <1>6 DEF Exit, ValueInv

\* Every step preserves the types.
LEMMA ValuesKept == PlaceInv /\ ValueInv /\ [Next]_vars => ValueInv'
<1>. SUFFICES ASSUME PlaceInv, ValueInv, [Next]_vars PROVE ValueInv'
  OBVIOUS
<1>1. CASE Setup
  <2>1. runs' \in 0 .. MaxProcesses
    BY <1>1, ClientFacts DEF Setup, ValueInv
  <2>. QED BY <1>1, <2>1 DEF Setup, ValueInv
<1>2. CASE Teardown \/ Die \/ PowerLoss
  BY <1>2, ExitKeepsValues DEF Teardown, Die, PowerLoss
<1>3. CASE Checkpoint
  BY <1>3 DEF Checkpoint, ValueInv
<1>4. ASSUME NEW c \in Clients, LookUp(c) PROVE ValueInv'
  <2>1. sid' \in [Clients -> Ids]
    BY <1>4, ClientFacts DEF LookUp, ValueInv
  <2>. QED BY <1>4, <2>1 DEF LookUp, ValueInv, tables
<1>5. ASSUME NEW c \in Clients, InsertRow(c) PROVE ValueInv'
  <2>0. UNCHANGED <<runs, inTxn, cache, sid, ts, acked, promised>>
    BY <1>5 DEF InsertRow
  <2>1. CASE Execute(RowInserted(c))
    <3>1. ts \in [Writers -> 1 .. MaxFrames + 1] /\ Legal(RowInserted(c), ts)
      BY RowIsLegal DEF PlaceInv
    <3>2. \A w \in Writers : ts[w] <= ts[w]
      BY <3>1
    <3>. QED BY <2>0, <2>1, <3>1, <3>2, ExecuteKeepsValues DEF ValueInv
  <2>2. CASE Fail("row")
    BY <2>0, <2>2, FailKeepsValues
  <2>. QED BY <1>5, <2>1, <2>2 DEF InsertRow, RowInserted
<1>6. ASSUME NEW c \in Clients, SelectRow(c) PROVE ValueInv'
  <2>1. RowId(c) \in Ids
    BY ClientFacts, TableFields DEF RowId, ValueInv, Legal
  <2>2. cache' \in [Streams -> Ids] /\ sid' \in [Clients -> Ids]
    BY <1>6, <2>1, ClientFacts DEF SelectRow, ValueInv
  <2>. QED BY <1>6, <2>2 DEF SelectRow, ValueInv, tables
<1>7. ASSUME NEW w \in Writers, Write(w) \/ SyncBoundary(w) \/ Lock(w) PROVE ValueInv'
  BY <1>7 DEF Write, SyncBoundary, Call, Lock, ValueInv, tables
<1>8. ASSUME NEW w \in Writers, InsertFrame(w) PROVE ValueInv'
  <2>0. pc[w] = "insert" /\ ts[w] <= MaxFrames /\ UNCHANGED <<runs, inTxn, cache, sid, promised>>
    BY <1>8 DEF InsertFrame, PlaceInv
  <2>1. CASE Execute(FrameInserted(w)) /\ WriteReturns(w)
    <3>1. ts' = [ts EXCEPT ![w] = @ + 1] /\ acked' = [acked EXCEPT ![w] = @ \cup {ts[w]}]
      BY <2>1 DEF WriteReturns
    <3>2. ts[w] \in 1 .. MaxFrames
      BY <2>0, ClientFacts DEF PlaceInv
    <3>3. acked' \in [Writers -> SUBSET (1 .. MaxFrames)]
      BY <3>1, <3>2 DEF ValueInv
    <3>. QED BY <2>0, <2>1, <3>1, <3>3, FrameIsLegal, ExecuteKeepsValues
  <2>2. CASE Fail("frame") /\ UNCHANGED <<ts, acked>>
    BY <2>0, <2>2, FailKeepsValues
  <2>. QED BY <1>8, <2>1, <2>2 DEF InsertFrame
<1>9. ASSUME NEW w \in Writers, Commit(w) PROVE ValueInv'
  <2>0. UNCHANGED <<runs, inTxn, cache, sid, ts, acked, promised>>
    BY <1>9 DEF Commit
  <2>1. CASE Store(view) /\ auto' = TRUE /\ UNCHANGED <<view, cursor>>
    BY <2>0, <2>1 DEF Store, ValueInv
  <2>2. CASE UNCHANGED <<tables, cursor>>
    BY <2>0, <2>2 DEF tables, ValueInv
  <2>3. CASE Fail("commit")
    BY <2>0, <2>3, FailKeepsValues
  <2>. QED BY <1>9, <2>1, <2>2, <2>3 DEF Commit
<1>10. ASSUME NEW w \in Writers, Begin(w) PROVE ValueInv'
  <2>1. promised' \in [Streams -> 0 .. MaxFrames]
    BY <1>10, LengthsFacts DEF Begin, ValueInv
  <2>. QED BY <1>10, <2>1 DEF Begin, ValueInv
<1>11. ASSUME NEW r \in Readers, Iterate(r) \/ PrepareCursor(r) \/ CloseCursor(r)
       PROVE  ValueInv'
  <2>1. UNCHANGED <<runs, inTxn, cache, sid, ts, acked, promised>>
    BY <1>11 DEF Iterate, PrepareCursor, CloseCursor
  <2>2. CASE Fail("cursor")
    BY <2>1, <2>2, FailKeepsValues
  <2>3. CASE UNCHANGED <<tables, cursor>>
    BY <2>1, <2>3 DEF tables, ValueInv
  <2>4. CASE UNCHANGED tables /\ cursor' = [cursor EXCEPT ![r] = NoCursor]
    <3>1. cursor' \in [Readers -> Aborted .. MaxFrames]
      BY <2>4, ClientFacts DEF ValueInv, NoCursor, Aborted
    <3>. QED BY <2>1, <2>4, <3>1 DEF tables, ValueInv
  <2>. QED
    BY <1>11, <2>2, <2>3, <2>4 DEF Iterate, PrepareCursor, CloseCursor
<1>12. ASSUME NEW r \in Readers, NEW first \in Nat, MoveTo(r, first),
              UNCHANGED <<runs, inTxn, cache, sid, ts, acked, promised>>
       PROVE  ValueInv'
  <2>1. CASE Fail("cursor")
    BY <1>12, <2>1, FailKeepsValues
  <2>2. CASE /\ cursor' = [cursor EXCEPT ![r] = IF RowsFrom(r, first) = {} THEN NoCursor
                                                ELSE Min(RowsFrom(r, first))]
             /\ UNCHANGED tables
    <3>. DEFINE S == RowsFrom(r, first)
                to == IF S = {} THEN NoCursor ELSE Min(S)
    <3>1. S \in SUBSET (first .. MaxFrames) /\ first .. MaxFrames \subseteq Nat
      BY ClientFacts DEF RowsFrom
    <3>. HIDE DEF S
    <3>2. S # {} => Min(S) \in S
      BY <3>1, LeastNumber
    <3>3. to \in 0 .. MaxFrames
      <4>1. MaxFrames \in Nat /\ first \in Nat
        BY ClientFacts
      <4>2. CASE S = {}
        BY <4>1, <4>2 DEF NoCursor
      <4>3. CASE S # {}
        <5>1. Min(S) \in first .. MaxFrames
          BY <3>1, <3>2, <4>3
        <5>2. to = Min(S)
          BY <4>3
        <5>. HIDE DEF to
        <5>. QED BY <4>1, <5>1, <5>2
      <4>. QED BY <4>2, <4>3
    <3>4. cursor' = [cursor EXCEPT ![r] = to]
      BY <2>2 DEF S
    <3>. HIDE DEF to
    <3>5. cursor' \in [Readers -> Aborted .. MaxFrames]
      BY <3>3, <3>4, ClientFacts DEF ValueInv, Aborted
    <3>. QED BY <1>12, <2>2, <3>5 DEF tables, ValueInv
  <2>. QED BY <1>12, <2>1, <2>2 DEF MoveTo
<1>13. ASSUME NEW r \in Readers, Find(r) \/ NextFrame(r) PROVE ValueInv'
  <2>1. UNCHANGED <<runs, inTxn, cache, sid, ts, acked, promised>>
    BY <1>13 DEF Find, NextFrame
  <2>2. CASE UNCHANGED <<tables, cursor>>
    BY <2>1, <2>2 DEF tables, ValueInv
  <2>3. CASE \E target \in 1 .. MaxFrames : MoveTo(r, target)
    BY <1>12, <2>1, <2>3
  <2>4. CASE cursor[r] > 0 /\ MoveTo(r, cursor[r] + 1)
    <3>1. cursor[r] + 1 \in Nat
      BY <2>4, ClientFacts DEF ValueInv, Aborted
    <3>. QED BY <1>12, <2>1, <2>4, <3>1
  <2>. QED BY <1>13, <2>2, <2>3, <2>4 DEF Find, NextFrame
<1>14. CASE UNCHANGED vars
  BY <1>14 DEF vars, tables, ValueInv
<1>. QED
  BY <1>1, <1>2, <1>3, <1>4, <1>5, <1>6, <1>7, <1>8, <1>9, <1>10, <1>11, <1>13, <1>14, ClientFacts
     DEF Next, WriterStep, ReaderStep, Over

------------------------------------------------------------------------------
(* Tables *)

\* What a step can do to the tables.
Executes == \E t \in Tables : Grown(view, t) /\ Execute(t)
Commits  == Store(view) /\ auto' = TRUE /\ UNCHANGED view
Flushes  == flushed' = disk /\ UNCHANGED <<view, disk, auto>>
Begins   == auto' = FALSE /\ UNCHANGED <<view, disk, flushed>>
Exits    == \/ \E t \in {view, disk} : Exit("closed", t)
            \/ \E t \in {disk, flushed} : Exit("off", t)

LEMMA StepOfTables ==
    PlaceInv /\ ValueInv /\ [Next]_vars =>
        \/ UNCHANGED tables
        \/ RollBack /\ ~Steady
        \/ Executes \/ Commits \/ Flushes \/ Begins \/ Exits
<1>. SUFFICES ASSUME PlaceInv, ValueInv, [Next]_vars
              PROVE  \/ UNCHANGED tables
                     \/ RollBack /\ ~Steady
                     \/ Executes \/ Commits \/ Flushes \/ Begins \/ Exits
  OBVIOUS
<1>0. ASSUME NEW kind, Fail(kind), kind # "begin"
      PROVE  UNCHANGED tables \/ (RollBack /\ ~Steady)
  BY <1>0 DEF Fail, Steady
<1>1. CASE Setup
  BY <1>1 DEF Setup, Begins, tables
<1>2. CASE Teardown \/ Die \/ PowerLoss
  BY <1>2, Zenon DEF Teardown, Die, PowerLoss, Exits
<1>3. CASE Checkpoint
  BY <1>3 DEF Checkpoint, Flushes
<1>4. ASSUME NEW c \in Clients, LookUp(c) \/ SelectRow(c) PROVE UNCHANGED tables
  BY <1>4 DEF LookUp, SelectRow
<1>5. ASSUME NEW c \in Clients, InsertRow(c), ~Fail("row") PROVE Executes
  <2>1. Execute(RowInserted(c))
    BY <1>5 DEF InsertRow, RowInserted
  <2>2. view \in Tables /\ RowInserted(c) \in Tables /\ RowInserted(c).frames = view.frames
    BY RowFacts DEF ValueInv, Legal
  <2>3. Grown(view, RowInserted(c))
    BY <2>2, GrownNot
  <2>. QED BY <2>1, <2>2, <2>3 DEF Executes
<1>6. ASSUME NEW w \in Writers, InsertFrame(w), ~Fail("frame") PROVE Executes
  <2>1. Execute(FrameInserted(w)) /\ pc[w] = "insert"
    BY <1>6 DEF InsertFrame
  <2>2. view \in Tables /\ sid[w] \in Ids /\ ts[w] \in 1 .. MaxFrames
    BY <2>1, ClientFacts DEF ValueInv, Legal, PlaceInv
  <2>3. FrameInserted(w) \in Tables /\ Grown(view, FrameInserted(w))
    BY <2>2, FrameFacts, GrownByFrame
  <2>. QED BY <2>1, <2>3 DEF Executes
<1>7. ASSUME NEW w \in Writers, Commit(w), ~Fail("commit") PROVE Commits \/ UNCHANGED tables
  BY <1>7 DEF Commit, Commits
<1>8. ASSUME NEW w \in Writers, Begin(w) PROVE Begins \/ UNCHANGED tables
  BY <1>8 DEF Begin, Begins, tables
<1>9. ASSUME NEW w \in Writers, Write(w) \/ SyncBoundary(w) \/ Lock(w) PROVE UNCHANGED tables
  BY <1>9 DEF Write, SyncBoundary, Call, Lock
<1>10. ASSUME NEW r \in Readers, ~Fail("cursor"),
              \/ Iterate(r) \/ PrepareCursor(r) \/ Find(r) \/ NextFrame(r) \/ CloseCursor(r)
       PROVE  UNCHANGED tables
  BY <1>10 DEF Iterate, PrepareCursor, Find, NextFrame, MoveTo, CloseCursor
<1>11. CASE UNCHANGED vars
  BY <1>11 DEF vars
<1>. QED
  BY <1>0, <1>1, <1>2, <1>3, <1>4, <1>5, <1>6, <1>7, <1>8, <1>9, <1>10, <1>11, ClientFacts
     DEF Next, WriterStep, ReaderStep, Over

LEMMA TablesKept == BackendInv /\ [Next]_vars => TableInv'
<1>. SUFFICES ASSUME BackendInv, [Next]_vars PROVE TableInv'
  OBVIOUS
<1>0. /\ view \in Tables /\ disk \in Tables /\ flushed \in Tables
      /\ Grown(flushed, disk) /\ Grown(disk, view)
      /\ Grown(view, view) /\ Grown(disk, disk) /\ Grown(flushed, flushed)
  BY GrownNot DEF BackendInv, ValueInv, Legal, TableInv
<1>1. CASE UNCHANGED tables
  BY <1>1 DEF tables, BackendInv, TableInv
<1>2. CASE RollBack
  BY <1>0, <1>2 DEF RollBack, BackendInv, TableInv
<1>3. CASE Executes
  <2>1. PICK t \in Tables : Grown(view, t) /\ Execute(t)
    BY <1>3 DEF Executes
  <2>2. Grown(t, t) /\ Grown(disk, t) /\ Grown(flushed, t)
    BY <1>0, <2>1, GrownNot, GrownTwice
  <2>3. CASE auto
    BY <1>0, <2>1, <2>2, <2>3 DEF Execute, Store, BackendInv, TableInv
  <2>4. CASE ~auto
    BY <1>0, <2>1, <2>2, <2>4 DEF Execute, BackendInv, TableInv
  <2>. QED BY <2>3, <2>4
<1>4. CASE Commits
  <2>1. Grown(flushed, view)
    BY <1>0, GrownTwice
  <2>. QED BY <1>0, <1>4, <2>1 DEF Commits, Store, TableInv
<1>5. CASE Flushes
  BY <1>0, <1>5 DEF Flushes, BackendInv, TableInv
<1>6. CASE Begins
  BY <1>0, <1>6 DEF Begins, BackendInv, TableInv
<1>7. ASSUME NEW t \in {view, disk}, Exit("closed", t) PROVE TableInv'
  BY <1>0, <1>7 DEF Exit, TableInv
<1>8. ASSUME NEW t \in {disk, flushed}, Exit("off", t) PROVE TableInv'
  BY <1>0, <1>8 DEF Exit, BackendInv, TableInv
<1>. QED
  BY <1>1, <1>2, <1>3, <1>4, <1>5, <1>6, <1>7, <1>8, StepOfTables DEF BackendInv, Exits

\* The file is empty and nobody is there.
LEMMA InitEstablishesInv == Init => BackendInv
<1>. SUFFICES ASSUME Init PROVE BackendInv
  OBVIOUS
<1>1. PlaceInv
  <2>1. \A c \in Clients : pc[c] = "idle"
    BY DEF Init
  <2>2. pc \in [Clients -> Locations] /\ ts \in [Writers -> 1 .. MaxFrames + 1]
    BY ClientFacts DEF Init, Locations
  <2>3. life = "off" /\ writeMu = Nobody /\ cacheMu = Nobody
    BY DEF Init
  <2>. QED BY <2>1, <2>2, <2>3, ClientFacts DEF PlaceInv, Away, Waiting
<1>2. Empty \in Tables
  <2>. DEFINE zeros == [s \in Streams |-> 0]
              nothing == [s \in Streams |-> <<>>]
  <2>1. zeros \in [Streams -> Ids]
    BY StreamsAreFinite DEF Ids
  <2>2. nothing \in [Streams -> Seq(FrameRows)]
    OBVIOUS
  <2>3. Empty = [streams |-> zeros, frames |-> nothing]
    BY DEF Empty
  <2>4. Tables = [streams : [Streams -> Ids], frames : [Streams -> Seq(FrameRows)]]
    BY DEF Tables, Ids, FrameRows
  <2>. HIDE DEF zeros, nothing
  <2>. QED BY <2>1, <2>2, <2>3, <2>4
<1>3. \A s \in Streams : Empty.frames[s] = <<>>
  BY DEF Empty
<1>4. Legal(Empty, ts)
  BY <1>2, <1>3 DEF Legal
<1>5. ValueInv
  <2>1. Legal(view, ts) /\ Legal(disk, ts) /\ Legal(flushed, ts)
    BY <1>4 DEF Init
  <2>2. 0 \in Ids /\ 0 \in 0 .. MaxFrames /\ 0 \in Aborted .. MaxFrames /\ 0 \in 0 .. MaxProcesses
    BY ClientFacts, StreamsAreFinite DEF Ids, Aborted
  <2>. QED BY <2>1, <2>2 DEF Init, ValueInv, NoCursor
<1>6. TableInv
  BY <1>2, GrownNot DEF Init, TableInv
<1>. QED BY <1>1, <1>5, <1>6 DEF BackendInv

\* Every step preserves the invariant.
LEMMA NextPreservesInv == BackendInv /\ [Next]_vars => BackendInv'
BY PlacesKept, ValuesKept, TablesKept DEF BackendInv

\* The invariant holds in every reachable state.
THEOREM InvariantHolds == Spec => []BackendInv
BY InitEstablishesInv, NextPreservesInv, PTL DEF Spec

\* Types, and _write_mu is held by the writer whose call is past its beginning, whichever
\* statements fail and processes die.
THEOREM TypeCorrect == Spec => []TypeOK
<1>1. BackendInv => TypeOK
  <2>. SUFFICES ASSUME BackendInv PROVE TypeOK
    OBVIOUS
  <2>1. view \in Tables /\ disk \in Tables /\ flushed \in Tables
    BY DEF BackendInv, ValueInv, Legal
  <2>. QED BY <2>1 DEF BackendInv, PlaceInv, ValueInv, TypeOK, Locations, Away, Waiting, Ids
<1>. QED BY <1>1, InvariantHolds, PTL

------------------------------------------------------------------------------
(* Ids *)

LEMMA IdsAgreeByRow ==
    ASSUME view \in Tables, IdsAgree(view), NEW c \in Clients
    PROVE  IdsAgree(RowInserted(c))
<1>1. /\ RowInserted(c).frames = view.frames
      /\ \A s \in Streams : view.streams[s] # 0 => RowInserted(c).streams[s] = view.streams[s]
  BY RowFacts
<1>. QED BY <1>1 DEF IdsAgree

LEMMA IdsAgreeByFrame ==
    ASSUME view \in Tables, IdsAgree(view), NEW w \in Writers, sid[w] \in Ids,
           ts[w] \in 1 .. MaxFrames, sid[w] # 0, view.streams[Own[w]] = sid[w]
    PROVE  IdsAgree(FrameInserted(w))
<1>. DEFINE u == FrameInserted(w)
            row == [id |-> sid[w], ts |-> ts[w]]
<1>1. /\ u.streams = view.streams
      /\ u.frames[Own[w]] = Append(view.frames[Own[w]], row)
      /\ \A s \in Streams : s # Own[w] => u.frames[s] = view.frames[s]
  BY FrameFacts
<1>. HIDE DEF u
<1>. SUFFICES ASSUME NEW s \in Streams, NEW i \in 1 .. Len(u.frames[s])
              PROVE  u.streams[s] # 0 /\ u.frames[s][i].id = u.streams[s]
  BY DEF IdsAgree, u
<1>2. CASE s # Own[w]
  BY <1>1, <1>2 DEF IdsAgree
<1>3. CASE s = Own[w]
  <2>1. view.frames[s] \in Seq(FrameRows) /\ row \in FrameRows /\ row.id = sid[w]
    BY TableFields DEF FrameRows
  <2>. HIDE DEF row
  <2>2. \/ i = Len(view.frames[s]) + 1 /\ u.frames[s][i] = row
        \/ i \in 1 .. Len(view.frames[s]) /\ u.frames[s][i] = view.frames[s][i]
    <3>. DEFINE q == view.frames[s]
    <3>. HIDE DEF q
    <3>1. /\ Len(Append(q, row)) = Len(q) + 1 /\ Len(q) \in Nat
          /\ \A j \in 1 .. Len(q) : Append(q, row)[j] = q[j]
          /\ Append(q, row)[Len(q) + 1] = row
      BY <2>1 DEF q
    <3>2. u.frames[s] = Append(q, row)
      BY <1>1, <1>3 DEF q, row
    <3>3. i \in 1 .. Len(q) \/ i = Len(q) + 1
      BY <3>1, <3>2
    <3>. QED BY <3>1, <3>2, <3>3 DEF q
  <2>3. CASE i = Len(view.frames[s]) + 1 /\ u.frames[s][i] = row
    BY <1>1, <1>3, <2>1, <2>3 DEF IdsAgree
  <2>4. CASE i \in 1 .. Len(view.frames[s]) /\ u.frames[s][i] = view.frames[s][i]
    BY <1>1, <1>3, <2>1, <2>4 DEF IdsAgree
  <2>. QED BY <2>2, <2>3, <2>4
<1>. QED BY <1>2, <1>3

\* A step that leaves tables and cache alone, and sends no writer to insert a frame.
LEMMA IdsKeptBy ==
    ASSUME IdInv, UNCHANGED <<view, disk, flushed, cache, sid>>,
           \A w \in Writers : pc'[w] = "insert" => pc[w] = "insert"
    PROVE  IdInv'
BY DEF IdInv, IdsAgree

LEMMA IdsKept == Steady /\ BackendInv /\ IdInv /\ [Next]_vars => IdInv'
<1>. SUFFICES ASSUME Steady, BackendInv, IdInv, [Next]_vars PROVE IdInv'
  OBVIOUS
<1>pc. /\ pc \in [Clients -> Locations] /\ view \in Tables
       /\ cache \in [Streams -> Ids] /\ sid \in [Clients -> Ids]
  BY DEF BackendInv, PlaceInv, ValueInv, Legal
<1>0. \A kind : kind # "begin" => ~Fail(kind)
  BY DEF Fail, Steady
<1>go. ASSUME NEW c \in Clients, NEW loc \in Locations, Goto(c, loc)
       PROVE  pc'[c] = loc /\ \A w \in Writers : w # c => pc'[w] = pc[w]
  BY <1>pc, <1>go, GotoFacts, ClientFacts
<1>1. CASE Setup
  BY <1>1, IdsKeptBy DEF Setup
<1>2. ASSUME NEW state, NEW t \in {view, disk, flushed}, Exit(state, t) PROVE IdInv'
  <2>1. IdsAgree(t)
    BY DEF IdInv
  <2>2. view' = t /\ disk' = t /\ flushed' \in {t, flushed}
    BY <1>2 DEF Exit
  <2>3. IdsAgree(view)' /\ IdsAgree(disk)' /\ IdsAgree(flushed)'
    BY <2>1, <2>2 DEF IdInv, IdsAgree
  <2>4. /\ \A s \in Streams : cache'[s] = 0
        /\ \A w \in Writers : pc'[w] = "idle"
    BY <1>2, ClientFacts DEF Exit
  <2>. QED BY <2>3, <2>4 DEF IdInv
<1>3. CASE Teardown \/ Die \/ PowerLoss
  BY <1>2, <1>3 DEF Teardown, Die, PowerLoss
<1>4. CASE Checkpoint
  BY <1>4 DEF Checkpoint, IdInv, IdsAgree
<1>5. ASSUME NEW c \in Clients, LookUp(c) PROVE IdInv'
  <2>1. CASE cache[Own[c]] # 0
    <3>1. /\ sid' = [sid EXCEPT ![c] = cache[Own[c]]] /\ Goto(c, After(c))
          /\ UNCHANGED <<view, disk, flushed, cache>>
      BY <1>5, <2>1 DEF LookUp, tables
    <3>2. /\ sid'[c] = cache[Own[c]] /\ sid'[c] = view.streams[Own[c]]
          /\ \A w \in Writers : w # c => sid'[w] = sid[w]
      BY <1>pc, <2>1, <3>1, ClientFacts DEF IdInv
    <3>3. \A w \in Writers : w # c => pc'[w] = pc[w]
      BY <3>1, <1>go DEF After, Locations
    <3>. QED BY <2>1, <3>1, <3>2, <3>3 DEF IdInv, IdsAgree
  <2>2. CASE cache[Own[c]] = 0
    BY <1>5, <2>2, <1>go, IdsKeptBy DEF LookUp, tables, Locations
  <2>. QED BY <2>1, <2>2
<1>6. ASSUME NEW c \in Clients, InsertRow(c) PROVE IdInv'
  <2>1. Execute(RowInserted(c)) /\ Goto(c, "select") /\ UNCHANGED <<cache, sid>>
    BY <1>0, <1>6 DEF InsertRow, RowInserted
  <2>2. /\ IdsAgree(RowInserted(c))
        /\ \A s \in Streams : view.streams[s] # 0 => RowInserted(c).streams[s] = view.streams[s]
    BY <1>pc, IdsAgreeByRow, RowFacts DEF IdInv
  <2>3. /\ view' = RowInserted(c) /\ disk' \in {disk, view'} /\ flushed' \in {flushed, view'}
    BY <2>1 DEF Execute, Store
  <2>4. IdsAgree(view)' /\ IdsAgree(disk)' /\ IdsAgree(flushed)'
    BY <2>2, <2>3 DEF IdInv, IdsAgree
  <2>5. \A w \in Writers : pc'[w] = "insert" => pc[w] = "insert"
    BY <2>1, <1>go DEF Locations
  <2>. QED BY <2>1, <2>2, <2>3, <2>4, <2>5, ClientFacts DEF IdInv
<1>7. ASSUME NEW c \in Clients, SelectRow(c) PROVE IdInv'
  <2>0. UNCHANGED <<view, disk, flushed>>
    BY <1>7 DEF SelectRow, tables
  <2>1. CASE RowId(c) = 0
    BY <1>7, <2>0, <2>1, <1>go, IdsKeptBy DEF SelectRow, Throw, Locations
  <2>2. CASE RowId(c) # 0
    <3>1. /\ sid' = [sid EXCEPT ![c] = RowId(c)] /\ cache' = [cache EXCEPT ![Own[c]] = RowId(c)]
          /\ Goto(c, After(c))
      BY <1>7, <2>2 DEF SelectRow
    <3>2. /\ sid'[c] = RowId(c) /\ \A w \in Writers : w # c => sid'[w] = sid[w]
          /\ cache'[Own[c]] = RowId(c)
          /\ \A s \in Streams : s # Own[c] => cache'[s] = cache[s]
      BY <1>pc, <3>1, ClientFacts
    <3>3. \A w \in Writers : w # c => pc'[w] = pc[w]
      BY <3>1, <1>go DEF After, Locations
    <3>. QED BY <2>0, <2>2, <3>2, <3>3, ClientFacts DEF IdInv, IdsAgree, RowId
  <2>. QED BY <2>1, <2>2
<1>8. ASSUME NEW w \in Writers, InsertFrame(w) PROVE IdInv'
  <2>1. /\ Execute(FrameInserted(w)) /\ Goto(w, "idle") /\ pc[w] = "insert"
        /\ UNCHANGED <<cache, sid>>
    BY <1>0, <1>8 DEF InsertFrame, WriteReturns
  <2>2. sid[w] \in Ids /\ ts[w] \in 1 .. MaxFrames
    BY <1>pc, <2>1, ClientFacts DEF BackendInv, PlaceInv
  <2>3. IdsAgree(FrameInserted(w)) /\ FrameInserted(w).streams = view.streams
    BY <1>pc, <2>1, <2>2, IdsAgreeByFrame, FrameFacts DEF IdInv
  <2>4. /\ view' = FrameInserted(w) /\ disk' \in {disk, view'} /\ flushed' \in {flushed, view'}
    BY <2>1 DEF Execute, Store
  <2>5. IdsAgree(view)' /\ IdsAgree(disk)' /\ IdsAgree(flushed)'
    <3>1. IdsAgree(view') /\ IdsAgree(disk) /\ IdsAgree(flushed)
      BY <2>3, <2>4 DEF IdInv
    <3>2. IdsAgree(disk') /\ IdsAgree(flushed')
      BY <2>4, <3>1
    <3>. QED BY <3>1, <3>2 DEF IdsAgree
  <2>6. \A v \in Writers : pc'[v] = "insert" => pc[v] = "insert"
    BY <2>1, <1>go, ClientFacts DEF Locations
  <2>. QED BY <2>1, <2>3, <2>4, <2>5, <2>6 DEF IdInv
<1>9. ASSUME NEW w \in Writers, Commit(w) PROVE IdInv'
  <2>1. /\ view' = view /\ disk' \in {disk, view} /\ flushed' \in {flushed, view}
        /\ UNCHANGED <<cache, sid>>
    BY <1>0, <1>9 DEF Commit, Store, tables
  <2>2. \A v \in Writers : pc'[v] = "insert" => pc[v] = "insert"
    BY <1>0, <1>9, <1>go, ClientFacts DEF Commit, Throw, Locations
  <2>. QED BY <2>1, <2>2 DEF IdInv, IdsAgree
<1>10. ASSUME NEW w \in Writers, Begin(w) \/ Write(w) \/ SyncBoundary(w) \/ Lock(w) PROVE IdInv'
  <2>1. \A v \in Writers : pc'[v] = "insert" => pc[v] = "insert"
    BY <1>10, <1>go, ClientFacts
       DEF Begin, Write, SyncBoundary, Call, Lock, Begun, Throw, Locations
  <2>. QED BY <1>10, <2>1, IdsKeptBy DEF Begin, Write, SyncBoundary, Call, Lock, tables
<1>11. ASSUME NEW r \in Readers,
              \/ Iterate(r) \/ PrepareCursor(r) \/ Find(r) \/ NextFrame(r) \/ CloseCursor(r)
       PROVE  IdInv'
  <2>1. \A w \in Writers : pc'[w] = pc[w]
    <3>1. \/ UNCHANGED pc
          \/ \E loc \in {"lookUp", "reading", "threw", "idle"} : Goto(r, loc)
      BY <1>0, <1>11 DEF Iterate, PrepareCursor, Find, NextFrame, MoveTo, CloseCursor, Throw
    <3>. QED BY <3>1, <1>go, ClientFacts DEF Locations
  <2>. QED
    BY <1>0, <1>11, <2>1, IdsKeptBy
       DEF Iterate, PrepareCursor, Find, NextFrame, MoveTo, CloseCursor, tables
<1>12. CASE UNCHANGED vars
  BY <1>12, IdsKeptBy DEF vars, tables
<1>. QED
  BY <1>1, <1>3, <1>4, <1>5, <1>6, <1>7, <1>8, <1>9, <1>10, <1>11, <1>12, ClientFacts
     DEF Next, WriterStep, ReaderStep, Over

\* "Return the integer id for |name|, inserting a row if needed."
\* (sqlite_backend.cpp:265): unless a statement fails that may roll back, every frame has
\* the id that the table gives its stream, over all processes and whatever a crash takes.
THEOREM FramesStayWithTheirStream ==
    ASSUME Steady PROVE Spec => []FramesKeepTheirStream
<1>1. Init => IdInv
  BY ClientFacts DEF Init, IdInv, IdsAgree, Empty
<1>2. BackendInv /\ IdInv /\ [Next]_vars => IdInv'
  BY IdsKept
<1>3. IdInv => FramesKeepTheirStream
  BY DEF IdInv, IdsAgree, FramesKeepTheirStream
<1>. QED BY <1>1, <1>2, <1>3, InvariantHolds, PTL DEF Spec

------------------------------------------------------------------------------
(* The transaction *)

\* What FrameStore sees of a step, when nothing rolls back.
Quiet == UNCHANGED <<life, inTxn, promised>> /\ view'.frames = view.frames
Inserts(w) == /\ pc[w] = "insert" /\ view' = FrameInserted(w)
              /\ UNCHANGED <<life, inTxn, promised>>

LEMMA StepOfStore ==
    ASSUME Steady, BackendInv, [Next]_vars
    PROVE  \/ Quiet
           \/ \E w \in Writers : Inserts(w)
           \/ Setup
           \/ \E w \in Writers : Begin(w)
           \/ Teardown \/ Die \/ PowerLoss
<1>0. \A kind : kind # "begin" => ~Fail(kind)
  BY DEF Fail, Steady
<1>1. CASE Checkpoint
  BY <1>1 DEF Checkpoint, Quiet
<1>2. ASSUME NEW c \in Clients, LookUp(c) \/ SelectRow(c) PROVE Quiet
  BY <1>2 DEF LookUp, SelectRow, tables, Quiet
<1>3. ASSUME NEW c \in Clients, InsertRow(c) PROVE Quiet
  <2>1. view' = RowInserted(c) /\ UNCHANGED <<life, inTxn, promised>>
    BY <1>0, <1>3 DEF InsertRow, Execute, RowInserted
  <2>2. RowInserted(c).frames = view.frames
    BY RowFacts DEF BackendInv, ValueInv, Legal
  <2>. QED BY <2>1, <2>2 DEF Quiet
<1>4. ASSUME NEW w \in Writers, InsertFrame(w) PROVE Inserts(w)
  BY <1>0, <1>4 DEF InsertFrame, Execute, Inserts
<1>5. ASSUME NEW w \in Writers, Write(w) \/ SyncBoundary(w) \/ Lock(w) \/ Commit(w) PROVE Quiet
  BY <1>0, <1>5 DEF Write, SyncBoundary, Call, Lock, Commit, tables, Quiet
<1>6. ASSUME NEW r \in Readers,
             \/ Iterate(r) \/ PrepareCursor(r) \/ Find(r) \/ NextFrame(r) \/ CloseCursor(r)
      PROVE  Quiet
  BY <1>0, <1>6
     DEF Iterate, PrepareCursor, Find, NextFrame, MoveTo, CloseCursor, tables, Quiet
<1>7. CASE UNCHANGED vars
  BY <1>7 DEF vars, tables, Quiet
<1>. QED
  BY <1>1, <1>2, <1>3, <1>4, <1>5, <1>6, <1>7, ClientFacts
     DEF Next, WriterStep, ReaderStep, Over

\* A step that does not end a transaction.
LEMMA WrapKeptBy ==
    ASSUME WrapInv, UNCHANGED <<life, auto, inTxn>>,
           \A w \in Writers : pc[w] = "begin" => pc'[w] = "begin"
    PROVE  WrapInv'
BY DEF WrapInv

LEMMA WrapKept == Failing = {} /\ BackendInv /\ WrapInv /\ [Next]_vars => WrapInv'
<1>. SUFFICES ASSUME Failing = {}, BackendInv, WrapInv, [Next]_vars PROVE WrapInv'
  OBVIOUS
<1>pc. pc \in [Clients -> Locations]
  BY DEF BackendInv, PlaceInv
<1>0. \A kind : ~Fail(kind)
  BY DEF Fail
<1>go. ASSUME NEW c \in Clients, NEW loc \in Locations, Goto(c, loc)
       PROVE  pc'[c] = loc /\ \A w \in Writers : w # c => pc'[w] = pc[w]
  BY <1>pc, <1>go, GotoFacts, ClientFacts
<1>1. CASE Setup
  BY <1>1 DEF Setup, WrapInv
<1>2. CASE Teardown \/ Die \/ PowerLoss
  BY <1>2 DEF Teardown, Die, PowerLoss, Exit, WrapInv
<1>3. CASE Checkpoint
  BY <1>3, WrapKeptBy DEF Checkpoint
<1>4. ASSUME NEW c \in Clients, LookUp(c) \/ InsertRow(c) \/ SelectRow(c) PROVE WrapInv'
  <2>1. \A w \in Writers : pc[w] = "begin" => pc'[w] = "begin"
    BY <1>4, <1>go DEF LookUp, InsertRow, SelectRow, Throw, After, Locations
  <2>. QED BY <1>0, <1>4, <2>1, WrapKeptBy DEF LookUp, InsertRow, SelectRow, Execute, tables
<1>5. ASSUME NEW w \in Writers, InsertFrame(w) \/ Write(w) \/ SyncBoundary(w) \/ Lock(w)
      PROVE  WrapInv'
  <2>1. \A v \in Writers : pc[v] = "begin" => pc'[v] = "begin"
    BY <1>0, <1>5, <1>go, ClientFacts
       DEF InsertFrame, WriteReturns, Write, SyncBoundary, Call, Lock, Begun, Waiting, Locations
  <2>. QED
    BY <1>0, <1>5, <2>1, WrapKeptBy
       DEF InsertFrame, Execute, Write, SyncBoundary, Call, Lock, tables
<1>6. ASSUME NEW w \in Writers, Commit(w) PROVE WrapInv'
  <2>1. CASE ~auto /\ auto' = TRUE /\ Goto(w, "begin")
    BY <1>6, <2>1, <1>go, ClientFacts DEF Commit, WrapInv, Locations
  <2>2. CASE auto /\ UNCHANGED auto /\ Goto(w, "threw")
    <3>1. \A v \in Writers : pc[v] = "begin" => pc'[v] = "begin"
      BY <1>6, <2>2, <1>go, ClientFacts DEF Commit, Locations
    <3>. QED BY <1>6, <2>2, <3>1, WrapKeptBy DEF Commit
  <2>. QED BY <1>0, <1>6, <2>1, <2>2 DEF Commit, Throw, tables
<1>7. ASSUME NEW w \in Writers, Begin(w) PROVE WrapInv'
  BY <1>7 DEF Begin, WrapInv
<1>8. ASSUME NEW r \in Readers,
             \/ Iterate(r) \/ PrepareCursor(r) \/ Find(r) \/ NextFrame(r) \/ CloseCursor(r)
      PROVE  WrapInv'
  <2>1. \A w \in Writers : pc'[w] = pc[w]
    <3>1. \/ UNCHANGED pc
          \/ \E loc \in {"lookUp", "reading", "threw", "idle"} : Goto(r, loc)
      BY <1>0, <1>8 DEF Iterate, PrepareCursor, Find, NextFrame, MoveTo, CloseCursor, Throw
    <3>. QED BY <3>1, <1>go, ClientFacts DEF Locations
  <2>. QED
    BY <1>0, <1>8, <2>1, WrapKeptBy
       DEF Iterate, PrepareCursor, Find, NextFrame, MoveTo, CloseCursor, tables
<1>9. CASE UNCHANGED vars
  BY <1>9, WrapKeptBy DEF vars, tables
<1>. QED
  BY <1>1, <1>2, <1>3, <1>4, <1>5, <1>6, <1>7, <1>8, <1>9, ClientFacts
     DEF Next, WriterStep, ReaderStep, Over

\* Only InsertFrame makes a stream longer.
LEMMA OnlyInsertsGrow ==
    ASSUME Steady, BackendInv, [Next]_vars,
           NEW s \in Streams, Len(view'.frames[s]) > Len(view.frames[s])
    PROVE  \E w \in Writers : pc[w] = "insert"
<1>1. /\ view \in Tables /\ disk \in Tables /\ flushed \in Tables
      /\ Grown(disk, view) /\ Grown(flushed, view)
  BY GrownTwice DEF BackendInv, ValueInv, Legal, TableInv
<1>2. ASSUME NEW t \in {view, disk, flushed} PROVE Len(t.frames[s]) <= Len(view.frames[s])
  <2>1. Len(view.frames[s]) \in Nat
    BY <1>1, TableFields
  <2>. QED BY <1>1, <2>1 DEF Grown
<1>3. ASSUME view' \in {view, disk, flushed} PROVE FALSE
  <2>1. PICK t \in {view, disk, flushed} : view' = t
    BY <1>3
  <2>2. Len(t.frames[s]) \in Nat /\ Len(view.frames[s]) \in Nat
    BY <1>1, TableFields
  <2>. QED BY <1>2, <2>1, <2>2
<1>4. CASE Quiet
  <2>1. Len(view.frames[s]) \in Nat
    BY <1>1, TableFields
  <2>. QED BY <1>4, <2>1 DEF Quiet
<1>5. CASE Setup \/ Teardown \/ Die \/ PowerLoss \/ \E w \in Writers : Begin(w)
  BY <1>3, <1>5 DEF Setup, Teardown, Die, PowerLoss, Exit, Begin
<1>. QED BY <1>4, <1>5, StepOfStore DEF Inserts

\* "We wrap writes in an explicit transaction." (sqlite_backend.cpp:31): while nothing
\* fails, the writer that has left the transaction holds _write_mu until it has begun
\* the next one, so that no other writer's frame comes in between.
THEOREM EveryWriteIsWrapped ==
    ASSUME Failing = {} PROVE Spec => WritesAreWrapped
<1>1. Init => WrapInv
  BY DEF Init, WrapInv
<1>2. BackendInv /\ WrapInv /\ [Next]_vars => WrapInv'
  BY WrapKept
<1>3. BackendInv /\ WrapInv /\ [Next]_vars =>
        [(\E s \in Streams : Len(view'.frames[s]) > Len(view.frames[s])) => ~auto]_vars
  <2>. SUFFICES ASSUME BackendInv, WrapInv, [Next]_vars, auto,
                       NEW s \in Streams, Len(view'.frames[s]) > Len(view.frames[s])
                PROVE  FALSE
    OBVIOUS
  <2>1. PICK w \in Writers : pc[w] = "insert"
    BY OnlyInsertsGrow DEF Steady
  <2>2. life = "open"
    BY <2>1, InCall, ClientFacts DEF BackendInv
  <2>3. PICK v \in Writers : pc[v] = "begin"
    BY <2>2 DEF WrapInv
  <2>4. writeMu = w /\ writeMu = v
    BY <2>1, <2>3 DEF BackendInv, PlaceInv, Away, Waiting
  <2>. QED BY <2>1, <2>3, <2>4
<1>. QED BY <1>1, <1>2, <1>3, InvariantHolds, PTL DEF Spec, WritesAreWrapped

------------------------------------------------------------------------------
(* What the backend promises *)

\* What is on disk stays there when nothing rolls back and all of it is flushed.
LEMMA DiskGrows ==
    ASSUME Steady, Synchronous = "full", BackendInv, [Next]_vars
    PROVE  Grown(disk, disk')
<1>0. /\ view \in Tables /\ disk \in Tables /\ flushed \in Tables
      /\ Grown(disk, view) /\ Grown(disk, disk)
  BY GrownNot DEF BackendInv, ValueInv, Legal, TableInv
<1>1. CASE Executes
  <2>1. PICK t \in Tables : Grown(view, t) /\ disk' \in {disk, t}
    BY <1>1 DEF Executes, Execute, Store
  <2>2. Grown(disk, t)
    BY <1>0, <2>1, GrownTwice
  <2>. QED BY <1>0, <2>1, <2>2
<1>2. CASE Commits \/ Flushes \/ Begins \/ UNCHANGED tables
  BY <1>0, <1>2 DEF Commits, Store, Flushes, Begins, tables
<1>3. CASE Exits
  BY <1>0, <1>3 DEF Exits, Exit, BackendInv, TableInv
<1>. QED BY <1>1, <1>2, <1>3, StepOfTables DEF BackendInv

\* An exit keeps what is promised: teardown commits, and a crash finds all that is on
\* disk flushed.
LEMMA ExitKeeps ==
    ASSUME Steady, Synchronous = "full", BackendInv, KeptInv, Teardown \/ Die \/ PowerLoss
    PROVE  \/ Exit("closed", view) /\ Teardown
           \/ Exit("off", disk) /\ life # "off"
<1>1. flushed = disk /\ (life = "open" => inTxn) /\ "commit" \notin Failing
  BY DEF BackendInv, TableInv, KeptInv, Steady
<1>2. CASE Teardown
  <2>1. inTxn /\ \/ Exit("closed", IF inTxn THEN view ELSE disk)
                 \/ inTxn /\ "commit" \in Failing /\ Exit("closed", disk)
    BY <1>1, <1>2 DEF Teardown
  <2>. QED BY <1>1, <1>2, <2>1
<1>. QED BY <1>1, <1>2 DEF Die, PowerLoss

LEMMA KeptKept ==
    Steady /\ Synchronous = "full" /\ BackendInv /\ KeptInv /\ [Next]_vars => KeptInv'
<1>. SUFFICES ASSUME Steady, Synchronous = "full", BackendInv, KeptInv, [Next]_vars
              PROVE  KeptInv'
  OBVIOUS
<1>0. /\ view \in Tables /\ disk \in Tables
      /\ \A s \in Streams : /\ Len(view.frames[s]) \in Nat /\ Len(disk.frames[s]) \in Nat
                            /\ promised[s] \in Nat
  BY TableFields, ClientFacts DEF BackendInv, ValueInv, Legal
<1>1. CASE Teardown \/ Die \/ PowerLoss
  <2>1. CASE Exit("closed", view)
    BY <1>0, <2>1 DEF Exit, KeptInv, Lengths
  <2>2. CASE Exit("off", disk)
    BY <2>2 DEF Exit, KeptInv
  <2>. QED BY <1>1, <2>1, <2>2, ExitKeeps
<1>2. CASE Setup
  BY <1>2 DEF Setup, KeptInv
<1>3. ASSUME NEW w \in Writers, Begin(w) PROVE KeptInv'
  <2>1. CASE auto /\ promised' = Lengths(view)
    <3>1. disk' = view /\ life' = life /\ (inTxn' = inTxn \/ inTxn' = TRUE)
      BY <1>3, <2>1 DEF Begin, BackendInv, TableInv
    <3>. QED BY <1>0, <2>1, <3>1 DEF KeptInv, Lengths
  <2>2. CASE UNCHANGED <<inTxn, promised>>
    BY <1>3, <2>2 DEF Begin, KeptInv
  <2>. QED BY <1>3, <2>1, <2>2 DEF Begin
<1>4. ASSUME UNCHANGED <<life, inTxn, promised>> PROVE KeptInv'
  <2>1. Grown(disk, disk')
    BY DiskGrows
  <2>2. \A s \in Streams : promised[s] <= Len(disk'.frames[s])
    <3>. SUFFICES ASSUME NEW s \in Streams PROVE promised[s] <= Len(disk'.frames[s])
      OBVIOUS
    <3>1. disk' \in Tables
      BY NextPreservesInv DEF BackendInv, ValueInv, Legal
    <3>2. Len(disk'.frames[s]) \in Nat
      BY <3>1, TableFields
    <3>. QED BY <1>0, <2>1, <3>2 DEF Grown, KeptInv
  <2>. QED BY <1>4, <2>2 DEF KeptInv
<1>. QED BY <1>1, <1>2, <1>3, <1>4, StepOfStore DEF Quiet, Inserts

\* The timestamps of a table, as FrameStore sees those of the view.
Stamps(t) == [s \in Streams |-> [i \in 1 .. Len(t.frames[s]) |-> t.frames[s][i].ts]]

LEMMA StampsFacts ==
    ASSUME NEW t \in Tables, NEW s \in Streams
    PROVE  Stamps(t)[s] \in Seq(1 .. MaxFrames) /\ Len(Stamps(t)[s]) = Len(t.frames[s])
<1>1. t.frames[s] \in Seq(FrameRows) /\ Len(t.frames[s]) \in Nat
  BY TableFields
<1>2. \A i \in 1 .. Len(t.frames[s]) : t.frames[s][i].ts \in 1 .. MaxFrames
  <2>1. \A i \in 1 .. Len(t.frames[s]) : t.frames[s][i] \in FrameRows
    BY <1>1
  <2>2. \A row \in FrameRows : row.ts \in 1 .. MaxFrames
    BY DEF FrameRows
  <2>. QED BY <2>1, <2>2
<1>. QED BY <1>1, <1>2 DEF Stamps

LEMMA LengthsSeen == Content = Stamps(view) /\ Content' = Stamps(view')
BY DEF Content, Stamps

\* A frame is added at the end of its stream.
LEMMA InsertIsPromised ==
    ASSUME BackendInv, NEW w \in Writers, Inserts(w)
    PROVE  Promise!Add
<1>. DEFINE row == [id |-> sid[w], ts |-> ts[w]]
            old == view.frames[Own[w]]
            s == Own[w]
<1>1. /\ view \in Tables /\ sid[w] \in Ids /\ ts[w] \in 1 .. MaxFrames /\ s \in Streams
      /\ life = "open"
  BY ClientFacts, InCall DEF Inserts, BackendInv, PlaceInv, ValueInv, Legal
<1>2. /\ view'.frames[s] = Append(old, row)
      /\ \A q \in Streams : q # s => view'.frames[q] = view.frames[q]
  BY <1>1, FrameFacts DEF Inserts
<1>3. old \in Seq(FrameRows) /\ row \in FrameRows /\ row.ts = ts[w]
  BY <1>1, TableFields DEF FrameRows
<1>. HIDE DEF row, old
<1>4. Content'[s] = Append(Content[s], ts[w])
  <2>1. Content[s] = [i \in 1 .. Len(old) |-> old[i].ts] /\ Len(old) \in Nat
    <3>1. Content[s] = [i \in 1 .. Len(view.frames[s]) |-> view.frames[s][i].ts]
      BY <1>1, Zenon DEF Content
    <3>. QED BY <1>3, <3>1 DEF old
  <2>2. Content'[s] = [i \in 1 .. Len(old) + 1 |-> Append(old, row)[i].ts]
    <3>1. Content'[s] = [i \in 1 .. Len(view'.frames[s]) |-> view'.frames[s][i].ts]
      BY <1>1, Zenon DEF Content
    <3>2. view'.frames[s] = Append(old, row) /\ Len(Append(old, row)) = Len(old) + 1
      BY <1>2, <1>3
    <3>. HIDE DEF s
    <3>. QED BY <3>1, <3>2
  <2>3. \A i \in 1 .. Len(old) : Append(old, row)[i].ts = old[i].ts
    BY <1>3
  <2>4. Append(old, row)[Len(old) + 1].ts = ts[w]
    BY <1>3
  <2>5. Content[s] \in Seq(1 .. MaxFrames) /\ Len(Content[s]) = Len(old)
    BY <1>1, StampsFacts, LengthsSeen DEF old
  <2>. DEFINE x == Append(Content[s], ts[w])
  <2>6. /\ x = [i \in 1 .. Len(old) + 1 |-> x[i]]
        /\ \A i \in 1 .. Len(old) : x[i] = Content[s][i]
        /\ x[Len(old) + 1] = ts[w]
    BY <1>1, <2>1, <2>5
  <2>. HIDE DEF x
  <2>7. \A i \in 1 .. Len(old) + 1 : x[i] = Append(old, row)[i].ts
    <3>. SUFFICES ASSUME NEW i \in 1 .. Len(old) + 1 PROVE x[i] = Append(old, row)[i].ts
      OBVIOUS
    <3>1. CASE i = Len(old) + 1
      BY <2>4, <2>6, <3>1
    <3>2. CASE i \in 1 .. Len(old)
      BY <2>1, <2>3, <2>6, <3>2
    <3>. QED BY <2>1, <3>1, <3>2
  <2>. QED BY <2>2, <2>6, <2>7 DEF x
<1>5. \A q \in Streams : q # s => Content'[q] = Content[q]
  BY <1>2 DEF Content
<1>6. Content'[s] # <<>> /\ Content'[s][Len(Content'[s])] = ts[w]
  <2>1. Content[s] \in Seq(1 .. MaxFrames)
    BY <1>1, StampsFacts, LengthsSeen
  <2>. QED BY <1>1, <1>4, <2>1
<1>7. Content' = [Content EXCEPT ![s] = Append(@, Content'[s][Len(Content'[s])])]
  <2>1. /\ Content = [q \in Streams |-> Content[q]]
        /\ Content' = [q \in Streams |-> Content'[q]]
    BY DEF Content
  <2>. QED BY <1>1, <1>4, <1>5, <1>6, <2>1
<1>. QED BY <1>1, <1>6, <1>7 DEF Promise!Add, Inserts

\* After a crash, streams are what was on disk.
LEMMA CrashIsPromised ==
    ASSUME BackendInv, KeptInv, life # "off", Exit("off", disk)
    PROVE  Promise!Crash
<1>1. view \in Tables /\ disk \in Tables /\ Grown(disk, view) /\ view' = disk
  BY DEF BackendInv, ValueInv, Legal, TableInv, Exit
<1>2. ASSUME NEW s \in Streams
      PROVE  \E n \in promised[s] .. Len(Content[s]) : Content'[s] = SubSeq(Content[s], 1, n)
  <2>. DEFINE n == Len(disk.frames[s])
  <2>1. /\ Content[s] \in Seq(1 .. MaxFrames) /\ Len(Content[s]) = Len(view.frames[s])
        /\ Content'[s] \in Seq(1 .. MaxFrames) /\ Len(Content'[s]) = n
    BY <1>1, StampsFacts, LengthsSeen
  <2>2. n \in Nat /\ n <= Len(Content[s]) /\ promised[s] \in Nat /\ promised[s] <= n
    BY <1>1, <2>1, TableFields, ClientFacts DEF Grown, KeptInv, BackendInv, ValueInv
  <2>3. \A i \in 1 .. n : Content'[s][i] = Content[s][i]
    <3>1. ASSUME NEW i \in 1 .. n PROVE Content'[s][i] = Content[s][i]
      <4>1. i \in 1 .. Len(view.frames[s]) /\ view.frames[s][i] = disk.frames[s][i]
        BY <1>1, <2>1, <2>2 DEF Grown
      <4>. QED BY <1>1, <4>1, LengthsSeen DEF Stamps
    <3>. QED BY <3>1
  <2>. HIDE DEF n
  <2>4. Content'[s] = SubSeq(Content[s], 1, n)
    BY <2>1, <2>2, <2>3
  <2>5. n \in promised[s] .. Len(Content[s])
    BY <2>1, <2>2
  <2>. QED BY <2>4, <2>5
<1>3. DOMAIN Content' = Streams
  BY DEF Content
<1>. QED BY <1>2, <1>3 DEF Promise!Crash, Exit

LEMMA StepIsPromised ==
    Steady /\ Synchronous = "full" /\ BackendInv /\ KeptInv /\ [Next]_vars =>
        [Promise!Open \/ Promise!Add \/ Promise!Boundary \/ Promise!Close
           \/ Promise!Crash]_(Promise!store)
<1>. SUFFICES ASSUME Steady, Synchronous = "full", BackendInv, KeptInv, [Next]_vars
              PROVE  \/ Promise!Open \/ Promise!Add \/ Promise!Boundary \/ Promise!Close
                     \/ Promise!Crash \/ UNCHANGED Promise!store
  OBVIOUS
<1>1. Lengths(view) = Promise!Lengths
  <2>1. \A s \in Streams : Len(Content[s]) = Len(view.frames[s])
    BY StampsFacts, LengthsSeen DEF BackendInv, ValueInv, Legal
  <2>. QED BY <2>1 DEF Lengths, Promise!Lengths
<1>2. CASE Quiet
  BY <1>2 DEF Quiet, Promise!store, Content
<1>3. CASE Setup
  <2>1. CASE life' = "open"
    BY <1>3, <2>1 DEF Setup, Promise!Open, Content
  <2>2. CASE UNCHANGED life
    BY <1>3, <2>2 DEF Setup, Promise!store, Content
  <2>. QED BY <1>3, <2>1, <2>2 DEF Setup
<1>4. ASSUME NEW w \in Writers, Begin(w) PROVE Promise!Boundary \/ UNCHANGED Promise!store
  <2>1. life = "open" /\ UNCHANGED <<life, view>>
    BY <1>4, InCall, ClientFacts DEF Begin, BackendInv
  <2>2. UNCHANGED Content
    BY <2>1 DEF Content
  <2>. QED BY <1>1, <1>4, <2>1, <2>2 DEF Begin, Promise!Boundary, Promise!store
<1>5. CASE Teardown \/ Die \/ PowerLoss
  <2>1. CASE Exit("closed", view) /\ Teardown
    BY <1>1, <2>1 DEF Exit, Teardown, Promise!Close, Content
  <2>. QED BY <1>5, <2>1, ExitKeeps, CrashIsPromised
<1>. QED
  BY <1>2, <1>3, <1>4, <1>5, StepOfStore, InsertIsPromised

\* "after a crash, at most durability_bytes of data can be lost (whatever accumulated
\* since the last sync_boundary call)" (sqlite_backend.cpp:229-230): with
\* synchronous=full, and unless a statement fails that may roll back, the backend
\* implements FrameStore, over any number of processes and crashes of the machine.
THEOREM BackendIsAFrameStore ==
    ASSUME Steady, Synchronous = "full" PROVE Spec => ImplementsFrameStore
<1>1. Init => KeptInv /\ Promise!Init
  <2>. SUFFICES ASSUME Init PROVE KeptInv /\ Promise!Init
    OBVIOUS
  <2>1. KeptInv
    <3>1. \A s \in Streams : disk.frames[s] = <<>> /\ promised[s] = 0
      BY DEF Init, Empty
    <3>. QED BY <3>1 DEF Init, KeptInv
  <2>2. Content = [s \in Streams |-> <<>>]
    <3>1. \A s \in Streams : view.frames[s] = <<>>
      BY DEF Init, Empty
    <3>2. \A s \in Streams : Content[s] = <<>>
      BY <3>1 DEF Content
    <3>. QED BY <3>2 DEF Content
  <2>. QED BY <2>1, <2>2 DEF Init, Promise!Init
<1>2. BackendInv /\ KeptInv /\ [Next]_vars => KeptInv'
  BY KeptKept
<1>3. BackendInv /\ KeptInv /\ [Next]_vars =>
        [Promise!Open \/ Promise!Add \/ Promise!Boundary \/ Promise!Close
           \/ Promise!Crash]_(Promise!store)
  BY StepIsPromised
<1>. QED
  BY <1>1, <1>2, <1>3, InvariantHolds, PTL DEF Spec, ImplementsFrameStore, Promise!Spec

------------------------------------------------------------------------------
(* Failures *)

NoneThrew == \A c \in Clients : pc[c] # "threw"

\* The two halves of SeenInv's last part.
LookedUp == \A s \in Streams : cache[s] = 0 =>
                \/ view.streams[s] = 0 /\ disk.streams[s] = 0
                \/ \E c \in Clients : pc[c] = "select" /\ Own[c] = s
NoneLost == (\E c \in Clients : Doomed(c)) \/ (Intact /\ \A w \in Writers : Stored(w))

\* A step within a process.
LEMMA SeenKeptBy ==
    ASSUME SeenInv, life = "open", UNCHANGED <<life, runs>>, runs \in Nat,
           \A c \in Clients : pc'[c] = "row" => cache'[Own[c]] = 0,
           NoneThrew' => NoneThrew /\ (LookedUp /\ NoneLost => LookedUp' /\ NoneLost')
    PROVE  SeenInv'
BY DEF SeenInv, NoneThrew, LookedUp, NoneLost

\* A step of a client that does not touch rows.
LEMMA SeenKeptByMove ==
    ASSUME BackendInv, SeenInv, NEW c \in Clients, NEW loc \in Locations, Goto(c, loc),
           life = "open", UNCHANGED <<life, runs, cache, acked, view>>,
           disk' \in {disk, view}, pc[c] # "threw", pc[c] # "select",
           loc = "row" => cache[Own[c]] = 0, Intact => Intact'
    PROVE  SeenInv'
<1>1. /\ pc'[c] = loc /\ \A d \in Clients : d # c => pc'[d] = pc[d]
      /\ runs \in Nat
  BY GotoFacts, ClientFacts DEF BackendInv, PlaceInv, ValueInv
<1>2. \A d \in Clients : pc'[d] = "row" => cache'[Own[d]] = 0
  BY <1>1 DEF SeenInv
<1>3. NoneThrew' => NoneThrew
  BY <1>1 DEF NoneThrew
<1>4. LookedUp => LookedUp'
  BY <1>1 DEF LookedUp
<1>5. NoneLost => NoneLost'
  BY <1>1 DEF NoneLost, Doomed, Stored
<1>. QED BY <1>1, <1>2, <1>3, <1>4, <1>5, SeenKeptBy

\* A move that leaves ids and transaction alone.
LEMMA IntactKeptBy ==
    ASSUME BackendInv, NEW c \in Clients, NEW loc \in Locations \ {"insert"}, Goto(c, loc),
           UNCHANGED <<view, cache, sid, auto, inTxn>>, pc[c] # "begin", Intact
    PROVE  Intact'
<1>1. /\ pc'[c] = loc /\ \A d \in Clients : d # c => pc'[d] = pc[d]
  BY GotoFacts DEF BackendInv, PlaceInv
<1>2. IdsAgree(view)'
  BY DEF Intact, IdsAgree
<1>. QED BY <1>1, <1>2, ClientFacts DEF Intact

\* A call that throws is seen.
LEMMA SeenKeptByThrow ==
    ASSUME BackendInv, SeenInv, NEW c \in Clients, Goto(c, "threw"), life = "open",
           UNCHANGED <<life, runs, cache>>
    PROVE  SeenInv'
<1>1. /\ pc'[c] = "threw" /\ \A d \in Clients : d # c => pc'[d] = pc[d]
      /\ runs \in Nat
  BY GotoFacts, ClientFacts DEF BackendInv, PlaceInv, ValueInv, Locations
<1>2. ~NoneThrew'
  BY <1>1 DEF NoneThrew
<1>3. \A d \in Clients : pc'[d] = "row" => cache'[Own[d]] = 0
  BY <1>1 DEF SeenInv
<1>. QED BY <1>1, <1>2, <1>3, SeenKeptBy

\* Nobody is at the SELECT while another client inserts the row: what is not in the
\* cache is not in the tables. A rollback now takes no row but this client's.
LEMMA SeenKeptByRow ==
    ASSUME BackendInv, SeenInv, NEW c \in Clients, InsertRow(c)
    PROVE  SeenInv'
<1>0. /\ pc[c] = "row" /\ life = "open" /\ cache[Own[c]] = 0 /\ Own[c] \in Streams
      /\ runs \in Nat /\ UNCHANGED <<life, runs, cache, acked>>
      /\ view \in Tables /\ disk \in Tables
  BY InCall, ClientFacts DEF InsertRow, BackendInv, SeenInv, ValueInv, Legal
<1>1. /\ pc'[c] = "select" /\ \A d \in Clients : d # c => pc'[d] = pc[d]
  BY GotoFacts DEF InsertRow, BackendInv, PlaceInv, Locations
<1>2. \A d \in Clients : pc[d] \in {"row", "select"} => d = c
  BY <1>0 DEF BackendInv, PlaceInv
<1>3. \A d \in Clients : pc'[d] = "row" => cache'[Own[d]] = 0
  BY <1>0, <1>1 DEF SeenInv
<1>4. NoneThrew' => NoneThrew
  BY <1>0, <1>1 DEF NoneThrew
<1>5. ASSUME LookedUp, NoneLost PROVE LookedUp' /\ NoneLost'
  <2>1. /\ \A s \in Streams : cache[s] = 0 => view.streams[s] = 0 /\ disk.streams[s] = 0
        /\ Intact /\ \A w \in Writers : Stored(w)
    BY <1>0, <1>2, <1>5 DEF LookedUp, NoneLost, Doomed
  <2>2. CASE Execute(RowInserted(c))
    <3>1. /\ view' = RowInserted(c) /\ view'.frames = view.frames /\ disk' \in {disk, view'}
          /\ \A s \in Streams : s # Own[c] => view'.streams[s] = view.streams[s]
      BY <1>0, <2>2, RowFacts DEF Execute, Store
    <3>2. \A w \in Writers : Stored(w)'
      BY <1>0, <2>1, <3>1 DEF Stored
    <3>3. LookedUp'
      BY <1>0, <1>1, <2>1, <3>1 DEF LookedUp
    <3>4. IdsAgree(view)'
      <4>1. IdsAgree(RowInserted(c))
        BY <1>0, <2>1, IdsAgreeByRow DEF Intact
      <4>. QED BY <3>1, <4>1 DEF IdsAgree
    <3>5. \A s \in Streams : view.streams[s] # 0 => view'.streams[s] = view.streams[s]
      BY <1>0, <3>1, RowFacts
    <3>6. UNCHANGED <<sid, auto, inTxn>>
      BY <2>2 DEF InsertRow, Execute
    <3>7. Intact'
      BY <1>0, <1>1, <2>1, <3>4, <3>5, <3>6, ClientFacts DEF Intact
    <3>. QED BY <3>2, <3>3, <3>7 DEF NoneLost
  <2>3. CASE RollBack
    <3>1. view' = disk /\ disk' = disk
      BY <2>3 DEF RollBack
    <3>2. Doomed(c)'
      BY <1>0, <1>1, <2>1, <3>1 DEF Doomed
    <3>3. LookedUp'
      BY <1>0, <2>1, <3>1 DEF LookedUp
    <3>. QED BY <3>2, <3>3 DEF NoneLost
  <2>4. CASE UNCHANGED tables
    <3>1. UNCHANGED <<view, disk>>
      BY <2>4 DEF tables
    <3>2. Doomed(c)'
      BY <1>0, <1>1, <2>1, <3>1 DEF Doomed
    <3>. QED BY <1>0, <2>1, <3>1, <3>2 DEF LookedUp, NoneLost
  <2>. QED BY <2>2, <2>3, <2>4 DEF InsertRow, RowInserted, Fail
<1>. QED BY <1>0, <1>3, <1>4, <1>5, SeenKeptBy

\* A SELECT that finds the row puts it into the cache; one that does not, throws.
LEMMA SeenKeptBySelect ==
    ASSUME BackendInv, SeenInv, NEW c \in Clients, SelectRow(c)
    PROVE  SeenInv'
<1>0. /\ pc[c] = "select" /\ life = "open" /\ Own[c] \in Streams /\ runs \in Nat
      /\ UNCHANGED <<life, runs, acked, view, disk>>
      /\ cache \in [Streams -> Ids]
  BY InCall, ClientFacts DEF SelectRow, BackendInv, ValueInv, tables
<1>1. CASE RowId(c) = 0
  BY <1>0, <1>1, SeenKeptByThrow DEF SelectRow, Throw
<1>2. CASE RowId(c) # 0
  <2>1. Goto(c, After(c)) /\ cache' = [cache EXCEPT ![Own[c]] = RowId(c)]
    BY <1>2 DEF SelectRow
  <2>2. /\ cache'[Own[c]] # 0
        /\ \A s \in Streams : s # Own[c] => cache'[s] = cache[s]
    BY <1>0, <1>2, <2>1
  <2>3. /\ pc'[c] \in {"insert", "prepare"} /\ \A d \in Clients : d # c => pc'[d] = pc[d]
    BY <2>1, GotoFacts DEF BackendInv, PlaceInv, After, Locations
  <2>4. \A d \in Clients : pc[d] \in {"row", "select"} => d = c
    BY <1>0 DEF BackendInv, PlaceInv
  <2>5. \A d \in Clients : pc'[d] = "row" => cache'[Own[d]] = 0
    BY <2>3, <2>4
  <2>6. NoneThrew' => NoneThrew
    BY <1>0, <2>3 DEF NoneThrew
  <2>7. LookedUp => LookedUp'
    BY <1>0, <2>2, <2>4 DEF LookedUp
  <2>8. Intact => Intact'
    <3>1. /\ sid'[c] = RowId(c) /\ \A w \in Writers : w # c => sid'[w] = sid[w]
          /\ cache'[Own[c]] = RowId(c) /\ UNCHANGED <<auto, inTxn>>
      BY <1>0, <1>2, <2>1, ClientFacts DEF SelectRow, tables, BackendInv, ValueInv
    <3>2. \A w \in Writers : pc[w] = "begin" => pc'[w] = "begin"
      BY <1>0, <2>3, ClientFacts
    <3>3. IdsAgree(view) => IdsAgree(view)'
      BY <1>0 DEF IdsAgree
    <3>. QED BY <1>0, <1>2, <2>2, <2>3, <3>1, <3>2, <3>3, ClientFacts DEF Intact, RowId
  <2>9. NoneLost => NoneLost'
    BY <1>0, <1>2, <2>4, <2>8 DEF NoneLost, Doomed, Stored, RowId
  <2>. QED BY <1>0, <2>5, <2>6, <2>7, <2>9, SeenKeptBy
<1>. QED BY <1>1, <1>2

\* A frame whose write returns is stored.
LEMMA SeenKeptByFrame ==
    ASSUME BackendInv, SeenInv, NEW w \in Writers, Execute(FrameInserted(w)), WriteReturns(w),
           pc[w] = "insert", UNCHANGED <<life, runs, inTxn, cache, sid>>
    PROVE  SeenInv'
<1>0. /\ life = "open" /\ runs \in Nat /\ w \in Clients /\ Own[w] \in Streams
      /\ view \in Tables /\ sid[w] \in Ids /\ ts[w] \in 1 .. MaxFrames
      /\ acked \in [Writers -> SUBSET (1 .. MaxFrames)]
  BY InCall, ClientFacts DEF BackendInv, PlaceInv, ValueInv, Legal
<1>1. /\ pc'[w] = "idle" /\ \A d \in Clients : d # w => pc'[d] = pc[d]
  BY <1>0, GotoFacts DEF WriteReturns, BackendInv, PlaceInv, Locations
<1>2. /\ view'.streams = view.streams /\ disk' \in {disk, view'}
      /\ view'.frames[Own[w]] = Append(view.frames[Own[w]], [id |-> sid[w], ts |-> ts[w]])
      /\ \A s \in Streams : s # Own[w] => view'.frames[s] = view.frames[s]
  BY <1>0, FrameFacts DEF Execute, Store
<1>3. \A d \in Clients : pc'[d] = "row" => cache'[Own[d]] = 0
  BY <1>1 DEF SeenInv
<1>4. NoneThrew' => NoneThrew
  BY <1>1 DEF NoneThrew
<1>5. LookedUp => LookedUp'
  BY <1>1, <1>2 DEF LookedUp
<1>6. ASSUME NEW v \in Writers, Stored(v) PROVE Stored(v)'
  <2>1. CASE v # w
    <3>1. Own[v] # Own[w] /\ Own[v] \in Streams
      BY <2>1, ClientFacts
    <3>2. acked'[v] = acked[v] /\ view'.frames[Own[v]] = view.frames[Own[v]]
      BY <1>0, <1>2, <2>1, <3>1 DEF WriteReturns
    <3>. QED BY <1>6, <3>2 DEF Stored
  <2>2. CASE v = w
    <3>. DEFINE row == [id |-> sid[w], ts |-> ts[w]]
                old == view.frames[Own[w]]
    <3>1. row \in FrameRows /\ old \in Seq(FrameRows) /\ row.ts = ts[w]
      BY <1>0, TableFields DEF FrameRows
    <3>2. view'.frames[Own[w]] = Append(old, row)
      BY <1>2
    <3>3. acked'[w] = acked[w] \cup {ts[w]}
      BY <1>0 DEF WriteReturns
    <3>4. acked[w] \subseteq {f.ts : f \in Range(old)}
      BY <1>6, <2>2 DEF Stored
    <3>. HIDE DEF row, old
    <3>5. Range(Append(old, row)) = Range(old) \cup {row}
      <4>1. /\ DOMAIN old = 1 .. Len(old) /\ DOMAIN Append(old, row) = 1 .. Len(old) + 1
            /\ Len(old) \in Nat
            /\ \A i \in 1 .. Len(old) : Append(old, row)[i] = old[i]
            /\ Append(old, row)[Len(old) + 1] = row
        BY <3>1
      <4>2. \A i \in 1 .. Len(old) + 1 : i \in 1 .. Len(old) \/ i = Len(old) + 1
        BY <4>1
      <4>3. Len(old) + 1 \in 1 .. Len(old) + 1 /\ 1 .. Len(old) \subseteq 1 .. Len(old) + 1
        BY <4>1
      <4>. HIDE DEF row, old
      <4>. QED BY <4>1, <4>2, <4>3 DEF Range
    <3>6. acked'[w] \subseteq {f.ts : f \in Range(view'.frames[Own[w]])}
      BY <3>1, <3>2, <3>3, <3>4, <3>5
    <3>. QED BY <2>2, <3>6 DEF Stored
  <2>. QED BY <2>1, <2>2
<1>7. Intact => Intact'
  <2>. SUFFICES ASSUME Intact PROVE Intact'
    OBVIOUS
  <2>1. IdsAgree(FrameInserted(w)) /\ view' = FrameInserted(w) /\ UNCHANGED auto
    BY <1>0, IdsAgreeByFrame DEF Intact, Execute
  <2>2. IdsAgree(view)'
    BY <2>1 DEF IdsAgree
  <2>. QED BY <1>0, <1>1, <1>2, <2>1, <2>2, ClientFacts DEF Intact
<1>8. NoneLost => NoneLost'
  <2>1. ASSUME NEW c \in Clients, Doomed(c) PROVE Doomed(c)'
    BY <1>1, <1>2, <2>1 DEF Doomed
  <2>. QED BY <1>6, <1>7, <2>1 DEF NoneLost
<1>. QED BY <1>0, <1>3, <1>4, <1>5, <1>8, SeenKeptBy

LEMMA SeenKept == MaxProcesses = 1 /\ BackendInv /\ SeenInv /\ [Next]_vars => SeenInv'
<1>. SUFFICES ASSUME MaxProcesses = 1, BackendInv, SeenInv, [Next]_vars PROVE SeenInv'
  OBVIOUS
<1>0. runs \in Nat /\ pc \in [Clients -> Locations]
  BY ClientFacts DEF BackendInv, PlaceInv, ValueInv
<1>1. CASE Setup
  <2>1. runs = 0 /\ runs' = 1 /\ life # "open"
    BY <1>0, <1>1 DEF Setup
  <2>2. /\ \A s \in Streams : view.streams[s] = 0 /\ disk.streams[s] = 0
        /\ \A w \in Writers : acked'[w] = {}
    BY <1>1, <2>1 DEF Setup, SeenInv, Empty
  <2>3. UNCHANGED <<view, disk, cache, pc>>
    BY <1>1 DEF Setup
  <2>4. \A w \in Writers : Stored(w)'
    BY <2>2 DEF Stored
  <2>5. life' = "open" => Intact'
    <3>1. view = Empty /\ \A s \in Streams : cache[s] = 0
      BY <2>1 DEF SeenInv
    <3>2. \A c \in Clients : pc[c] = "idle"
      BY <2>1 DEF BackendInv, PlaceInv
    <3>3. life' = "open" => inTxn' /\ ~auto'
      BY <1>1 DEF Setup
    <3>4. \A s \in Streams : view'.frames[s] = <<>>
      BY <2>3, <3>1 DEF Empty
    <3>5. IdsAgree(view)'
      BY <3>4 DEF IdsAgree
    <3>. QED BY <2>3, <3>1, <3>2, <3>3, <3>5, ClientFacts DEF Intact
  <2>. QED BY <2>1, <2>2, <2>3, <2>4, <2>5 DEF SeenInv
<1>2. CASE Teardown \/ Die \/ PowerLoss
  <2>1. /\ life # "off" /\ life' # "open" /\ runs' = runs
        /\ cache' = [s \in Streams |-> 0] /\ \A c \in Clients : pc'[c] = "idle"
    BY <1>2 DEF Teardown, Die, PowerLoss, Exit
  <2>. QED BY <1>0, <2>1 DEF SeenInv
<1>3. CASE Checkpoint
  BY <1>3 DEF Checkpoint, SeenInv, Doomed, Stored, Intact, IdsAgree
<1>4. ASSUME NEW c \in Clients, LookUp(c) PROVE SeenInv'
  <2>1. pc[c] = "lookUp" /\ life = "open" /\ UNCHANGED <<life, runs, cache, acked, view, disk>>
    BY <1>4, InCall DEF LookUp, BackendInv, tables
  <2>2. PICK loc \in Locations : Goto(c, loc) /\ (loc = "row" => cache[Own[c]] = 0)
    BY <1>4 DEF LookUp, After, Locations
  <2>3. Intact => Intact'
    <3>1. CASE cache[Own[c]] # 0
      <4>1. /\ sid' = [sid EXCEPT ![c] = cache[Own[c]]] /\ UNCHANGED <<auto, inTxn>>
        BY <1>4, <3>1 DEF LookUp, tables
      <4>2. /\ sid'[c] = cache[Own[c]] /\ \A w \in Writers : w # c => sid'[w] = sid[w]
            /\ \A w \in Clients : w # c => pc'[w] = pc[w]
        BY <1>0, <2>2, <4>1, ClientFacts, GotoFacts DEF BackendInv, ValueInv
      <4>3. IdsAgree(view) => IdsAgree(view)'
        BY <2>1 DEF IdsAgree
      <4>. QED BY <2>1, <3>1, <4>1, <4>2, <4>3, ClientFacts DEF Intact
    <3>2. CASE cache[Own[c]] = 0
      BY <1>4, <2>1, <3>2, IntactKeptBy DEF LookUp, tables, Locations
    <3>. QED BY <3>1, <3>2
  <2>. QED BY <2>1, <2>2, <2>3, SeenKeptByMove
<1>5. ASSUME NEW w \in Writers, InsertFrame(w) PROVE SeenInv'
  <2>1. /\ pc[w] = "insert" /\ life = "open" /\ w \in Clients
        /\ UNCHANGED <<life, runs, inTxn, cache, sid>>
    BY <1>5, InCall, ClientFacts DEF InsertFrame, BackendInv
  <2>. QED BY <1>5, <2>1, SeenKeptByFrame, SeenKeptByThrow DEF InsertFrame, Throw
<1>6. ASSUME NEW w \in Writers, Write(w) \/ SyncBoundary(w) \/ Lock(w) PROVE SeenInv'
  <2>1. /\ pc[w] \in {"idle", "write", "sync"} /\ w \in Clients
        /\ UNCHANGED <<life, runs, cache, acked, view, disk, sid, auto, inTxn>>
    BY <1>6, ClientFacts DEF Write, SyncBoundary, Call, Lock, Waiting, tables
  <2>2. life = "open"
    BY <1>6, <2>1, InCall DEF Write, SyncBoundary, Call, Lock, Waiting, BackendInv
  <2>3. PICK loc \in {"write", "sync", "lookUp", "commit", "begin"} : Goto(w, loc)
    BY <1>6 DEF Write, SyncBoundary, Call, Lock, Begun
  <2>4. Intact => Intact'
    BY <2>1, <2>3, IntactKeptBy DEF Locations
  <2>. QED BY <2>1, <2>2, <2>3, <2>4, SeenKeptByMove DEF Locations
<1>7. ASSUME NEW w \in Writers, Commit(w) PROVE SeenInv'
  <2>1. /\ pc[w] = "commit" /\ life = "open" /\ w \in Clients
        /\ UNCHANGED <<life, runs, cache, acked>>
    BY <1>7, InCall, ClientFacts DEF Commit, BackendInv
  <2>2. CASE Goto(w, "begin") /\ Store(view) /\ view' = view
    <3>1. Intact => Intact'
      <4>1. /\ pc'[w] = "begin" /\ \A v \in Writers : v # w => pc'[v] = pc[v]
        BY <1>0, <2>1, <2>2, GotoFacts, ClientFacts DEF Locations
      <4>2. UNCHANGED <<sid, inTxn>> /\ (IdsAgree(view) => IdsAgree(view)')
        BY <1>7, <2>2 DEF Commit, IdsAgree
      <4>. QED BY <2>1, <2>2, <4>1, <4>2 DEF Intact
    <3>. QED BY <2>1, <2>2, <3>1, SeenKeptByMove DEF Locations, Store
  <2>. QED BY <1>7, <2>1, <2>2, SeenKeptByThrow DEF Commit, Throw
<1>8. ASSUME NEW w \in Writers, Begin(w) PROVE SeenInv'
  <2>1. /\ pc[w] = "begin" /\ life = "open" /\ w \in Clients
        /\ UNCHANGED <<life, runs, cache, acked, view, disk>>
    BY <1>8, InCall, ClientFacts DEF Begin, BackendInv
  <2>2. CASE Goto(w, "idle")
    <3>1. Intact => Intact'
      <4>1. /\ pc'[w] = "idle" /\ \A v \in Writers : v # w => pc'[v] = pc[v]
        BY <1>0, <2>1, <2>2, GotoFacts, ClientFacts DEF Locations
      <4>2. pc'[w] # "threw"
        BY <4>1
      <4>3. inTxn' /\ ~auto'
        BY <1>0, <1>8, <2>1, <4>2, GotoFacts DEF Begin, Throw, Locations
      <4>4. UNCHANGED sid /\ (IdsAgree(view) => IdsAgree(view)')
        BY <1>8, <2>1 DEF Begin, IdsAgree
      <4>. QED BY <2>1, <4>1, <4>3, <4>4 DEF Intact
    <3>. QED BY <2>1, <2>2, <3>1, SeenKeptByMove DEF Locations
  <2>. QED BY <1>8, <2>1, <2>2, SeenKeptByThrow DEF Begin, Throw
<1>9. ASSUME NEW r \in Readers,
             \/ Iterate(r) \/ PrepareCursor(r) \/ Find(r) \/ NextFrame(r) \/ CloseCursor(r)
      PROVE  SeenInv'
  <2>1. /\ pc[r] \in {"idle", "prepare", "reading"} /\ life = "open" /\ r \in Clients
        /\ UNCHANGED <<life, runs, cache, acked, sid, inTxn>>
    BY <1>9, InCall, ClientFacts
       DEF Iterate, PrepareCursor, Find, NextFrame, MoveTo, CloseCursor, BackendInv
  <2>2. CASE Throw(r)
    BY <2>1, <2>2, SeenKeptByThrow DEF Throw
  <2>3. ASSUME NEW loc \in {"lookUp", "reading", "idle"}, Goto(r, loc),
               UNCHANGED <<view, disk, auto>>
        PROVE  SeenInv'
    BY <2>1, <2>3, IntactKeptBy, SeenKeptByMove DEF Locations
  <2>4. CASE UNCHANGED <<pc, view, disk, auto>>
    BY <2>1, <2>4 DEF SeenInv, Doomed, Stored, Intact, IdsAgree
  <2>. QED
    BY <1>9, <2>2, <2>3, <2>4
       DEF Iterate, PrepareCursor, Find, NextFrame, MoveTo, CloseCursor, tables
<1>10. CASE UNCHANGED vars
  BY <1>10 DEF vars, tables, SeenInv, Doomed, Stored, Intact, IdsAgree
<1>. QED
  BY <1>1, <1>2, <1>3, <1>4, <1>5, <1>6, <1>7, <1>8, <1>9, <1>10,
     SeenKeptByRow, SeenKeptBySelect, ClientFacts
     DEF Next, WriterStep, ReaderStep, Over

\* "check(rc, ...)" (sqlite_backend.cpp:54-59), and the INSERT OR IGNORE whose result
\* nobody looks at (sqlite_backend.cpp:280): in a file that was empty before, whichever
\* statements fail and roll back, unless some call has thrown a frame that a write has
\* acknowledged is there, frames have the ids of their streams and a transaction is open.
THEOREM NoFrameIsLostSilently ==
    ASSUME MaxProcesses = 1 PROVE Spec => []FailuresAreThrown
<1>1. Init => SeenInv
  BY DEF Init, SeenInv
<1>2. BackendInv /\ SeenInv /\ [Next]_vars => SeenInv'
  BY SeenKept
<1>3. SeenInv => FailuresAreThrown
  <2>. SUFFICES ASSUME SeenInv, life = "open", \A c \in Clients : pc[c] \in {"idle", "reading"}
                PROVE  Intact /\ (\A w \in Writers : Stored(w)) /\ \A w \in Writers : pc[w] # "begin"
    BY ClientFacts DEF FailuresAreThrown, FramesKeepTheirStream, Stored, Intact, IdsAgree
  <2>1. \A c \in Clients : pc[c] # "threw" /\ ~Doomed(c)
    BY DEF Doomed
  <2>. QED BY <2>1, ClientFacts DEF SeenInv
<1>. QED BY <1>1, <1>2, <1>3, InvariantHolds, PTL DEF Spec

==============================================================================
