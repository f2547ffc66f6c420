--------------------------- MODULE RocksBackendProofs ---------------------------
(***************************************************************************)
(* The RocksDB backend for any threads, streams and failures: its handles,  *)
(* and what of the frames a crash leaves.                                   *)
(***************************************************************************)
EXTENDS RocksBackend, FiniteSetTheorems, WellFoundedInduction, TLAPS

Locations == {"idle", "create", "remember", "put", "open", "reading", "threw"}

\* Types; no thread is in a call unless the database is open, and a writer in a call
\* has room for one frame more.
BackendInv ==
    /\ life \in {"off", "open", "closed"}
    /\ content \in [Streams -> Seq(Nat)]
    /\ synced \in [Streams -> 0 .. MaxFrames] /\ covered \in [Streams -> 0 .. MaxFrames]
    /\ promised \in [Streams -> 0 .. MaxFrames]
    /\ pc \in [Clients -> Locations]
    /\ \A s \in Streams : Len(content[s]) <= MaxFrames
    /\ life # "open" => \A c \in Clients : pc[c] \in {"idle", "threw"}
    /\ \A c \in Clients : pc[c] = "put" => c \in Writers
    /\ \A c \in Writers : pc[c] \in {"create", "remember", "put"} => Len(content[Own[c]]) < MaxFrames

Remembering(c) == pc[c] = "remember"

\* A stream has at most one handle, in the map or with the thread that created its
\* column family.
HandleInv ==
    /\ handles \subseteq families /\ families \subseteq Streams
    /\ created \in [Streams -> Nat]
    /\ \A c \in Clients : Remembering(c) => Own[c] \in families \ handles
    /\ \A c, d \in Clients : Remembering(c) /\ Remembering(d) /\ Own[c] = Own[d] => c = d
    /\ \A s \in Streams :
         created[s] = IF s \in handles \/ \E c \in Clients : Remembering(c) /\ Own[c] = s
                        THEN 1 ELSE 0

\* Iterators are of frames there are.
IterInv ==
    /\ iter = [r \in Readers |-> iter[r]]
    /\ \A r \in Readers : iter[r] = [snapshot |-> iter[r].snapshot, key |-> iter[r].key,
                                    frame |-> iter[r].frame, due |-> iter[r].due]
    /\ \A r \in Readers : /\ iter[r].snapshot \in 0 .. Len(content[Own[r]])
                          /\ pc[r] # "reading" => iter[r] = NoIterator

\* What is covered is durable, and what is durable is there.
DurableInv ==
    \A s \in Streams : covered[s] <= synced[s] /\ synced[s] <= Len(content[s])

RocksInv == BackendInv /\ HandleInv /\ IterInv /\ DurableInv

------------------------------------------------------------------------------
(* The inductive invariant *)

\* Every client has a stream, and a stream has one writer.
LEMMA ClientFacts ==
    /\ \A c \in Clients : Own[c] \in Streams
    /\ \A v, w \in Writers : Own[v] = Own[w] => v = w
    /\ Writers \subseteq Clients /\ Readers \subseteq Clients
    /\ \A w \in Writers : w \notin Readers
    /\ MaxFrames \in Nat /\ Prewarmed \subseteq Streams
BY RocksAssumption DEF Clients

\* Nothing is there yet.
LEMMA InitEstablishesInv == Init => RocksInv
<1>. SUFFICES ASSUME Init PROVE RocksInv
  OBVIOUS
<1>1. BackendInv
  BY ClientFacts DEF Init, BackendInv, Locations
<1>2. HandleInv
  BY DEF Init, HandleInv, Remembering
<1>3. IterInv
  BY ClientFacts DEF Init, IterInv, NoIterator
<1>4. DurableInv
  BY DEF Init, DurableInv
<1>. QED BY <1>1, <1>2, <1>3, <1>4 DEF RocksInv

\* A client moves; the others do not.
LEMMA GotoFacts ==
    ASSUME BackendInv, NEW c \in Clients, NEW loc \in Locations, Goto(c, loc)
    PROVE  /\ pc' \in [Clients -> Locations] /\ pc'[c] = loc
           /\ \A d \in Clients : d # c => pc'[d] = pc[d]
BY DEF BackendInv, Goto

\* A client moves without creating or remembering anything, and without writing.
LEMMA MoveKeeps ==
    ASSUME RocksInv, NEW c \in Clients, life = "open",
           NEW loc \in Locations, Goto(c, loc), loc # "remember", pc[c] # "remember",
           pc[c] # "reading", loc # "reading", loc = "put" => c \in Writers,
           loc \in {"create", "put"} /\ c \in Writers => Len(content[Own[c]]) < MaxFrames,
           UNCHANGED <<life, content, synced, families, handles, created, iter, covered, promised>>
    PROVE  RocksInv'
<1>0. /\ pc' \in [Clients -> Locations] /\ pc'[c] = loc
      /\ \A d \in Clients : d # c => pc'[d] = pc[d]
  BY GotoFacts DEF RocksInv
<1>1. BackendInv'
  BY <1>0, ClientFacts DEF RocksInv, BackendInv
<1>2. \A d \in Clients : Remembering(d)' <=> Remembering(d)
  BY <1>0 DEF Remembering
<1>3. HandleInv'
  BY <1>2 DEF RocksInv, HandleInv
<1>4. IterInv'
  BY <1>0, ClientFacts DEF RocksInv, IterInv
<1>5. DurableInv'
  BY DEF RocksInv, DurableInv
<1>. QED BY <1>1, <1>3, <1>4, <1>5 DEF RocksInv

\* A client's move within its iterator's life.
LEMMA ReaderKeeps ==
    ASSUME RocksInv, NEW r \in Readers, NEW loc \in {"reading", "idle"},
           pc' = [pc EXCEPT ![r] = loc], pc[r] \in {"open", "reading"},
           NEW it, iter' = [iter EXCEPT ![r] = it],
           it = [snapshot |-> it.snapshot, key |-> it.key, frame |-> it.frame, due |-> it.due],
           it.snapshot \in 0 .. Len(content[Own[r]]),
           loc # "reading" => it = NoIterator,
           UNCHANGED <<life, content, synced, families, handles, created, covered, promised>>
    PROVE  RocksInv'
<1>0. /\ pc' \in [Clients -> Locations] /\ pc'[r] = loc /\ r \in Clients
      /\ \A d \in Clients : d # r => pc'[d] = pc[d]
  BY ClientFacts, GotoFacts DEF RocksInv, Goto, Locations
<1>1. BackendInv'
  BY <1>0, ClientFacts DEF RocksInv, BackendInv
<1>2. \A d \in Clients : Remembering(d)' <=> Remembering(d)
  BY <1>0 DEF Remembering
<1>3. HandleInv'
  BY <1>2 DEF RocksInv, HandleInv
<1>4. IterInv'
  <2>1. /\ iter' = [q \in Readers |-> iter'[q]] /\ iter'[r] = it
        /\ \A q \in Readers : q # r => iter'[q] = iter[q]
    BY DEF RocksInv, IterInv
  <2>2. \A q \in Readers : iter'[q] = [snapshot |-> iter'[q].snapshot, key |-> iter'[q].key,
                                      frame |-> iter'[q].frame, due |-> iter'[q].due]
    BY <2>1, Zenon DEF RocksInv, IterInv
  <2>3. \A q \in Readers : /\ iter'[q].snapshot \in 0 .. Len(content'[Own[q]])
                           /\ pc'[q] # "reading" => iter'[q] = NoIterator
    BY <1>0, <2>1, ClientFacts DEF RocksInv, IterInv
  <2>. QED BY <2>1, <2>2, <2>3 DEF IterInv
<1>5. DurableInv'
  BY DEF RocksInv, DurableInv
<1>. QED BY <1>1, <1>3, <1>4, <1>5 DEF RocksInv

\* A frame is put.
LEMMA PutKeeps ==
    ASSUME RocksInv, NEW w \in Writers, Put(w)
    PROVE  RocksInv'
<1>0. w \in Clients /\ Own[w] \in Streams /\ pc[w] = "put" /\ life = "open"
  BY ClientFacts DEF Put, RocksInv, BackendInv
<1>1. CASE Throw(w)
  BY <1>0, <1>1, MoveKeeps DEF Throw, Locations
<1>2. CASE /\ content' = [content EXCEPT ![Own[w]] = Append(@, Len(@) + 1)]
           /\ Goto(w, "idle")
           /\ UNCHANGED <<life, synced, families, handles, created, iter, covered, promised>>
  <2>1. /\ pc' \in [Clients -> Locations] /\ pc'[w] = "idle"
        /\ \A d \in Clients : d # w => pc'[d] = pc[d]
    BY <1>0, <1>2, GotoFacts DEF RocksInv, Locations
  <2>2. content \in [Streams -> Seq(Nat)] /\ Len(content[Own[w]]) < MaxFrames
    BY <1>0, ClientFacts DEF RocksInv, BackendInv
  <2>3. /\ content' \in [Streams -> Seq(Nat)]
        /\ Len(content'[Own[w]]) = Len(content[Own[w]]) + 1
        /\ \A s \in Streams : s # Own[w] => content'[s] = content[s]
    BY <1>0, <1>2, <2>2
  <2>4. \A s \in Streams : /\ Len(content[s]) \in Nat /\ Len(content'[s]) \in Nat
                           /\ Len(content[s]) <= Len(content'[s])
                           /\ Len(content'[s]) <= MaxFrames
    <3>. SUFFICES ASSUME NEW s \in Streams
                  PROVE  /\ Len(content[s]) \in Nat /\ Len(content'[s]) \in Nat
                         /\ Len(content[s]) <= Len(content'[s])
                         /\ Len(content'[s]) <= MaxFrames
      OBVIOUS
    <3>1. Len(content[s]) \in Nat /\ Len(content[s]) <= MaxFrames /\ MaxFrames \in Nat
      BY <2>2, ClientFacts DEF RocksInv, BackendInv
    <3>2. CASE s = Own[w]
      BY <2>2, <2>3, <3>1, <3>2
    <3>3. CASE s # Own[w]
      BY <2>3, <3>1, <3>3
    <3>. QED BY <3>2, <3>3
  <2>5. BackendInv'
    <3>1. \A c \in Writers : pc'[c] \in {"create", "remember", "put"} =>
                              Len(content'[Own[c]]) < MaxFrames
      BY <2>1, <2>3, ClientFacts DEF RocksInv, BackendInv
    <3>. QED BY <1>0, <1>2, <2>1, <2>3, <2>4, <3>1, ClientFacts DEF RocksInv, BackendInv
  <2>6. \A d \in Clients : Remembering(d)' <=> Remembering(d)
    BY <1>0, <2>1 DEF Remembering
  <2>7. HandleInv'
    BY <1>2, <2>6 DEF RocksInv, HandleInv
  <2>8. IterInv'
    <3>1. \A r \in Readers : /\ iter[r].snapshot \in 0 .. Len(content'[Own[r]])
                             /\ pc'[r] # "reading" => iter[r] = NoIterator
      BY <2>1, <2>4, ClientFacts DEF RocksInv, IterInv
    <3>. QED BY <1>2, <3>1 DEF RocksInv, IterInv
  <2>9. DurableInv'
    <3>. SUFFICES ASSUME NEW s \in Streams
                  PROVE  covered[s] <= synced[s] /\ synced[s] <= Len(content'[s])
      BY <1>2 DEF DurableInv
    <3>. QED BY <2>4 DEF RocksInv, DurableInv, BackendInv
  <2>. QED BY <2>5, <2>7, <2>8, <2>9 DEF RocksInv
<1>. QED BY <1>1, <1>2 DEF Put

\* What is in the files becomes durable, all of it or one family's.
LEMMA SyncKeeps ==
    ASSUME RocksInv, synced' \in [Streams -> Nat],
           \A s \in Streams : synced'[s] \in {synced[s], Len(content[s])},
           covered' = covered \/ (covered' = Lengths /\ synced' = Lengths),
           promised' \in {promised, Lengths},
           UNCHANGED <<life, content, families, handles, created, pc, iter>>
    PROVE  RocksInv'
<1>1. \A s \in Streams : /\ Len(content[s]) \in 0 .. MaxFrames /\ synced[s] \in 0 .. MaxFrames
                         /\ covered[s] \in 0 .. MaxFrames
                         /\ covered[s] <= synced[s] /\ synced[s] <= Len(content[s])
  BY ClientFacts DEF RocksInv, BackendInv, DurableInv
<1>2. synced' \in [Streams -> 0 .. MaxFrames]
  BY <1>1
<1>3. covered' \in [Streams -> 0 .. MaxFrames] /\ promised' \in [Streams -> 0 .. MaxFrames]
  BY <1>1 DEF RocksInv, BackendInv, Lengths
<1>4. \A s \in Streams : covered'[s] <= synced'[s] /\ synced'[s] <= Len(content[s])
  <2>. SUFFICES ASSUME NEW s \in Streams
                PROVE  covered'[s] <= synced'[s] /\ synced'[s] <= Len(content[s])
    OBVIOUS
  <2>1. CASE covered' = covered
    BY <1>1, <2>1
  <2>2. CASE covered' = Lengths /\ synced' = Lengths
    BY <1>1, <2>2 DEF Lengths
  <2>. QED BY <2>1, <2>2
<1>5. BackendInv'
  BY <1>2, <1>3 DEF RocksInv, BackendInv
<1>6. HandleInv' /\ IterInv'
  BY DEF RocksInv, HandleInv, IterInv, Remembering
<1>7. DurableInv'
  BY <1>4 DEF DurableInv
<1>. QED BY <1>5, <1>6, <1>7 DEF RocksInv

\* Every step preserves the invariant.
LEMMA NextPreservesInv == RocksInv /\ [Next]_vars => RocksInv'
<1>. SUFFICES ASSUME RocksInv, [Next]_vars PROVE RocksInv'
  OBVIOUS
<1>pc. pc \in [Clients -> Locations]
  BY DEF RocksInv, BackendInv
<1>1. CASE Setup
  <2>1. \A c \in Clients : ~Remembering(c) /\ ~Remembering(c)'
    BY <1>1 DEF Setup, RocksInv, HandleInv, Remembering
  <2>2. BackendInv'
    BY <1>1 DEF Setup, RocksInv, BackendInv
  <2>3. HandleInv'
    BY <1>1, <2>1, ClientFacts DEF Setup, HandleInv
  <2>4. IterInv' /\ DurableInv'
    BY <1>1 DEF Setup, RocksInv, IterInv, DurableInv
  <2>. QED BY <2>2, <2>3, <2>4 DEF RocksInv
<1>2. CASE Teardown
  <2>1. \A c \in Clients : ~Remembering(c) /\ ~Remembering(c)'
    BY <1>2 DEF Teardown, Remembering
  <2>2. BackendInv'
    <3>1. Lengths \in [Streams -> 0 .. MaxFrames]
      BY ClientFacts DEF RocksInv, BackendInv, Lengths
    <3>. QED BY <1>2, <3>1 DEF Teardown, RocksInv, BackendInv
  <2>3. HandleInv'
    BY <1>2, <2>1 DEF Teardown, RocksInv, HandleInv
  <2>4. IterInv' /\ DurableInv'
    BY <1>2 DEF Teardown, RocksInv, IterInv, DurableInv
  <2>. QED BY <2>2, <2>3, <2>4 DEF RocksInv
<1>3. CASE MemtableFlush
  <2>1. PICK s \in Streams : synced' = [synced EXCEPT ![s] = Len(content[s])]
    BY <1>3 DEF MemtableFlush
  <2>2. /\ synced \in [Streams -> Nat] /\ Len(content[s]) \in Nat
    BY ClientFacts DEF RocksInv, BackendInv
  <2>3. /\ synced' \in [Streams -> Nat]
        /\ \A u \in Streams : synced'[u] \in {synced[u], Len(content[u])}
    BY <2>1, <2>2
  <2>4. UNCHANGED <<life, content, families, handles, created, pc, iter, covered, promised>>
    BY <1>3 DEF MemtableFlush
  <2>. QED BY <2>3, <2>4, SyncKeeps
<1>4. CASE PowerLoss
  <2>1. PICK n \in [Streams -> 0 .. MaxFrames] :
          /\ \A s \in Streams : synced[s] <= n[s] /\ n[s] <= Len(content[s])
          /\ content' = [s \in Streams |-> SubSeq(content[s], 1, n[s])]
          /\ synced' = n
    BY <1>4 DEF PowerLoss
  <2>2. /\ life' = "off" /\ handles' = {} /\ UNCHANGED <<families, covered, promised>>
        /\ created' = [s \in Streams |-> 0] /\ pc' = [c \in Clients |-> "idle"]
        /\ iter' = [r \in Readers |-> NoIterator]
    BY <1>4 DEF PowerLoss
  <2>3. content \in [Streams -> Seq(Nat)] /\ MaxFrames \in Nat
        /\ \A s \in Streams : Len(content[s]) \in Nat /\ n[s] \in Nat /\ n[s] <= MaxFrames
    BY ClientFacts DEF RocksInv, BackendInv
  <2>4. \A s \in Streams : /\ SubSeq(content[s], 1, n[s]) \in Seq(Nat)
                           /\ Len(SubSeq(content[s], 1, n[s])) = n[s]
    BY <2>1, <2>3
  <2>5. /\ content' \in [Streams -> Seq(Nat)]
        /\ \A s \in Streams : Len(content'[s]) = n[s]
    BY <2>1, <2>4
  <2>6. BackendInv'
    <3>1. pc' \in [Clients -> Locations] /\ \A c \in Clients : pc'[c] = "idle"
      BY <2>2 DEF Locations
    <3>. QED BY <2>1, <2>2, <2>3, <2>5, <3>1, ClientFacts DEF RocksInv, BackendInv
  <2>7. HandleInv'
    BY <2>2 DEF RocksInv, HandleInv, Remembering
  <2>8. IterInv'
    BY <2>2, <2>3, <2>5, ClientFacts DEF IterInv, NoIterator
  <2>9. DurableInv'
    <3>. SUFFICES ASSUME NEW s \in Streams
                  PROVE  covered[s] <= n[s] /\ n[s] <= Len(content'[s])
      BY <2>1, <2>2 DEF DurableInv
    <3>1. covered[s] \in Nat /\ synced[s] \in Nat /\ covered[s] <= synced[s]
      BY ClientFacts DEF RocksInv, BackendInv, DurableInv
    <3>. QED BY <2>1, <2>3, <2>5, <3>1
  <2>. QED BY <2>6, <2>7, <2>8, <2>9 DEF RocksInv
<1>5. ASSUME NEW c \in Clients, LookUp(c) PROVE RocksInv'
  <2>1. PICK loc \in {"put", "open", "create"} :
          /\ Goto(c, loc) /\ (loc = "put" => c \in Writers)
    BY <1>5 DEF LookUp, After
  <2>. QED BY <1>5, <2>1, MoveKeeps DEF LookUp, Locations
<1>6. ASSUME NEW c \in Clients, Create(c) PROVE RocksInv'
  <2>0. life = "open" /\ pc[c] = "create" /\ Own[c] \in Streams
    BY <1>6, ClientFacts DEF Create, RocksInv, BackendInv
  <2>1. CASE Throw(c)
    BY <2>0, <2>1, MoveKeeps DEF Throw, Locations
  <2>2. CASE /\ Own[c] \notin families
             /\ families' = families \cup {Own[c]}
             /\ created' = [created EXCEPT ![Own[c]] = @ + 1]
             /\ Goto(c, "remember")
             /\ UNCHANGED <<life, content, synced, handles, iter, covered, promised>>
    <3>1. /\ pc' \in [Clients -> Locations] /\ pc'[c] = "remember"
          /\ \A d \in Clients : d # c => pc'[d] = pc[d]
      BY <2>2, GotoFacts DEF RocksInv, Locations
    <3>2. BackendInv'
      BY <2>0, <2>2, <3>1, ClientFacts DEF RocksInv, BackendInv
    <3>3. /\ Remembering(c)'
          /\ \A d \in Clients : d # c => (Remembering(d)' <=> Remembering(d))
          /\ \A d \in Clients : Remembering(d) => Own[d] # Own[c]
      BY <2>2, <3>1 DEF Remembering, RocksInv, HandleInv
    <3>4. /\ created' \in [Streams -> Nat] /\ created'[Own[c]] = 1 /\ Own[c] \notin handles
          /\ \A s \in Streams : s # Own[c] => created'[s] = created[s]
      BY <2>0, <2>2, <3>3 DEF RocksInv, HandleInv
    <3>5. HandleInv'
      BY <2>0, <2>2, <3>3, <3>4 DEF RocksInv, HandleInv
    <3>6. IterInv' /\ DurableInv'
      BY <2>0, <2>2, <3>1, ClientFacts DEF RocksInv, IterInv, DurableInv
    <3>. QED BY <3>2, <3>5, <3>6 DEF RocksInv
  <2>. QED BY <1>6, <2>1, <2>2 DEF Create
<1>7. ASSUME NEW c \in Clients, Remember(c) PROVE RocksInv'
  <2>0. /\ life = "open" /\ Remembering(c) /\ Own[c] \in Streams
        /\ Own[c] \in families \ handles
    BY <1>7, ClientFacts DEF Remember, Remembering, RocksInv, BackendInv, HandleInv
  <2>1. /\ handles' = handles \cup {Own[c]} /\ created' = created
        /\ UNCHANGED <<life, content, synced, families, iter, covered, promised>>
    BY <1>7, <2>0 DEF Remember
  <2>2. PICK loc \in {"put", "open"} : Goto(c, loc) /\ (loc = "put" => c \in Writers)
    BY <1>7 DEF Remember, After
  <2>3. /\ pc' \in [Clients -> Locations] /\ pc'[c] = loc
        /\ \A d \in Clients : d # c => pc'[d] = pc[d]
    BY <2>2, GotoFacts DEF RocksInv, Locations
  <2>4. BackendInv'
    BY <2>0, <2>1, <2>2, <2>3, ClientFacts DEF RocksInv, BackendInv, Remembering
  <2>5. /\ ~Remembering(c)'
        /\ \A d \in Clients : d # c => (Remembering(d)' <=> Remembering(d))
    BY <2>3 DEF Remembering
  <2>6. HandleInv'
    BY <2>0, <2>1, <2>5 DEF RocksInv, HandleInv
  <2>7. IterInv' /\ DurableInv'
    BY <2>0, <2>1, <2>3, ClientFacts DEF RocksInv, IterInv, DurableInv, Remembering
  <2>. QED BY <2>4, <2>6, <2>7 DEF RocksInv
<1>8. ASSUME NEW w \in Writers, Put(w) PROVE RocksInv'
  BY <1>8, PutKeeps
<1>9. ASSUME NEW w \in Writers, SyncWAL(w) PROVE RocksInv'
  <2>1. CASE Throw(w)
    BY <1>9, <2>1, ClientFacts, MoveKeeps DEF SyncWAL, Throw, Locations
  <2>2. CASE /\ synced' = Lengths /\ covered' = Lengths /\ promised' = Lengths
             /\ UNCHANGED <<life, content, families, handles, created, pc, iter>>
    <3>1. \A s \in Streams : Len(content[s]) \in Nat
      BY DEF RocksInv, BackendInv
    <3>2. /\ synced' \in [Streams -> Nat]
          /\ \A s \in Streams : synced'[s] \in {synced[s], Len(content[s])}
      BY <2>2, <3>1 DEF Lengths
    <3>. QED BY <2>2, <3>2, SyncKeeps
  <2>. QED BY <1>9, <2>1, <2>2 DEF SyncWAL
<1>10. ASSUME NEW r \in Readers, OpenIterator(r) PROVE RocksInv'
  <2>. DEFINE it == [iter[r] EXCEPT !.snapshot = Len(content[Own[r]])]
  <2>1. iter' = [iter EXCEPT ![r] = it]
    BY <1>10 DEF OpenIterator
  <2>2. /\ it = [snapshot |-> it.snapshot, key |-> it.key, frame |-> it.frame, due |-> it.due]
        /\ it.snapshot = Len(content[Own[r]])
    BY DEF RocksInv, IterInv
  <2>3. Len(content[Own[r]]) \in Nat
    BY ClientFacts DEF RocksInv, BackendInv
  <2>4. it.snapshot \in 0 .. Len(content[Own[r]])
    BY <2>2, <2>3
  <2>. HIDE DEF it
  <2>. QED BY <1>10, <2>1, <2>2, <2>4, ReaderKeeps DEF OpenIterator, Goto
<1>11. ASSUME NEW r \in Readers, NEW key, NEW due, MoveTo(r, key, due) PROVE RocksInv'
  <2>0. PICK frame : iter' = [iter EXCEPT ![r] = [iter[r] EXCEPT !.key = key,
                                                                 !.frame = frame,
                                                                 !.due = due]]
    <3>1. iter' = [iter EXCEPT ![r] = [iter[r] EXCEPT
                     !.key = key,
                     !.frame = IF key = NoKey THEN iter[r].frame ELSE Decode(key),
                     !.due = due]]
      BY <1>11 DEF MoveTo, RocksInv, IterInv
    <3>. QED BY <3>1
  <2>. DEFINE it == [iter[r] EXCEPT !.key = key, !.frame = frame, !.due = due]
  <2>1. iter' = [iter EXCEPT ![r] = it]
    BY <2>0
  <2>2. /\ it = [snapshot |-> it.snapshot, key |-> it.key, frame |-> it.frame, due |-> it.due]
        /\ it.snapshot = iter[r].snapshot
    <3>. DEFINE n == iter[r].snapshot
                k == iter[r].key
                f == iter[r].frame
                d == iter[r].due
    <3>1. iter[r] = [snapshot |-> n, key |-> k, frame |-> f, due |-> d]
      BY DEF RocksInv, IterInv
    <3>. HIDE DEF n, k, f, d
    <3>2. it = [snapshot |-> n, key |-> key, frame |-> frame, due |-> due]
      <4>. DEFINE keyed  == [iter[r] EXCEPT !.key = key]
                  framed == [keyed EXCEPT !.frame = frame]
      <4>1. keyed = [snapshot |-> n, key |-> key, frame |-> f, due |-> d]
        BY <3>1
      <4>2. framed = [snapshot |-> n, key |-> key, frame |-> frame, due |-> d]
        <5>. HIDE DEF keyed
        <5>. QED BY <4>1
      <4>3. [framed EXCEPT !.due = due]
              = [snapshot |-> n, key |-> key, frame |-> frame, due |-> due]
        <5>. HIDE DEF framed
        <5>. QED BY <4>2
      <4>. QED BY <4>3
    <3>3. iter[r].snapshot = n
      BY <3>1
    <3>. HIDE DEF it
    <3>. QED BY <3>2, <3>3
  <2>3. it.snapshot \in 0 .. Len(content[Own[r]])
    BY <2>2 DEF RocksInv, IterInv
  <2>4. pc' = [pc EXCEPT ![r] = "reading"]
    BY <1>11, <1>pc, ClientFacts DEF MoveTo
  <2>. HIDE DEF it
  <2>. QED BY <1>11, <2>1, <2>2, <2>3, <2>4, ReaderKeeps DEF MoveTo
<1>12. ASSUME NEW r \in Readers, Find(r) \/ NextFrame(r) \/ PrevFrame(r) PROVE RocksInv'
  <2>1. PICK key, due : MoveTo(r, key, due)
    BY <1>12 DEF Find, NextFrame, PrevFrame
  <2>. QED BY <1>11, <2>1
<1>13. ASSUME NEW r \in Readers, CloseIterator(r) PROVE RocksInv'
  <2>1. Len(content[Own[r]]) \in Nat
    BY ClientFacts DEF RocksInv, BackendInv
  <2>2. /\ NoIterator = [snapshot |-> NoIterator.snapshot, key |-> NoIterator.key,
                         frame |-> NoIterator.frame, due |-> NoIterator.due]
        /\ NoIterator.snapshot \in 0 .. Len(content[Own[r]])
    BY <2>1 DEF NoIterator
  <2>. QED BY <1>13, <2>2, ReaderKeeps DEF CloseIterator, Goto
<1>14. CASE UNCHANGED vars
  BY <1>14 DEF vars, RocksInv, BackendInv, HandleInv, IterInv, DurableInv, Remembering
<1>. QED
  BY <1>1, <1>2, <1>3, <1>4, <1>5, <1>6, <1>7, <1>8, <1>9, <1>10, <1>12, <1>13, <1>14
     DEF Next, Over

------------------------------------------------------------------------------
(* What it gives *)

\* The handles of a stream, as HandlesAccounted counts them.
LEMMA HandlesAreCounted == RocksInv => HandlesAccounted
<1>. SUFFICES ASSUME RocksInv, NEW s \in Streams
              PROVE  created[s] = Cardinality(handles \cap {s})
                       + Cardinality({c \in Clients : Own[c] = s /\ pc[c] = "remember"})
  BY DEF HandlesAccounted
<1>. DEFINE late == {c \in Clients : Own[c] = s /\ pc[c] = "remember"}
<1>0. /\ \A c \in late : c \in Clients /\ Remembering(c) /\ Own[c] = s /\ s \notin handles
      /\ \A c, d \in late : c = d
      /\ created[s] = IF s \in handles \/ late # {} THEN 1 ELSE 0
  BY DEF RocksInv, HandleInv, Remembering
<1>1. CASE s \in handles
  <2>1. handles \cap {s} = {s} /\ late = {} /\ created[s] = 1
    BY <1>0, <1>1
  <2>2. Cardinality({s}) = 1 /\ Cardinality({}) = 0
    BY FS_Singleton, FS_EmptySet
  <2>. HIDE DEF late
  <2>3. Cardinality(handles \cap {s}) = 1 /\ Cardinality(late) = 0
    BY <2>1, <2>2
  <2>4. created[s] = Cardinality(handles \cap {s}) + Cardinality(late)
    BY <2>1, <2>3
  <2>. QED BY <2>4 DEF late
<1>2. CASE s \notin handles
  <2>1. handles \cap {s} = {} /\ Cardinality({}) = 0
    BY <1>2, FS_EmptySet
  <2>2. CASE late = {}
    <3>1. created[s] = 0
      BY <1>0, <1>2, <2>2
    <3>. HIDE DEF late
    <3>2. Cardinality(handles \cap {s}) = 0 /\ Cardinality(late) = 0
      BY <2>1, <2>2
    <3>3. created[s] = Cardinality(handles \cap {s}) + Cardinality(late)
      BY <3>1, <3>2
    <3>. QED BY <3>3 DEF late
  <2>3. CASE late # {}
    <3>1. PICK c \in late : late = {c}
      BY <1>0, <2>3
    <3>2. created[s] = 1 /\ Cardinality({c}) = 1
      BY <1>0, <2>3, FS_Singleton
    <3>. HIDE DEF late
    <3>3. Cardinality(handles \cap {s}) = 0 /\ Cardinality(late) = 1
      BY <2>1, <3>1, <3>2
    <3>4. created[s] = Cardinality(handles \cap {s}) + Cardinality(late)
      BY <3>2, <3>3
    <3>. QED BY <3>4 DEF late
  <2>. QED BY <2>2, <2>3
<1>. QED BY <1>1, <1>2

\* Initially nothing is stored and nothing kept.
LEMMA InitIsAllowed == Init => Boundaries!Init
BY DEF Init, Boundaries!Init

\* Each step is one that BoundarySpec allows, or leaves what it sees alone.
LEMMA StepsAreAllowed ==
    RocksInv /\ [Next]_vars =>
        [Boundaries!Open \/ Boundaries!Add \/ Boundaries!Boundary \/ Boundaries!CloseUnflushed
           \/ Boundaries!Crash]_(Boundaries!store)
<1>. SUFFICES ASSUME RocksInv, [Next]_vars
              PROVE  \/ Boundaries!Open \/ Boundaries!Add \/ Boundaries!Boundary
                     \/ Boundaries!CloseUnflushed \/ Boundaries!Crash
                     \/ UNCHANGED Boundaries!store
  OBVIOUS
<1>a. ASSUME UNCHANGED <<life, content, covered>> PROVE UNCHANGED Boundaries!store
  BY <1>a DEF Boundaries!store
<1>1. CASE Setup
  BY <1>1 DEF Setup, Boundaries!Open
<1>2. CASE Teardown
  BY <1>2 DEF Teardown, Boundaries!CloseUnflushed
<1>3. CASE PowerLoss
  <2>1. PICK n \in [Streams -> 0 .. MaxFrames] :
          /\ \A s \in Streams : synced[s] <= n[s] /\ n[s] <= Len(content[s])
          /\ content' = [s \in Streams |-> SubSeq(content[s], 1, n[s])]
    BY <1>3 DEF PowerLoss
  <2>2. life \in {"open", "closed"} /\ life' = "off" /\ covered' = covered
    BY <1>3 DEF PowerLoss, RocksInv, BackendInv
  <2>3. \A s \in Streams : n[s] \in covered[s] .. Len(content[s])
    <3>. SUFFICES ASSUME NEW s \in Streams PROVE n[s] \in covered[s] .. Len(content[s])
      OBVIOUS
    <3>1. /\ covered[s] \in Nat /\ synced[s] \in Nat /\ covered[s] <= synced[s]
          /\ n[s] \in Nat /\ Len(content[s]) \in Nat
      BY ClientFacts DEF RocksInv, BackendInv, DurableInv
    <3>. QED BY <2>1, <3>1
  <2>4. DOMAIN content' = Streams
    BY <2>1
  <2>5. \A s \in Streams : \E m \in covered[s] .. Len(content[s]) :
          content'[s] = SubSeq(content[s], 1, m)
    BY <2>1, <2>3
  <2>. QED BY <2>2, <2>4, <2>5 DEF Boundaries!Crash
<1>4. ASSUME NEW w \in Writers, Put(w)
      PROVE  Boundaries!Add \/ UNCHANGED Boundaries!store
  <2>1. CASE Throw(w)
    BY <1>a, <2>1 DEF Throw
  <2>2. CASE /\ content' = [content EXCEPT ![Own[w]] = Append(@, Len(@) + 1)]
             /\ UNCHANGED <<life, covered>>
    <3>. DEFINE s == Own[w]
    <3>1. s \in Streams /\ content \in [Streams -> Seq(Nat)] /\ life = "open"
      BY <1>4, ClientFacts DEF Put, RocksInv, BackendInv
    <3>2. content'[s] = Append(content[s], Len(content[s]) + 1)
      BY <2>2, <3>1
    <3>3. content'[s] # <<>> /\ content'[s][Len(content'[s])] = Len(content[s]) + 1
      BY <3>1, <3>2
    <3>4. content' = [content EXCEPT ![s] = Append(@, content'[s][Len(content'[s])])]
      BY <2>2, <3>1, <3>3
    <3>. QED BY <2>2, <3>1, <3>3, <3>4 DEF Boundaries!Add
  <2>. QED BY <1>4, <2>1, <2>2 DEF Put
<1>5. ASSUME NEW w \in Writers, SyncWAL(w)
      PROVE  Boundaries!Boundary \/ UNCHANGED Boundaries!store
  BY <1>5, <1>a DEF SyncWAL, Throw, Boundaries!Boundary, Boundaries!Lengths, Lengths
<1>6. CASE MemtableFlush \/ (\E c \in Clients : LookUp(c) \/ Create(c) \/ Remember(c))
  <2>1. UNCHANGED <<life, content, covered>>
    BY <1>6 DEF MemtableFlush, LookUp, Create, Throw, Remember
  <2>. QED BY <1>a, <2>1
<1>7. CASE \E r \in Readers : OpenIterator(r) \/ Find(r) \/ NextFrame(r) \/ PrevFrame(r)
                              \/ CloseIterator(r)
  <2>1. UNCHANGED <<life, content, covered>>
    BY <1>7 DEF OpenIterator, Find, NextFrame, PrevFrame, MoveTo, CloseIterator
  <2>. QED BY <1>a, <2>1
<1>8. CASE UNCHANGED vars
  BY <1>8, <1>a DEF vars
<1>. QED
  BY <1>1, <1>2, <1>3, <1>4, <1>5, <1>6, <1>7, <1>8 DEF Next, Over

------------------------------------------------------------------------------
(* Keys: the digits of a timestamp sort like the timestamps, and give them back *)

\* The timestamps a workload writes or asks for.
Stamps == 0 .. MaxFrames + 1

\* What the first i digits of a key of ts say.
Leading(ts, i) == ts \div Weight[KeyBytes - i]

\* A set of numbers has a least one.
LEMMA LeastNumber ==
    ASSUME NEW S \in SUBSET Nat, S # {}
    PROVE  \E m \in S : \A k \in S : m <= k
<1>. DEFINE R == {p \in Nat \X Nat : p[1] < p[2]}
<1>1. IsWellFoundedOn(R, Nat)
  BY NatLessThanWellFounded, Zenon DEF OpToRel
<1>2. PICK m \in S : \A k \in S : <<k, m>> \notin R
  <2>. HIDE DEF R
  <2>. QED BY <1>1, WFMin
<1>3. \A k \in S : m <= k
  <2>1. \A k \in S : ~(k < m)
    BY <1>2
  <2>. QED BY <2>1
<1>. QED BY <1>3

\* g is defined by a recursion over the digits, f being any function of a place and
\* the value before it.
IsRecursion(base, f, last, g) ==
    /\ g \in [0 .. last -> Nat]
    /\ \A i \in 0 .. last : g[i] = IF i = 0 THEN base ELSE f[<<i, g[i - 1]>>]

\* Such a function exists.
LEMMA DigitRecursion ==
    ASSUME NEW base \in Nat, NEW f \in [Nat \X Nat -> Nat], NEW last \in Nat
    PROVE  \E g : IsRecursion(base, f, last, g)
<1>. DEFINE Good(n) == \E g : IsRecursion(base, f, n, g)
            Bad == {n \in Nat : ~Good(n)}
<1>1. Good(0)
  <2>. DEFINE g == [i \in 0 .. 0 |-> base]
  <2>1. g \in [0 .. 0 -> Nat] /\ \A i \in 0 .. 0 : i = 0 /\ g[i] = base
    OBVIOUS
  <2>. HIDE DEF g
  <2>. QED BY <2>1 DEF IsRecursion
<1>2. ASSUME NEW n \in Nat \ {0}, Good(n - 1) PROVE Good(n)
  <2>1. PICK g \in [0 .. n - 1 -> Nat] :
          \A i \in 0 .. n - 1 : g[i] = IF i = 0 THEN base ELSE f[<<i, g[i - 1]>>]
    BY <1>2 DEF IsRecursion
  <2>. DEFINE h == [i \in 0 .. n |-> IF i = n THEN f[<<n, g[n - 1]>>] ELSE g[i]]
  <2>2. n - 1 \in 0 .. n - 1 /\ g[n - 1] \in Nat /\ f[<<n, g[n - 1]>>] \in Nat
    OBVIOUS
  <2>3. h \in [0 .. n -> Nat]
    BY <2>2
  <2>4. h[n] = f[<<n, g[n - 1]>>] /\ \A i \in 0 .. n - 1 : h[i] = g[i]
    OBVIOUS
  <2>. HIDE DEF h
  <2>5. ASSUME NEW i \in 0 .. n
        PROVE  h[i] = IF i = 0 THEN base ELSE f[<<i, h[i - 1]>>]
    <3>1. CASE i = n
      BY <2>2, <2>4, <3>1
    <3>2. CASE i # n
      <4>1. i \in 0 .. n - 1 /\ (i # 0 => i - 1 \in 0 .. n - 1)
        BY <3>2
      <4>. QED BY <2>1, <2>4, <4>1
    <3>. QED BY <3>1, <3>2
  <2>. QED BY <2>3, <2>5 DEF IsRecursion
<1>3. SUFFICES ASSUME Bad # {} PROVE FALSE
  OBVIOUS
<1>4. PICK n \in Bad : \A k \in Bad : n <= k
  <2>1. Bad \in SUBSET Nat
    OBVIOUS
  <2>. HIDE DEF Bad
  <2>. QED BY <1>3, <2>1, LeastNumber
<1>. HIDE DEF Good
<1>5. n \in Nat \ {0} /\ ~Good(n) /\ n - 1 \in Nat /\ ~(n <= n - 1)
  BY <1>1
<1>6. Good(n - 1)
  BY <1>4, <1>5
<1>. QED BY <1>2, <1>5, <1>6

\* What the assumptions say of keys.
LEMMA KeyFacts ==
    /\ KeyBytes \in Nat \ {0} /\ Byte \in Nat /\ Byte > 1 /\ MaxFrames \in Nat
    /\ MaxFrames + 1 < Weight[KeyBytes]
BY RocksAssumption

\* Each digit is worth Byte times the next.
LEMMA WeightFacts ==
    /\ Weight[0] = 1
    /\ \A i \in 0 .. KeyBytes : Weight[i] \in Nat \ {0}
    /\ \A i \in 1 .. KeyBytes : Weight[i] = Byte * Weight[i - 1]
<1>. DEFINE f == [p \in Nat \X Nat |-> Byte * p[2]]
            Step(g) == [i \in 0 .. KeyBytes |-> IF i = 0 THEN 1 ELSE Byte * g[i - 1]]
            Bad == {i \in 0 .. KeyBytes : Weight[i] \notin Nat \ {0}}
<1>1. f \in [Nat \X Nat -> Nat]
  BY KeyFacts
<1>2. PICK g \in [0 .. KeyBytes -> Nat] :
        \A i \in 0 .. KeyBytes : g[i] = IF i = 0 THEN 1 ELSE f[<<i, g[i - 1]>>]
  <2>1. 1 \in Nat /\ KeyBytes \in Nat
    BY KeyFacts
  <2>. HIDE DEF f
  <2>2. PICK g : IsRecursion(1, f, KeyBytes, g)
    BY <1>1, <2>1, DigitRecursion
  <2>. QED BY <2>2 DEF IsRecursion
<1>3. \A i \in 0 .. KeyBytes : g[i] = IF i = 0 THEN 1 ELSE Byte * g[i - 1]
  <2>. SUFFICES ASSUME NEW i \in 0 .. KeyBytes, i # 0 PROVE f[<<i, g[i - 1]>>] = Byte * g[i - 1]
    BY <1>2
  <2>1. i \in Nat /\ i - 1 \in 0 .. KeyBytes /\ g[i - 1] \in Nat
    BY KeyFacts
  <2>. QED BY <2>1
<1>4. g = Step(g)
  BY <1>3
<1>5. Weight = Step(Weight)
  <2>1. \E h : h = Step(h)
    BY <1>4
  <2>. QED BY <2>1, Zenon DEF Weight
<1>6. \A i \in 0 .. KeyBytes : Weight[i] = IF i = 0 THEN 1 ELSE Byte * Weight[i - 1]
  <2>. SUFFICES ASSUME NEW i \in 0 .. KeyBytes
                PROVE  Weight[i] = IF i = 0 THEN 1 ELSE Byte * Weight[i - 1]
    OBVIOUS
  <2>1. Step(Weight)[i] = IF i = 0 THEN 1 ELSE Byte * Weight[i - 1]
    OBVIOUS
  <2>. QED BY <1>5, <2>1, Zenon
<1>7. Bad = {}
  <2>. SUFFICES ASSUME Bad # {} PROVE FALSE
    OBVIOUS
  <2>1. PICK i \in Bad : \A k \in Bad : i <= k
    <3>1. Bad \in SUBSET Nat
      BY KeyFacts
    <3>. HIDE DEF Bad
    <3>. QED BY <3>1, LeastNumber
  <2>2. i \in 0 .. KeyBytes /\ i # 0 /\ Weight[i] \notin Nat \ {0}
    BY <1>6, KeyFacts
  <2>3. i - 1 \in 0 .. KeyBytes /\ ~(i <= i - 1)
    BY <2>2, KeyFacts
  <2>4. Weight[i - 1] \in Nat \ {0}
    BY <2>1, <2>3
  <2>5. \A x \in Nat \ {0} : Byte * x \in Nat \ {0}
    BY KeyFacts
  <2>6. Weight[i] = Byte * Weight[i - 1]
    BY <1>6, <2>2
  <2>. QED BY <2>2, <2>4, <2>5, <2>6
<1>8. 0 \in 0 .. KeyBytes
  BY KeyFacts
<1>9. \A i \in 1 .. KeyBytes : i \in 0 .. KeyBytes /\ i # 0
  BY KeyFacts
<1>. QED BY <1>6, <1>7, <1>8, <1>9

\* Dividing by a product is dividing twice.
LEMMA DivideTwice ==
    ASSUME NEW n \in Nat, NEW a \in Nat \ {0}, NEW b \in Nat \ {0}
    PROVE  n \div (b * a) = (n \div a) \div b
<1>. DEFINE q == n \div a
            d == q \div b
<1>1. q \in Nat /\ a * q <= n /\ n < a * q + a
  OBVIOUS
<1>. HIDE DEF q
<1>2. d \in Nat /\ b * d <= q /\ q + 1 <= b * d + b
  BY <1>1
<1>. HIDE DEF d
<1>3. b * a \in Nat \ {0}
  OBVIOUS
<1>4. (b * a) * d <= n
  <2>1. (b * a) * d = a * (b * d)
    BY <1>2
  <2>2. \A x, y \in Nat : x <= y => a * x <= a * y
    OBVIOUS
  <2>3. b * d \in Nat
    BY <1>2
  <2>4. a * (b * d) <= a * q
    BY <1>1, <1>2, <2>2, <2>3
  <2>5. a * (b * d) \in Nat /\ a * q \in Nat
    BY <1>1, <2>3
  <2>. QED BY <1>1, <2>1, <2>4, <2>5
<1>5. n < (b * a) * d + b * a
  <2>1. (b * a) * d + b * a = a * (b * d + b)
    BY <1>2
  <2>2. \A x, y \in Nat : x <= y => a * x <= a * y
    OBVIOUS
  <2>3. b * d + b \in Nat /\ q + 1 \in Nat
    BY <1>1, <1>2
  <2>4. a * (q + 1) <= a * (b * d + b)
    BY <1>2, <2>2, <2>3
  <2>5. a * (q + 1) = a * q + a /\ a * (b * d + b) \in Nat /\ a * q \in Nat
    BY <1>1, <2>3
  <2>. QED BY <1>1, <2>1, <2>4, <2>5
<1>6. \A x \in Nat \ {0} : x * d <= n /\ n < x * d + x => n \div x = d
  BY <1>2
<1>7. n \div (b * a) = d
  BY <1>3, <1>4, <1>5, <1>6
<1>. QED BY <1>7 DEF d, q

\* One digit more.
LEMMA LeadingFacts ==
    ASSUME NEW ts \in Stamps
    PROVE  /\ Leading(ts, 0) = 0 /\ Leading(ts, KeyBytes) = ts
           /\ \A i \in 0 .. KeyBytes : Leading(ts, i) \in Nat
           /\ \A i \in 1 .. KeyBytes :
                /\ Encode(ts)[i] \in 0 .. Byte - 1
                /\ Leading(ts, i) = Byte * Leading(ts, i - 1) + Encode(ts)[i]
<1>1. ts \in Nat /\ ts < Weight[KeyBytes]
  BY KeyFacts, WeightFacts DEF Stamps
<1>2. \A i \in 0 .. KeyBytes : KeyBytes - i \in 0 .. KeyBytes /\ Weight[KeyBytes - i] \in Nat \ {0}
  BY KeyFacts, WeightFacts
<1>3. \A x \in Nat, w \in Nat \ {0} : x \div w \in Nat /\ (x < w => x \div w = 0) /\ x \div 1 = x
  OBVIOUS
<1>4. Leading(ts, 0) = 0 /\ Leading(ts, KeyBytes) = ts
  <2>1. 0 \in 0 .. KeyBytes /\ KeyBytes - 0 = KeyBytes /\ KeyBytes - KeyBytes = 0
    BY KeyFacts
  <2>2. Leading(ts, 0) = ts \div Weight[KeyBytes] /\ Leading(ts, KeyBytes) = ts \div Weight[0]
    BY <2>1 DEF Leading
  <2>3. Weight[KeyBytes] \in Nat \ {0}
    BY <1>2, <2>1
  <2>. QED BY <1>1, <1>3, <2>2, <2>3, WeightFacts
<1>5. \A i \in 0 .. KeyBytes : Leading(ts, i) \in Nat
  BY <1>1, <1>2, <1>3 DEF Leading
<1>6. ASSUME NEW i \in 1 .. KeyBytes
      PROVE  /\ Encode(ts)[i] \in 0 .. Byte - 1
             /\ Leading(ts, i) = Byte * Leading(ts, i - 1) + Encode(ts)[i]
  <2>1. i \in 0 .. KeyBytes /\ i - 1 \in 0 .. KeyBytes /\ KeyBytes - i + 1 \in 1 .. KeyBytes
        /\ KeyBytes - (i - 1) = KeyBytes - i + 1 /\ (KeyBytes - i + 1) - 1 = KeyBytes - i
    BY KeyFacts
  <2>2. Weight[KeyBytes - (i - 1)] = Byte * Weight[KeyBytes - i]
    BY <2>1, WeightFacts
  <2>3. Leading(ts, i - 1) = Leading(ts, i) \div Byte
    BY <1>1, <1>2, <2>1, <2>2, KeyFacts, DivideTwice DEF Leading
  <2>4. Encode(ts)[i] = Leading(ts, i) % Byte
    BY DEF Encode, Leading
  <2>5. \A x \in Nat : x % Byte \in 0 .. Byte - 1 /\ x = Byte * (x \div Byte) + (x % Byte)
    BY KeyFacts
  <2>. QED BY <1>5, <2>1, <2>3, <2>4, <2>5
<1>. QED BY <1>4, <1>5, <1>6

\* The digits of a key give back the timestamp.
LEMMA DecodeInvertsEncode ==
    ASSUME NEW ts \in Stamps
    PROVE  Decode(Encode(ts)) = ts
<1>. DEFINE key == Encode(ts)
            Step(v) == [i \in 0 .. KeyBytes |-> IF i = 0 THEN 0 ELSE Byte * v[i - 1] + key[i]]
            value == CHOOSE v : v = Step(v)
            lead == [i \in 0 .. KeyBytes |-> Leading(ts, i)]
            Bad == {i \in 0 .. KeyBytes : value[i] # Leading(ts, i)}
<1>1. lead = Step(lead)
  <2>. SUFFICES ASSUME NEW i \in 0 .. KeyBytes
                PROVE  Leading(ts, i) = IF i = 0 THEN 0 ELSE Byte * lead[i - 1] + key[i]
    OBVIOUS
  <2>1. CASE i = 0
    BY <2>1, LeadingFacts
  <2>2. CASE i # 0
    <3>1. i \in 1 .. KeyBytes /\ i - 1 \in 0 .. KeyBytes
      BY <2>2, KeyFacts
    <3>2. lead[i - 1] = Leading(ts, i - 1)
      BY <3>1
    <3>. HIDE DEF lead
    <3>. QED BY <2>2, <3>1, <3>2, LeadingFacts
  <2>. QED BY <2>1, <2>2
<1>2. value = Step(value)
  <2>1. \E v : v = Step(v)
    BY <1>1
  <2>. QED BY <2>1, Zenon
<1>3. Decode(key) = value[KeyBytes]
  BY Zenon DEF Decode
<1>4. \A i \in 0 .. KeyBytes : value[i] = IF i = 0 THEN 0 ELSE Byte * value[i - 1] + key[i]
  <2>. SUFFICES ASSUME NEW i \in 0 .. KeyBytes
                PROVE  value[i] = IF i = 0 THEN 0 ELSE Byte * value[i - 1] + key[i]
    OBVIOUS
  <2>. HIDE DEF value
  <2>1. Step(value)[i] = IF i = 0 THEN 0 ELSE Byte * value[i - 1] + key[i]
    OBVIOUS
  <2>. QED BY <1>2, <2>1, Zenon
<1>. HIDE DEF value, key, lead
<1>5. Bad = {}
  <2>. SUFFICES ASSUME Bad # {} PROVE FALSE
    OBVIOUS
  <2>1. PICK i \in Bad : \A k \in Bad : i <= k
    <3>1. Bad \in SUBSET Nat
      BY KeyFacts
    <3>. HIDE DEF Bad
    <3>. QED BY <3>1, LeastNumber
  <2>2. i \in 0 .. KeyBytes /\ i # 0 /\ value[i] # Leading(ts, i)
    BY <1>4, KeyFacts, LeadingFacts
  <2>3. i \in 1 .. KeyBytes /\ i - 1 \in 0 .. KeyBytes /\ ~(i <= i - 1)
    BY <2>2, KeyFacts
  <2>4. value[i - 1] = Leading(ts, i - 1)
    BY <2>1, <2>3
  <2>. QED BY <1>4, <2>2, <2>3, <2>4, LeadingFacts DEF key
<1>6. value[KeyBytes] = ts
  BY <1>5, KeyFacts, LeadingFacts
<1>. QED BY <1>3, <1>6 DEF key

\* A smaller timestamp has the smaller key.
LEMMA EncodeKeepsOrder ==
    ASSUME NEW a \in Stamps, NEW b \in Stamps, a < b
    PROVE  Before(Encode(a), Encode(b))
<1>. DEFINE Differ == {i \in 0 .. KeyBytes : Leading(a, i) # Leading(b, i)}
<1>1. KeyBytes \in Differ
  BY KeyFacts, LeadingFacts DEF Stamps
<1>2. PICK i \in Differ : \A k \in Differ : i <= k
  <2>1. Differ \in SUBSET Nat
    BY KeyFacts
  <2>. HIDE DEF Differ
  <2>. QED BY <1>1, <2>1, LeastNumber
<1>3. \A k \in 0 .. KeyBytes : k < i => Leading(a, k) = Leading(b, k)
  BY <1>2, KeyFacts
<1>4. i \in 1 .. KeyBytes /\ i - 1 \in 0 .. KeyBytes /\ i - 1 < i
  BY KeyFacts, LeadingFacts
<1>5. Encode(a)[i] # Encode(b)[i]
  BY <1>2, <1>3, <1>4, LeadingFacts
<1>6. Leading(a, i) <= Leading(b, i)
  <2>1. Weight[KeyBytes - i] \in Nat \ {0} /\ a \in Nat /\ b \in Nat
    BY <1>4, KeyFacts, WeightFacts DEF Stamps
  <2>2. \A x, y \in Nat, w \in Nat \ {0} : x < y => x \div w <= y \div w
    OBVIOUS
  <2>. QED BY <2>1, <2>2 DEF Leading
<1>7. Encode(a)[i] < Encode(b)[i]
  <2>1. /\ Leading(a, i) = Byte * Leading(a, i - 1) + Encode(a)[i]
        /\ Leading(b, i) = Byte * Leading(a, i - 1) + Encode(b)[i]
    BY <1>3, <1>4, LeadingFacts
  <2>2. /\ Encode(a)[i] \in Int /\ Encode(b)[i] \in Int /\ Byte \in Int
        /\ Leading(a, i - 1) \in Int
    BY <1>4, KeyFacts, LeadingFacts
  <2>3. \A x, y, z \in Int : z + x <= z + y => x <= y
    OBVIOUS
  <2>4. Byte * Leading(a, i - 1) \in Int
    BY <2>2
  <2>5. Encode(a)[i] <= Encode(b)[i]
    BY <1>6, <2>1, <2>2, <2>3, <2>4
  <2>. QED BY <1>5, <2>2, <2>5
<1>8. ASSUME NEW h \in 1 .. i - 1 PROVE Encode(a)[h] = Encode(b)[h]
  <2>1. h \in 1 .. KeyBytes /\ h \in 0 .. KeyBytes /\ h - 1 \in 0 .. KeyBytes /\ h < i /\ h - 1 < i
    BY <1>4, KeyFacts
  <2>2. /\ Leading(a, h) = Byte * Leading(a, h - 1) + Encode(a)[h]
        /\ Leading(a, h) = Byte * Leading(a, h - 1) + Encode(b)[h]
    BY <1>3, <2>1, LeadingFacts
  <2>3. /\ Encode(a)[h] \in Int /\ Encode(b)[h] \in Int /\ Byte \in Int
        /\ Leading(a, h - 1) \in Int
    BY <2>1, KeyFacts, LeadingFacts
  <2>4. Byte * Leading(a, h - 1) \in Int
    BY <2>3
  <2>5. \A x, y, z \in Int : z + x = z + y => x = y
    OBVIOUS
  <2>. QED BY <2>2, <2>3, <2>4, <2>5
<1>. QED BY <1>4, <1>7, <1>8 DEF Before

\* And conversely: of two keys at most one is before the other.
LEMMA OrderOfKeys ==
    ASSUME NEW a \in Stamps, NEW b \in Stamps
    PROVE  /\ Before(Encode(a), Encode(b)) <=> a < b
           /\ Encode(a) = Encode(b) => a = b
           /\ Encode(a) # NoKey
<1>1. a \in Nat /\ b \in Nat
  BY KeyFacts DEF Stamps
<1>2. ASSUME Before(Encode(a), Encode(b)), ~(a < b) PROVE FALSE
  <2>1. PICK i \in 1 .. KeyBytes :
          Encode(a)[i] < Encode(b)[i] /\ \A h \in 1 .. i - 1 : Encode(a)[h] = Encode(b)[h]
    BY <1>2 DEF Before
  <2>2. \A h \in 1 .. KeyBytes : Encode(a)[h] \in Int /\ Encode(b)[h] \in Int
    BY KeyFacts, LeadingFacts
  <2>3. a # b
    BY <2>1, <2>2
  <2>4. b < a
    BY <1>1, <1>2, <2>3
  <2>5. PICK j \in 1 .. KeyBytes :
          Encode(b)[j] < Encode(a)[j] /\ \A h \in 1 .. j - 1 : Encode(b)[h] = Encode(a)[h]
    BY <2>4, EncodeKeepsOrder DEF Before
  <2>6. i \in 1 .. j - 1 \/ j \in 1 .. i - 1 \/ i = j
    BY KeyFacts
  <2>7. CASE i \in 1 .. j - 1
    BY <2>1, <2>2, <2>5, <2>7
  <2>8. CASE j \in 1 .. i - 1
    BY <2>1, <2>2, <2>5, <2>8
  <2>9. CASE i = j
    BY <2>1, <2>2, <2>5, <2>9
  <2>. QED BY <2>6, <2>7, <2>8, <2>9
<1>3. Encode(a) = Encode(b) => a = b
  BY DecodeInvertsEncode
<1>4. Encode(a) # NoKey
  <2>1. 1 \in DOMAIN Encode(a)
    BY KeyFacts DEF Encode
  <2>2. 1 \notin DOMAIN NoKey
    BY DEF NoKey
  <2>. QED BY <2>1, <2>2
<1>. QED BY <1>2, <1>3, <1>4, EncodeKeepsOrder

\* Of the keys of consecutive timestamps the first is the smallest and the last the
\* greatest.
LEMMA EndsOfRange ==
    ASSUME NEW lo \in 1 .. MaxFrames + 1, NEW hi \in 0 .. MaxFrames
    PROVE  LET keys == {Encode(i) : i \in lo .. hi}
           IN  /\ Smallest(keys) = IF lo <= hi THEN Encode(lo) ELSE NoKey
               /\ Greatest(keys) = IF lo <= hi THEN Encode(hi) ELSE NoKey
<1>. DEFINE keys == {Encode(i) : i \in lo .. hi}
<1>1. lo .. hi \subseteq Stamps /\ MaxFrames \in Nat /\ lo \in Nat /\ hi \in Nat
  BY KeyFacts DEF Stamps
<1>2. CASE lo <= hi
  <2>1. lo \in lo .. hi /\ hi \in lo .. hi
    BY <1>1, <1>2
  <2>2. Encode(lo) \in keys /\ Encode(hi) \in keys /\ keys # {}
    BY <2>1
  <2>3. \A i, j \in lo .. hi : Before(Encode(i), Encode(j)) <=> i < j
    BY <1>1, OrderOfKeys
  <2>4. \A k \in keys : (\A j \in keys : ~Before(j, k)) <=> k = Encode(lo)
    <3>. SUFFICES ASSUME NEW i \in lo .. hi
                  PROVE  (\A j \in lo .. hi : ~Before(Encode(j), Encode(i))) <=> Encode(i) = Encode(lo)
      OBVIOUS
    <3>1. (\A j \in lo .. hi : ~(j < i)) <=> i = lo
      BY <1>1, <2>1
    <3>2. Encode(i) = Encode(lo) <=> i = lo
      BY <1>1, <2>1, OrderOfKeys
    <3>. QED BY <2>3, <3>1, <3>2
  <2>5. \A k \in keys : (\A j \in keys : ~Before(k, j)) <=> k = Encode(hi)
    <3>. SUFFICES ASSUME NEW i \in lo .. hi
                  PROVE  (\A j \in lo .. hi : ~Before(Encode(i), Encode(j))) <=> Encode(i) = Encode(hi)
      OBVIOUS
    <3>1. (\A j \in lo .. hi : ~(i < j)) <=> i = hi
      BY <1>1, <2>1
    <3>2. Encode(i) = Encode(hi) <=> i = hi
      BY <1>1, <2>1, OrderOfKeys
    <3>. QED BY <2>3, <3>1, <3>2
  <2>. HIDE DEF keys
  <2>6. (CHOOSE k \in keys : \A j \in keys : ~Before(j, k)) = Encode(lo)
    BY <2>2, <2>4
  <2>7. (CHOOSE k \in keys : \A j \in keys : ~Before(k, j)) = Encode(hi)
    BY <2>2, <2>5
  <2>8. Smallest(keys) = Encode(lo) /\ Greatest(keys) = Encode(hi)
    BY <2>2, <2>6, <2>7, Zenon DEF Smallest, Greatest
  <2>. QED BY <1>2, <2>8 DEF keys
<1>3. CASE ~(lo <= hi)
  <2>1. keys = {}
    BY <1>1, <1>3
  <2>. HIDE DEF keys
  <2>2. Smallest(keys) = NoKey /\ Greatest(keys) = NoKey
    BY <2>1 DEF Smallest, Greatest
  <2>. QED BY <1>3, <2>2 DEF keys
<1>. QED BY <1>2, <1>3

------------------------------------------------------------------------------
(* What an iterator shows *)

\* The n-th frame of a stream has timestamp n.
ContentInv == \A s \in Streams : \A i \in 1 .. Len(content[s]) : content[s][i] = i

\* An iterator that should be at a frame is at its key and shows it, and any other is
\* at none.
AtDue(it) ==
    /\ it.due \in Int
    /\ IF it.due \in 1 .. it.snapshot
         THEN it.key = Encode(it.due) /\ it.frame = it.due
         ELSE it.key = NoKey

OrderInv == ContentInv /\ \A r \in Readers : AtDue(iter[r])

\* The keys an iterator goes through.
LEMMA KeysOfSnapshot ==
    ASSUME RocksInv, OrderInv, NEW r \in Readers
    PROVE  /\ iter[r].snapshot \in 0 .. MaxFrames
           /\ Keys(r) = {Encode(i) : i \in 1 .. iter[r].snapshot}
<1>1. /\ Own[r] \in Streams /\ MaxFrames \in Nat
      /\ Len(content[Own[r]]) \in Nat /\ Len(content[Own[r]]) <= MaxFrames
      /\ iter[r].snapshot \in 0 .. Len(content[Own[r]])
  BY ClientFacts DEF RocksInv, BackendInv, IterInv
<1>2. iter[r].snapshot \in 0 .. MaxFrames /\ 1 .. iter[r].snapshot \subseteq 1 .. Len(content[Own[r]])
  BY <1>1
<1>3. \A i \in 1 .. iter[r].snapshot : content[Own[r]][i] = i
  BY <1>1, <1>2 DEF OrderInv, ContentInv
<1>. QED BY <1>2, <1>3 DEF Keys

\* A move to where the iterator should be then.
LEMMA MoveKeepsOrder ==
    ASSUME RocksInv, OrderInv, NEW r \in Readers, NEW key, NEW due \in Int,
           MoveTo(r, key, due),
           key = IF due \in 1 .. iter[r].snapshot THEN Encode(due) ELSE NoKey
    PROVE  OrderInv'
<1>1. iter = [q \in Readers |-> iter[q]]
      /\ iter[r] = [snapshot |-> iter[r].snapshot, key |-> iter[r].key,
                    frame |-> iter[r].frame, due |-> iter[r].due]
  BY Zenon DEF RocksInv, IterInv
<1>. DEFINE moved == [snapshot |-> iter[r].snapshot, key |-> key,
                      frame |-> IF key = NoKey THEN iter[r].frame ELSE Decode(key),
                      due |-> due]
<1>2. iter'[r] = moved /\ \A q \in Readers : q # r => iter'[q] = iter[q]
  BY <1>1 DEF MoveTo
<1>3. AtDue(moved)
  <2>1. CASE due \in 1 .. iter[r].snapshot
    <3>1. due \in Stamps
      BY <2>1, KeysOfSnapshot, KeyFacts DEF Stamps
    <3>2. key = Encode(due) /\ key # NoKey /\ Decode(key) = due
      BY <2>1, <3>1, OrderOfKeys, DecodeInvertsEncode
    <3>. QED BY <2>1, <3>2 DEF AtDue
  <2>2. CASE due \notin 1 .. iter[r].snapshot
    BY <2>2 DEF AtDue
  <2>. QED BY <2>1, <2>2
<1>4. \A q \in Readers : AtDue(iter'[q])
  <2>. HIDE DEF moved
  <2>. QED BY <1>2, <1>3 DEF OrderInv
<1>5. ContentInv'
  BY DEF MoveTo, OrderInv, ContentInv
<1>. QED BY <1>4, <1>5 DEF OrderInv, AtDue

\* Seek stops at the first frame not older than what is asked for.
LEMMA FindKeepsOrder ==
    ASSUME RocksInv, OrderInv, NEW r \in Readers, Find(r)
    PROVE  OrderInv'
<1>. DEFINE n == iter[r].snapshot
<1>0. n \in 0 .. MaxFrames /\ Keys(r) = {Encode(i) : i \in 1 .. n} /\ MaxFrames \in Nat
      /\ 1 .. n \subseteq Stamps
  BY KeysOfSnapshot, KeyFacts DEF Stamps
<1>. HIDE DEF n
<1>1. PICK ts \in 0 .. MaxFrames + 1 :
        MoveTo(r, Smallest({k \in Keys(r) : ~Before(k, Encode(ts))}), Max({ts, 1}))
  BY DEF Find
<1>. DEFINE lo == IF ts = 0 THEN 1 ELSE ts
            keys == {k \in Keys(r) : ~Before(k, Encode(ts))}
<1>2. ts \in Nat /\ ts \in Stamps /\ lo \in 1 .. MaxFrames + 1 /\ lo \in Int
  BY <1>0, <1>1 DEF Stamps
<1>3. Max({ts, 1}) = lo
  <2>1. lo \in {ts, 1} /\ \A y \in {ts, 1} : lo >= y
    BY <1>2
  <2>2. \A x \in {ts, 1} : (\A y \in {ts, 1} : x >= y) => x = lo
    BY <1>2
  <2>. HIDE DEF lo
  <2>. QED BY <2>1, <2>2, Zenon DEF Max
<1>4. keys = {Encode(i) : i \in lo .. n}
  <2>1. \A i \in 1 .. n : ~Before(Encode(i), Encode(ts)) <=> i >= lo
    <3>. SUFFICES ASSUME NEW i \in 1 .. n
                  PROVE  ~Before(Encode(i), Encode(ts)) <=> i >= lo
      OBVIOUS
    <3>1. Before(Encode(i), Encode(ts)) <=> i < ts
      BY <1>0, <1>2, OrderOfKeys
    <3>. QED BY <1>0, <1>2, <3>1
  <2>2. \A i : i \in lo .. n <=> i \in 1 .. n /\ i >= lo
    BY <1>0, <1>2
  <2>3. keys = {k \in {Encode(i) : i \in 1 .. n} : ~Before(k, Encode(ts))}
    BY <1>0
  <2>. HIDE DEF lo, keys
  <2>. QED BY <2>1, <2>2, <2>3
<1>. HIDE DEF keys, lo
<1>5. Smallest(keys) = IF lo <= n THEN Encode(lo) ELSE NoKey
  BY <1>0, <1>2, <1>4, EndsOfRange
<1>6. lo <= n <=> lo \in 1 .. n
  BY <1>0, <1>2
<1>7. MoveTo(r, Smallest(keys), lo)
  BY <1>1, <1>3 DEF keys
<1>. QED BY <1>2, <1>5, <1>6, <1>7, MoveKeepsOrder DEF n

\* The next and the previous key are those of the next and the previous frame.
LEMMA NextFrameKeepsOrder ==
    ASSUME RocksInv, OrderInv, NEW r \in Readers, NextFrame(r)
    PROVE  OrderInv'
<1>. DEFINE n == iter[r].snapshot
            due == iter[r].due
            keys == {k \in Keys(r) : Before(iter[r].key, k)}
<1>1. n \in 0 .. MaxFrames /\ Keys(r) = {Encode(i) : i \in 1 .. n} /\ MaxFrames \in Nat
      /\ 1 .. n \subseteq Stamps
  BY KeysOfSnapshot, KeyFacts DEF Stamps
<1>2. due \in 1 .. n /\ iter[r].key = Encode(due)
  BY DEF NextFrame, OrderInv, AtDue
<1>3. MoveTo(r, Smallest(keys), due + 1)
  BY DEF NextFrame
<1>4. keys = {k \in {Encode(i) : i \in 1 .. n} : Before(Encode(due), k)}
  BY <1>1, <1>2
<1>. HIDE DEF n, due, keys
<1>5. keys = {Encode(i) : i \in due + 1 .. n}
  <2>1. \A i \in 1 .. n : Before(Encode(due), Encode(i)) <=> i >= due + 1
    <3>. SUFFICES ASSUME NEW i \in 1 .. n
                  PROVE  Before(Encode(due), Encode(i)) <=> i >= due + 1
      OBVIOUS
    <3>1. Before(Encode(due), Encode(i)) <=> due < i
      BY <1>1, <1>2, OrderOfKeys
    <3>. QED BY <1>1, <1>2, <3>1
  <2>2. \A i : i \in due + 1 .. n <=> i \in 1 .. n /\ i >= due + 1
    BY <1>1, <1>2
  <2>. QED BY <1>4, <2>1, <2>2
<1>6. due + 1 \in 1 .. MaxFrames + 1 /\ due + 1 \in Int
      /\ (due + 1 <= n <=> due + 1 \in 1 .. n)
  BY <1>1, <1>2
<1>7. Smallest(keys) = IF due + 1 <= n THEN Encode(due + 1) ELSE NoKey
  BY <1>1, <1>5, <1>6, EndsOfRange
<1>. QED BY <1>3, <1>6, <1>7, MoveKeepsOrder DEF n

LEMMA PrevFrameKeepsOrder ==
    ASSUME RocksInv, OrderInv, NEW r \in Readers, PrevFrame(r)
    PROVE  OrderInv'
<1>. DEFINE n == iter[r].snapshot
            due == iter[r].due
            keys == {k \in Keys(r) : Before(k, iter[r].key)}
<1>1. n \in 0 .. MaxFrames /\ Keys(r) = {Encode(i) : i \in 1 .. n} /\ MaxFrames \in Nat
      /\ 1 .. n \subseteq Stamps
  BY KeysOfSnapshot, KeyFacts DEF Stamps
<1>2. due \in 1 .. n /\ iter[r].key = Encode(due)
  BY DEF PrevFrame, OrderInv, AtDue
<1>3. MoveTo(r, Greatest(keys), due - 1)
  BY DEF PrevFrame
<1>4. keys = {k \in {Encode(i) : i \in 1 .. n} : Before(k, Encode(due))}
  BY <1>1, <1>2
<1>. HIDE DEF n, due, keys
<1>5. keys = {Encode(i) : i \in 1 .. due - 1}
  <2>1. \A i \in 1 .. n : Before(Encode(i), Encode(due)) <=> i <= due - 1
    <3>. SUFFICES ASSUME NEW i \in 1 .. n
                  PROVE  Before(Encode(i), Encode(due)) <=> i <= due - 1
      OBVIOUS
    <3>1. Before(Encode(i), Encode(due)) <=> i < due
      BY <1>1, <1>2, OrderOfKeys
    <3>. QED BY <1>1, <1>2, <3>1
  <2>2. \A i : i \in 1 .. due - 1 <=> i \in 1 .. n /\ i <= due - 1
    BY <1>1, <1>2
  <2>. QED BY <1>4, <2>1, <2>2
<1>6. due - 1 \in 0 .. MaxFrames /\ due - 1 \in Int /\ 1 \in 1 .. MaxFrames + 1
      /\ (1 <= due - 1 <=> due - 1 \in 1 .. n)
  BY <1>1, <1>2
<1>7. Greatest(keys) = IF 1 <= due - 1 THEN Encode(due - 1) ELSE NoKey
  BY <1>1, <1>5, <1>6, EndsOfRange
<1>. QED BY <1>3, <1>6, <1>7, MoveKeepsOrder DEF n

\* Every step keeps the order.
LEMMA NextPreservesOrder == RocksInv /\ OrderInv /\ [Next]_vars => OrderInv'
<1>. SUFFICES ASSUME RocksInv, OrderInv, [Next]_vars PROVE OrderInv'
  OBVIOUS
<1>a. ASSUME UNCHANGED <<content, iter>> PROVE OrderInv'
  BY <1>a DEF OrderInv, ContentInv, AtDue
<1>b. AtDue(NoIterator)
  BY DEF AtDue, NoIterator, NotAsked
<1>1. CASE Setup \/ Teardown \/ MemtableFlush
  BY <1>1, <1>a DEF Setup, Teardown, MemtableFlush
<1>2. CASE PowerLoss
  <2>1. PICK n \in [Streams -> 0 .. MaxFrames] :
          /\ \A s \in Streams : n[s] <= Len(content[s])
          /\ content' = [s \in Streams |-> SubSeq(content[s], 1, n[s])]
    BY <1>2 DEF PowerLoss
  <2>2. ASSUME NEW s \in Streams, NEW i \in 1 .. Len(content'[s])
        PROVE  content'[s][i] = i
    <3>1. content[s] \in Seq(Nat) /\ n[s] \in Nat /\ n[s] <= Len(content[s])
          /\ content'[s] = SubSeq(content[s], 1, n[s])
      BY <2>1, KeyFacts DEF RocksInv, BackendInv
    <3>2. Len(content'[s]) = n[s] /\ i \in 1 .. n[s]
      BY <3>1
    <3>3. content'[s][i] = content[s][i] /\ i \in 1 .. Len(content[s])
      BY <3>1, <3>2
    <3>. QED BY <3>3 DEF OrderInv, ContentInv
  <2>3. \A r \in Readers : iter'[r] = NoIterator
    BY <1>2 DEF PowerLoss
  <2>4. ContentInv'
    BY <2>2 DEF ContentInv
  <2>5. \A r \in Readers : AtDue(iter'[r])
    BY <1>b, <2>3
  <2>. QED BY <2>4, <2>5 DEF OrderInv, AtDue
<1>3. CASE \E c \in Clients : LookUp(c) \/ Create(c) \/ Remember(c)
  BY <1>3, <1>a DEF LookUp, Create, Throw, Remember
<1>4. CASE \E w \in Writers : Put(w) \/ SyncWAL(w)
  <2>1. PICK w \in Writers : Put(w) \/ SyncWAL(w)
    BY <1>4
  <2>2. CASE SyncWAL(w) \/ Throw(w)
    BY <2>2, <1>a DEF SyncWAL, Throw
  <2>3. CASE Put(w) /\ ~Throw(w)
    <3>1. /\ content' = [content EXCEPT ![Own[w]] = Append(@, Len(@) + 1)]
          /\ iter' = iter
      BY <2>3 DEF Put
    <3>2. content \in [Streams -> Seq(Nat)] /\ Own[w] \in Streams
      BY ClientFacts DEF RocksInv, BackendInv
    <3>3. ASSUME NEW s \in Streams, NEW i \in 1 .. Len(content'[s])
          PROVE  content'[s][i] = i
      <4>1. CASE s = Own[w]
        <5>1. content[s] \in Seq(Nat) /\ content'[s] = Append(content[s], Len(content[s]) + 1)
          BY <3>1, <3>2, <4>1
        <5>2. i \in 1 .. Len(content[s]) \/ i = Len(content[s]) + 1
          BY <5>1
        <5>. QED BY <5>1, <5>2 DEF OrderInv, ContentInv
      <4>2. CASE s # Own[w]
        BY <3>1, <3>2, <4>2 DEF OrderInv, ContentInv
      <4>. QED BY <4>1, <4>2
    <3>. QED BY <3>1, <3>3 DEF OrderInv, ContentInv, AtDue
  <2>. QED BY <2>1, <2>2, <2>3
<1>5. ASSUME NEW r \in Readers, OpenIterator(r) \/ CloseIterator(r) PROVE OrderInv'
  <2>1. iter = [q \in Readers |-> iter[q]]
        /\ iter[r] = [snapshot |-> iter[r].snapshot, key |-> iter[r].key,
                      frame |-> iter[r].frame, due |-> iter[r].due]
    BY Zenon DEF RocksInv, IterInv
  <2>2. \A q \in Readers : q # r => iter'[q] = iter[q]
    BY <1>5, <2>1 DEF OpenIterator, CloseIterator
  <2>3. AtDue(iter'[r])
    <3>1. CASE OpenIterator(r)
      <4>1. iter[r] = NoIterator /\ iter'[r] = [iter[r] EXCEPT !.snapshot = Len(content[Own[r]])]
        BY <2>1, <3>1 DEF OpenIterator, RocksInv, IterInv
      <4>2. iter'[r].due = NotAsked /\ iter'[r].key = NoKey
            /\ iter'[r].snapshot = Len(content[Own[r]])
        BY <4>1 DEF NoIterator
      <4>3. NotAsked \in Int /\ NotAsked \notin 1 .. iter'[r].snapshot
        BY DEF NotAsked
      <4>. QED BY <4>2, <4>3 DEF AtDue
    <3>2. CASE CloseIterator(r)
      BY <1>b, <2>1, <3>2 DEF CloseIterator
    <3>. QED BY <1>5, <3>1, <3>2
  <2>4. content' = content
    BY <1>5 DEF OpenIterator, CloseIterator
  <2>5. \A q \in Readers : AtDue(iter'[q])
    BY <2>2, <2>3 DEF OrderInv
  <2>. QED BY <2>4, <2>5 DEF OrderInv, ContentInv, AtDue
<1>6. CASE \E r \in Readers : OpenIterator(r) \/ Find(r) \/ NextFrame(r) \/ PrevFrame(r)
                              \/ CloseIterator(r)
  BY <1>5, <1>6, FindKeepsOrder, NextFrameKeepsOrder, PrevFrameKeepsOrder
<1>7. CASE UNCHANGED vars
  BY <1>7, <1>a DEF vars
<1>. QED
  BY <1>1, <1>2, <1>3, <1>4, <1>6, <1>7 DEF Next, Over

\* No stream has a frame and no iterator a position at first.
LEMMA InitEstablishesOrder == Init => OrderInv
<1>. SUFFICES ASSUME Init PROVE OrderInv
  OBVIOUS
<1>1. ContentInv
  <2>1. \A s \in Streams : Len(content[s]) = 0
    BY DEF Init
  <2>. QED BY <2>1 DEF ContentInv
<1>2. \A r \in Readers : AtDue(iter[r])
  BY DEF Init, AtDue, NoIterator, NotAsked
<1>. QED BY <1>1, <1>2 DEF OrderInv

------------------------------------------------------------------------------
(* Theorems *)

\* The invariant holds in every reachable state.
THEOREM InvariantHolds == Spec => []RocksInv
BY InitEstablishesInv, NextPreservesInv, PTL DEF Spec

\* Types, and what the map of handles holds is in the database.
THEOREM TypeCorrect == Spec => []TypeOK
<1>1. RocksInv => TypeOK
  BY DEF RocksInv, BackendInv, HandleInv, IterInv, TypeOK, Locations
<1>. QED BY <1>1, InvariantHolds, PTL

\* "Close non-default column family handles before closing DB."
\* (rocksdb_backend.cpp:164): whatever races and failures there are, no handle is lost
\* and none destroyed twice.
THEOREM NoHandleIsLost == Spec => []HandlesAccounted
<1>. QED BY HandlesAreCounted, InvariantHolds, PTL

\* "sync_boundary() calls db->SyncWAL(), which flushes the WAL to disk"
\* (rocksdb_backend.cpp:9): frames come in order, one at a time, and a power loss takes
\* of each stream a tail of it that no sync_boundary has covered, whether it comes before
\* teardown or after it, whatever races and fails. It is not a theorem of this backend
\* that teardown keeps anything, which the interface promises: NothingPromisedIsLost
\* fails.
THEOREM BoundariesAreAlwaysKept == Spec => BoundariesAreKept
<1>1. Spec => Boundaries!Init
  BY InitIsAllowed, PTL DEF Spec
<1>. QED
  BY <1>1, StepsAreAllowed, InvariantHolds, PTL
     DEF BoundariesAreKept, Boundaries!BoundarySpec, Spec

\* "ensures correct range-scan order" (rocksdb_backend.cpp:5): for keys of any length and
\* any base, whatever is written meanwhile and whatever fails, an iterator goes through
\* the frames there were when it was opened, in the order of their timestamps.
THEOREM IteratorsAreInOrder == Spec => []IteratorsInOrder
<1>1. ASSUME RocksInv, OrderInv PROVE IteratorsInOrder
  <2>. SUFFICES ASSUME NEW r \in Readers
                PROVE  IF iter[r].due \in 1 .. iter[r].snapshot
                         THEN /\ iter[r].key # NoKey
                              /\ iter[r].frame = content[Own[r]][iter[r].due]
                         ELSE iter[r].key = NoKey
    BY DEF IteratorsInOrder
  <2>1. CASE iter[r].due \in 1 .. iter[r].snapshot
    <3>1. iter[r].due \in Stamps
      BY <1>1, <2>1, KeysOfSnapshot, KeyFacts DEF Stamps
    <3>2. iter[r].key = Encode(iter[r].due) /\ iter[r].frame = iter[r].due
      BY <1>1, <2>1 DEF OrderInv, AtDue
    <3>3. iter[r].due \in 1 .. Len(content[Own[r]])
      BY <1>1, <2>1, ClientFacts DEF RocksInv, BackendInv, IterInv
    <3>4. content[Own[r]][iter[r].due] = iter[r].due
      BY <1>1, <3>3, ClientFacts DEF OrderInv, ContentInv
    <3>. QED BY <1>1, <2>1, <3>1, <3>2, <3>4, OrderOfKeys
  <2>2. CASE iter[r].due \notin 1 .. iter[r].snapshot
    BY <1>1, <2>2 DEF OrderInv, AtDue
  <2>. QED BY <2>1, <2>2
<1>2. Spec => []OrderInv
  BY InitEstablishesOrder, NextPreservesOrder, InvariantHolds, PTL DEF Spec
<1>. QED BY <1>1, <1>2, InvariantHolds, PTL

==============================================================================
