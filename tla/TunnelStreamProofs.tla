------------------------ MODULE TunnelStreamProofs ------------------------
(***************************************************************************)
(* Theorems about what Tunnel carries, for any number of requests, clients *)
(* and connections: a body that is answered as complete is the whole body, *)
(* and a client is shown the home's present state.                         *)
(*                                                                         *)
(* The invariant has three layers over IInv of TunnelProofs: the           *)
(* connections (Wires), the frames of a stream in flight (Streams), and    *)
(* the states shown in flight (Views).  Each has one lemma per action, and *)
(* each may use the layers below it.                                       *)
(***************************************************************************)
EXTENDS TunnelProofs

-----------------------------------------------------------------------------
(* Streams and views: the messages of one request, or of one session, in   *)
(* a channel.                                                              *)

Of(m, types, x) == m.type \in types /\ m.id = x
Free(q, types, x) == \A i \in DOMAIN q : ~Of(q[i], types, x)

\* p carries the same messages of x as q, in the same order: all but its head, or all.
Same(p, q, types, x) ==
  \E k \in {0, 1} :
    /\ \A i \in DOMAIN p : Of(p[i], types, x) => i + k \in DOMAIN q /\ q[i + k] = p[i]
    /\ \A j \in DOMAIN q : Of(q[j], types, x) => j - k \in DOMAIN p /\ p[j - k] = q[j]

Start == {"http_stream_start"}
Chunk == {"http_stream_chunk"}
End == {"http_stream_end"}
Frames == Start \cup Chunk \cup End

ChunkAt(q, r) == {i \in DOMAIN q : Of(q[i], Chunk, r)}
Chunks(q, r) == Cardinality(ChunkAt(q, r))

\* Of a request whose entry is e: no chunk comes before its start frame.
Ordered(q, r, e) ==
  e = "buffered" => \A i \in DOMAIN q : Of(q[i], Chunk, r) => \E j \in DOMAIN q : j <= i /\ Of(q[j], Start, r)

\* Nothing follows the end, and a good end comes after all that was read: g chunks have
\* arrived of s, and the home's work is w.
Ended(q, r, w, g, s) ==
  \A i \in DOMAIN q : Of(q[i], End, r) =>
    /\ \A j \in DOMAIN q : j > i => ~Of(q[j], Frames, r)
    /\ q[i].n = 0 => w = "done" /\ g + Chunks(q, r) = s

\* While the home reads, what has not arrived is on its way.
Reading(q, r, e, g, s) ==
  /\ g + Chunks(q, r) = s
  /\ e = "streaming" \/ \E j \in DOMAIN q : Of(q[j], Start, r)
  /\ Free(q, End, r)

LEMMA SeqFacts ==
  ASSUME NEW G, NEW q \in Seq(G)
  PROVE  Len(q) \in Nat /\ DOMAIN q = 1 .. Len(q) /\ q \in [1 .. Len(q) -> G]
  BY LenProperties

LEMMA TailFacts ==
  ASSUME NEW G, NEW q \in Seq(G), q # <<>>
  PROVE  /\ Head(q) = q[1] /\ 1 \in DOMAIN q /\ q[1] \in G /\ Tail(q) \in Seq(G)
         /\ \A i \in DOMAIN Tail(q) : i \in Nat /\ i >= 1 /\ i + 1 \in DOMAIN q /\ Tail(q)[i] = q[i + 1]
         /\ \A j \in DOMAIN q : j \in Nat /\ j >= 1 /\ (j # 1 => j - 1 \in DOMAIN Tail(q) /\ Tail(q)[j - 1] = q[j])
  <1>1. /\ Tail(q) \in Seq(G) /\ Len(Tail(q)) = Len(q) - 1 /\ Head(q) = q[1] /\ Head(q) \in G
        /\ \A i \in 1 .. Len(Tail(q)) : Tail(q)[i] = q[i + 1]
    BY HeadTailProperties
  <1>2. DOMAIN Tail(q) = 1 .. Len(Tail(q)) /\ DOMAIN q = 1 .. Len(q) /\ Len(q) \in Nat
    BY <1>1, LenProperties
  <1>3. Len(q) >= 1
    BY <1>2, EmptySeq
  <1>4. QED
    BY <1>1, <1>2, <1>3

LEMMA ConcatFacts ==
  ASSUME NEW G, NEW q \in Seq(G), NEW ms \in Seq(G)
  PROVE  /\ q \o ms \in Seq(G) /\ Len(q) \in Nat
         /\ \A i \in DOMAIN q : i \in Nat /\ i >= 1 /\ i <= Len(q) /\ i \in DOMAIN (q \o ms) /\ (q \o ms)[i] = q[i]
         /\ \A j \in DOMAIN ms : j \in Nat /\ j >= 1 /\ Len(q) + j \in DOMAIN (q \o ms) /\ (q \o ms)[Len(q) + j] = ms[j]
         /\ \A i \in DOMAIN (q \o ms) :
              \/ i \in DOMAIN q /\ (q \o ms)[i] = q[i]
              \/ \E j \in DOMAIN ms : i = Len(q) + j /\ (q \o ms)[i] = ms[j]
  <1>1. /\ q \o ms \in Seq(G) /\ Len(q \o ms) = Len(q) + Len(ms)
        /\ \A i \in 1 .. Len(q) + Len(ms) :
             (q \o ms)[i] = IF i <= Len(q) THEN q[i] ELSE ms[i - Len(q)]
    BY ConcatProperties
  <1>2. /\ DOMAIN (q \o ms) = 1 .. Len(q) + Len(ms)
        /\ DOMAIN q = 1 .. Len(q) /\ Len(q) \in Nat
        /\ DOMAIN ms = 1 .. Len(ms) /\ Len(ms) \in Nat
    BY <1>1, LenProperties
  <1>3. ASSUME NEW i \in DOMAIN (q \o ms)
        PROVE  \/ i \in DOMAIN q /\ (q \o ms)[i] = q[i]
               \/ \E j \in DOMAIN ms : i = Len(q) + j /\ (q \o ms)[i] = ms[j]
    <2>1. CASE i <= Len(q)
      BY <1>1, <1>2, <2>1
    <2>2. CASE i > Len(q)
      <3>1. i - Len(q) \in DOMAIN ms /\ i = Len(q) + (i - Len(q)) /\ (q \o ms)[i] = ms[i - Len(q)]
        BY <1>1, <1>2, <2>2
      <3>2. QED
        BY <3>1
    <2>3. QED
      BY <1>2, <2>1, <2>2
  <1>4. ASSUME NEW j \in DOMAIN ms
        PROVE  j \in Nat /\ j >= 1 /\ Len(q) + j \in DOMAIN (q \o ms) /\ (q \o ms)[Len(q) + j] = ms[j]
    BY <1>1, <1>2
  <1>5. QED
    BY <1>1, <1>2, <1>3, <1>4

LEMMA AppendFacts ==
  ASSUME NEW G, NEW q \in Seq(G), NEW m \in G
  PROVE  /\ q \o <<m>> \in Seq(G) /\ Len(q) \in Nat
         /\ \A i \in DOMAIN q : i \in Nat /\ i >= 1 /\ i <= Len(q) /\ i \in DOMAIN (q \o <<m>>) /\ (q \o <<m>>)[i] = q[i]
         /\ Len(q) + 1 \in DOMAIN (q \o <<m>>) /\ (q \o <<m>>)[Len(q) + 1] = m
         /\ \A i \in DOMAIN (q \o <<m>>) :
              \/ i \in DOMAIN q /\ (q \o <<m>>)[i] = q[i]
              \/ i = Len(q) + 1 /\ (q \o <<m>>)[i] = m
  <1>1. <<m>> \in Seq(G) /\ DOMAIN <<m>> = {1} /\ <<m>>[1] = m
    BY OneMessage
  <1>2. \A j \in DOMAIN <<m>> : j = 1 /\ <<m>>[j] = m
    BY <1>1
  <1>3. 1 \in DOMAIN <<m>>
    BY <1>1
  <1>4. /\ q \o <<m>> \in Seq(G) /\ Len(q) \in Nat
        /\ \A i \in DOMAIN q : i \in Nat /\ i >= 1 /\ i <= Len(q) /\ i \in DOMAIN (q \o <<m>>) /\ (q \o <<m>>)[i] = q[i]
        /\ \A j \in DOMAIN <<m>> : Len(q) + j \in DOMAIN (q \o <<m>>) /\ (q \o <<m>>)[Len(q) + j] = <<m>>[j]
        /\ \A i \in DOMAIN (q \o <<m>>) :
              \/ i \in DOMAIN q /\ (q \o <<m>>)[i] = q[i]
              \/ \E j \in DOMAIN <<m>> : i = Len(q) + j /\ (q \o <<m>>)[i] = <<m>>[j]
    BY <1>1, ConcatFacts
  <1>5. QED
    BY <1>2, <1>3, <1>4

LEMMA SameSelf ==
  ASSUME NEW G, NEW q \in Seq(G), NEW types, NEW x
  PROVE  Same(q, q, types, x)
  <1>1. \A i \in DOMAIN q : i + 0 = i /\ i - 0 = i
    BY SeqFacts
  <1>2. QED
    BY <1>1 DEF Same

LEMMA SameTail ==
  ASSUME NEW G, NEW q \in Seq(G), q # <<>>, NEW types, NEW x, ~Of(Head(q), types, x)
  PROVE  Same(Tail(q), q, types, x)
  <1>1. \A i \in DOMAIN Tail(q) : i + 1 \in DOMAIN q /\ q[i + 1] = Tail(q)[i]
    BY TailFacts
  <1>2. \A j \in DOMAIN q : Of(q[j], types, x) => j - 1 \in DOMAIN Tail(q) /\ Tail(q)[j - 1] = q[j]
    BY TailFacts
  <1>3. QED
    BY <1>1, <1>2 DEF Same

LEMMA SameAppend ==
  ASSUME NEW G, NEW q \in Seq(G), NEW ms \in Seq(G), NEW types, NEW x, Free(ms, types, x)
  PROVE  Same(q \o ms, q, types, x)
  <1>1. \A i \in DOMAIN (q \o ms) : Of((q \o ms)[i], types, x) => i \in DOMAIN q /\ q[i] = (q \o ms)[i]
    BY ConcatFacts DEF Free
  <1>2. \A j \in DOMAIN q : j \in DOMAIN (q \o ms) /\ (q \o ms)[j] = q[j]
    BY ConcatFacts
  <1>3. \A i \in DOMAIN q : i + 0 = i /\ i - 0 = i
    BY SeqFacts
  <1>4. \A i \in DOMAIN (q \o ms) : i + 0 = i
    BY ConcatFacts, SeqFacts
  <1>5. QED
    BY <1>1, <1>2, <1>3, <1>4 DEF Same

LEMMA FreeSame ==
  ASSUME NEW p, NEW q, NEW types, NEW x, Same(p, q, types, x), Free(q, types, x)
  PROVE  Free(p, types, x)
  BY DEF Same, Free

LEMMA ChunksFinite ==
  ASSUME NEW G, NEW q \in Seq(G), NEW r
  PROVE  IsFiniteSet(ChunkAt(q, r)) /\ Chunks(q, r) \in Nat
  <1>1. IsFiniteSet(DOMAIN q)
    BY SeqFacts, FS_Interval
  <1>2. IsFiniteSet(ChunkAt(q, r))
    BY <1>1, FS_Subset DEF ChunkAt
  <1>3. QED
    BY <1>2, FS_CardinalityType DEF Chunks

LEMMA NoChunks ==
  ASSUME NEW q, NEW r, Free(q, Chunk, r)
  PROVE  Chunks(q, r) = 0
  <1>1. ChunkAt(q, r) = {}
    BY DEF ChunkAt, Free
  <1>2. QED
    BY <1>1, FS_EmptySet DEF Chunks

\* Sets of positions that differ by a shift have the same size.
LEMMA ShiftedCount ==
  ASSUME NEW A \in SUBSET Nat, NEW B \in SUBSET Nat, IsFiniteSet(A), NEW k \in {0, 1},
         \A i \in A : i + k \in B, \A j \in B : j - k \in A
  PROVE  Cardinality(B) = Cardinality(A)
  <1> DEFINE f == [i \in A |-> i + k]
  <1>1. f \in [A -> B]
    OBVIOUS
  <1>2. \A i, j \in A : f[i] = f[j] => i = j
    OBVIOUS
  <1>3. \A j \in B : \E i \in A : f[i] = j
    <2>1. ASSUME NEW j \in B PROVE \E i \in A : f[i] = j
      <3>1. j - k \in A /\ f[j - k] = j
        OBVIOUS
      <3>2. QED
        BY <3>1
    <2>2. QED
      BY <2>1
  <1> HIDE DEF f
  <1>4. ExistsBijection(A, B)
    BY <1>1, <1>2, <1>3 DEF ExistsBijection, Bijection, Injection, Surjection, IsInjective
  <1>5. QED
    BY <1>4, FS_Bijection

LEMMA SubFrames ==
  ASSUME NEW m, NEW r
  PROVE  /\ Of(m, Start, r) => Of(m, Frames, r)
         /\ Of(m, Chunk, r) => Of(m, Frames, r)
         /\ Of(m, End, r) => Of(m, Frames, r)
         /\ Of(m, Frames, r) => Of(m, Start, r) \/ Of(m, Chunk, r) \/ Of(m, End, r)
  BY DEF Of, Frames

LEMMA ChunksSame ==
  ASSUME NEW G, NEW p \in Seq(G), NEW q \in Seq(G), NEW r, Same(p, q, Frames, r)
  PROVE  Chunks(p, r) = Chunks(q, r)
  <1>1. PICK k \in {0, 1} :
          /\ \A i \in DOMAIN p : Of(p[i], Frames, r) => i + k \in DOMAIN q /\ q[i + k] = p[i]
          /\ \A j \in DOMAIN q : Of(q[j], Frames, r) => j - k \in DOMAIN p /\ p[j - k] = q[j]
    BY DEF Same
  <1>2. ChunkAt(p, r) \in SUBSET Nat /\ ChunkAt(q, r) \in SUBSET Nat
    BY SeqFacts DEF ChunkAt
  <1>3. \A i \in ChunkAt(p, r) : i + k \in ChunkAt(q, r)
    BY <1>1, SubFrames DEF ChunkAt
  <1>4. \A j \in ChunkAt(q, r) : j - k \in ChunkAt(p, r)
    BY <1>1, SubFrames DEF ChunkAt
  <1>5. QED
    BY <1>2, <1>3, <1>4, ChunksFinite, ShiftedCount DEF Chunks

LEMMA ChunksTail ==
  ASSUME NEW G, NEW q \in Seq(G), q # <<>>, NEW r, Of(Head(q), Chunk, r)
  PROVE  Chunks(q, r) = Chunks(Tail(q), r) + 1
  <1> DEFINE A == ChunkAt(Tail(q), r)  B == ChunkAt(q, r) \ {1}
  <1>1. A \in SUBSET Nat /\ B \in SUBSET Nat /\ IsFiniteSet(A)
    <2>1. Tail(q) \in Seq(G)
      BY TailFacts
    <2>2. IsFiniteSet(A)
      BY <2>1, ChunksFinite
    <2>3. QED
      BY <2>2, TailFacts DEF ChunkAt
  <1>2. \A i \in A : i + 1 \in B
    BY TailFacts DEF ChunkAt
  <1>3. \A j \in B : j - 1 \in A
    BY TailFacts DEF ChunkAt
  <1>4. Cardinality(B) = Cardinality(A)
    <2> HIDE DEF A, B
    <2>1. QED
      BY <1>1, <1>2, <1>3, ShiftedCount
  <1>5. 1 \in ChunkAt(q, r)
    BY TailFacts DEF ChunkAt
  <1>6. Cardinality(B) = Chunks(q, r) - 1
    BY <1>5, ChunksFinite, FS_RemoveElement DEF Chunks
  <1>7. Chunks(q, r) \in Nat
    BY ChunksFinite
  <1>8. QED
    BY <1>4, <1>6, <1>7 DEF Chunks

LEMMA ChunksAppend ==
  ASSUME NEW G, NEW q \in Seq(G), NEW m \in G, NEW r, Of(m, Chunk, r)
  PROVE  Chunks(q \o <<m>>, r) = Chunks(q, r) + 1
  <1>1. ChunkAt(q \o <<m>>, r) = ChunkAt(q, r) \cup {Len(q) + 1}
    BY AppendFacts DEF ChunkAt
  <1>2. Len(q) + 1 \notin ChunkAt(q, r)
    BY SeqFacts DEF ChunkAt
  <1>3. QED
    BY <1>1, <1>2, ChunksFinite, FS_AddElement DEF Chunks

LEMMA StreamSame ==
  ASSUME NEW G, NEW p \in Seq(G), NEW q \in Seq(G), NEW r, Same(p, q, Frames, r),
         NEW e, NEW w, NEW g, NEW s
  PROVE  /\ Ordered(q, r, e) => Ordered(p, r, e)
         /\ Ended(q, r, w, g, s) => Ended(p, r, w, g, s)
         /\ Reading(q, r, e, g, s) => Reading(p, r, e, g, s)
  <1>1. PICK k \in {0, 1} :
          /\ \A i \in DOMAIN p : Of(p[i], Frames, r) => i + k \in DOMAIN q /\ q[i + k] = p[i]
          /\ \A j \in DOMAIN q : Of(q[j], Frames, r) => j - k \in DOMAIN p /\ p[j - k] = q[j]
    BY DEF Same
  <1>2. DOMAIN p \subseteq Nat /\ DOMAIN q \subseteq Nat
    BY SeqFacts
  <1>3. Chunks(p, r) = Chunks(q, r)
    BY ChunksSame
  <1>4. ASSUME Ordered(q, r, e) PROVE Ordered(p, r, e)
    <2>1. SUFFICES ASSUME e = "buffered", NEW i \in DOMAIN p, Of(p[i], Chunk, r)
                   PROVE  \E j \in DOMAIN p : j <= i /\ Of(p[j], Start, r)
      BY DEF Ordered
    <2>2. i + k \in DOMAIN q /\ Of(q[i + k], Chunk, r)
      BY <1>1, <2>1, SubFrames
    <2>3. PICK j \in DOMAIN q : j <= i + k /\ Of(q[j], Start, r)
      BY <1>4, <2>1, <2>2 DEF Ordered
    <2>4. j - k \in DOMAIN p /\ Of(p[j - k], Start, r) /\ j - k <= i
      BY <1>1, <1>2, <2>3, SubFrames
    <2>5. QED
      BY <2>4
  <1>5. ASSUME Ended(q, r, w, g, s) PROVE Ended(p, r, w, g, s)
    <2>1. SUFFICES ASSUME NEW i \in DOMAIN p, Of(p[i], End, r)
                   PROVE  /\ \A j \in DOMAIN p : j > i => ~Of(p[j], Frames, r)
                          /\ p[i].n = 0 => w = "done" /\ g + Chunks(p, r) = s
      BY DEF Ended
    <2>2. i + k \in DOMAIN q /\ q[i + k] = p[i]
      BY <1>1, <2>1, SubFrames
    <2>3. ASSUME NEW j \in DOMAIN p, j > i, Of(p[j], Frames, r) PROVE FALSE
      <3>1. j + k \in DOMAIN q /\ Of(q[j + k], Frames, r) /\ j + k > i + k
        BY <1>1, <1>2, <2>3
      <3>2. QED
        BY <1>5, <2>1, <2>2, <3>1 DEF Ended
    <2>4. QED
      BY <1>3, <1>5, <2>1, <2>2, <2>3 DEF Ended
  <1>6. ASSUME Reading(q, r, e, g, s) PROVE Reading(p, r, e, g, s)
    <2>1. Free(p, End, r)
      BY <1>1, <1>6, SubFrames DEF Reading, Free
    <2>2. e = "streaming" \/ \E j \in DOMAIN p : Of(p[j], Start, r)
      BY <1>1, <1>6, SubFrames DEF Reading
    <2>3. QED
      BY <1>3, <1>6, <2>1, <2>2 DEF Reading
  <1>7. QED
    BY <1>4, <1>5, <1>6

\* Before the work is done no good end is on its way.
LEMMA EndedBefore ==
  ASSUME NEW q, NEW r, NEW w, NEW g, NEW s, Ended(q, r, w, g, s), w # "done", NEW w2, NEW g2, NEW s2
  PROVE  Ended(q, r, w2, g2, s2)
  BY DEF Ended

\* The proxy reads a start frame, a chunk, an end.
LEMMA StartRead ==
  ASSUME NEW G, NEW q \in Seq(G), q # <<>>, NEW r, Of(Head(q), Start, r),
         NEW e, NEW w, NEW g, NEW s
  PROVE  /\ Ordered(Tail(q), r, "streaming")
         /\ Ended(q, r, w, g, s) => Ended(Tail(q), r, w, g, s)
         /\ Reading(q, r, e, g, s) => Reading(Tail(q), r, "streaming", g, s)
  <1>1. ~Of(Head(q), Chunk, r) /\ ~Of(Head(q), End, r)
    BY DEF Of, Start, Chunk, End
  <1>2. Same(Tail(q), q, Chunk, r)
    BY <1>1, SameTail
  <1>3. Chunks(Tail(q), r) = Chunks(q, r)
    <2>1. PICK k \in {0, 1} :
            /\ \A i \in DOMAIN Tail(q) : Of(Tail(q)[i], Chunk, r) => i + k \in DOMAIN q /\ q[i + k] = Tail(q)[i]
            /\ \A j \in DOMAIN q : Of(q[j], Chunk, r) => j - k \in DOMAIN Tail(q) /\ Tail(q)[j - k] = q[j]
      BY <1>2 DEF Same
    <2>2. Tail(q) \in Seq(G)
      BY TailFacts
    <2>3. ChunkAt(Tail(q), r) \in SUBSET Nat /\ ChunkAt(q, r) \in SUBSET Nat /\ IsFiniteSet(ChunkAt(Tail(q), r))
      <3>1. DOMAIN q \subseteq Nat /\ DOMAIN Tail(q) \subseteq Nat
        BY <2>2, SeqFacts
      <3>2. QED
        BY <2>2, <3>1, ChunksFinite DEF ChunkAt
    <2>4. \A i \in ChunkAt(Tail(q), r) : i + k \in ChunkAt(q, r)
      BY <2>1 DEF ChunkAt
    <2>5. \A j \in ChunkAt(q, r) : j - k \in ChunkAt(Tail(q), r)
      BY <2>1 DEF ChunkAt
    <2>6. QED
      BY <2>3, <2>4, <2>5, ShiftedCount DEF Chunks
  <1>4. ASSUME Ended(q, r, w, g, s) PROVE Ended(Tail(q), r, w, g, s)
    BY <1>3, <1>4, TailFacts DEF Ended
  <1>5. ASSUME Reading(q, r, e, g, s) PROVE Reading(Tail(q), r, "streaming", g, s)
    BY <1>3, <1>5, TailFacts DEF Reading, Free
  <1>6. QED
    BY <1>4, <1>5 DEF Ordered

LEMMA ChunkRead ==
  ASSUME NEW G, NEW q \in Seq(G), q # <<>>, NEW r, Of(Head(q), Chunk, r),
         NEW e, NEW w, NEW g \in Nat, NEW s \in Nat
  PROVE  /\ Ordered(q, r, e) => e # "buffered"
         /\ Ended(q, r, w, g, s) => Ended(Tail(q), r, w, g + 1, s)
         /\ Reading(q, r, "streaming", g, s) => Reading(Tail(q), r, "streaming", g + 1, s)
  <1>1. Chunks(q, r) = Chunks(Tail(q), r) + 1 /\ Chunks(Tail(q), r) \in Nat
    BY ChunksTail, TailFacts, ChunksFinite
  <1>2. g + Chunks(q, r) = g + 1 + Chunks(Tail(q), r)
    BY <1>1
  <1>3. ASSUME Ordered(q, r, e) PROVE e # "buffered"
    <2>1. SUFFICES ASSUME e = "buffered" PROVE FALSE
      OBVIOUS
    <2>2. PICK j \in DOMAIN q : j <= 1 /\ Of(q[j], Start, r)
      BY <1>3, <2>1, TailFacts DEF Ordered
    <2>3. Of(Head(q), Start, r)
      BY <2>2, TailFacts
    <2>4. QED
      BY <2>3 DEF Of, Start, Chunk
  <1>4. ASSUME Ended(q, r, w, g, s) PROVE Ended(Tail(q), r, w, g + 1, s)
    BY <1>2, <1>4, TailFacts DEF Ended
  <1>5. ASSUME Reading(q, r, "streaming", g, s) PROVE Reading(Tail(q), r, "streaming", g + 1, s)
    BY <1>2, <1>5, TailFacts DEF Reading, Free
  <1>6. QED
    BY <1>3, <1>4, <1>5

LEMMA EndRead ==
  ASSUME NEW G, NEW q \in Seq(G), q # <<>>, NEW r, Of(Head(q), End, r), Head(q).n = 0,
         NEW w, NEW g \in Nat, NEW s, Ended(q, r, w, g, s)
  PROVE  w = "done" /\ g = s
  <1>1. w = "done" /\ g + Chunks(q, r) = s /\ \A j \in DOMAIN q : j # 1 => ~Of(q[j], Frames, r)
    BY TailFacts DEF Ended
  <1>2. ~Of(Head(q), Chunk, r)
    BY DEF Of, Chunk, End
  <1>3. Free(q, Chunk, r)
    BY <1>1, <1>2, TailFacts, SubFrames DEF Free
  <1>4. QED
    BY <1>1, <1>3, NoChunks

\* The home sends a start frame, a chunk, an end.
LEMMA StartSent ==
  ASSUME NEW G, NEW q \in Seq(G), NEW m \in G, NEW r, Of(m, Start, r), Free(q, Frames, r),
         NEW e, NEW w, NEW g, NEW s
  PROVE  /\ Ordered(q \o <<m>>, r, e) /\ Ended(q \o <<m>>, r, w, g, s)
         /\ Reading(q \o <<m>>, r, e, 0, 0)
  <1>1. ~Of(m, Chunk, r) /\ ~Of(m, End, r)
    BY DEF Of, Start, Chunk, End
  <1>2. Free(q \o <<m>>, Chunk, r) /\ Free(q \o <<m>>, End, r)
    BY <1>1, AppendFacts, SubFrames DEF Free
  <1>3. \E j \in DOMAIN (q \o <<m>>) : Of((q \o <<m>>)[j], Start, r)
    BY AppendFacts
  <1>4. Ordered(q \o <<m>>, r, e) /\ Ended(q \o <<m>>, r, w, g, s)
    BY <1>2 DEF Ordered, Ended, Free
  <1>5. Chunks(q \o <<m>>, r) = 0
    BY <1>2, NoChunks
  <1>6. QED
    BY <1>2, <1>3, <1>4, <1>5 DEF Reading

LEMMA StartEndSent ==
  ASSUME NEW G, NEW q \in Seq(G), NEW m \in G, NEW n \in G, NEW r, Of(m, Start, r), Of(n, End, r), Free(q, Frames, r),
         NEW e
  PROVE  Ordered(q \o <<m, n>>, r, e) /\ Ended(q \o <<m, n>>, r, "done", 0, 0)
  <1>1. <<m, n>> \in Seq(G) /\ DOMAIN <<m, n>> = {1, 2} /\ <<m, n>>[1] = m /\ <<m, n>>[2] = n
    OBVIOUS
  <1>2. ~Of(m, Chunk, r) /\ ~Of(n, Chunk, r) /\ ~Of(m, End, r)
    BY DEF Of, Start, Chunk, End
  <1>3. /\ Len(q) \in Nat
        /\ \A i \in DOMAIN (q \o <<m, n>>) :
             \/ i \in DOMAIN q /\ i \in Nat /\ i <= Len(q) /\ (q \o <<m, n>>)[i] = q[i]
             \/ i = Len(q) + 1 /\ (q \o <<m, n>>)[i] = m
             \/ i = Len(q) + 2 /\ (q \o <<m, n>>)[i] = n
    <2>1. /\ Len(q) \in Nat
          /\ \A i \in DOMAIN q : i \in Nat /\ i <= Len(q)
          /\ \A i \in DOMAIN (q \o <<m, n>>) :
              \/ i \in DOMAIN q /\ (q \o <<m, n>>)[i] = q[i]
              \/ \E j \in DOMAIN <<m, n>> : i = Len(q) + j /\ (q \o <<m, n>>)[i] = <<m, n>>[j]
      <3>1. PICK ms \in Seq(G) : ms = <<m, n>>
        BY <1>1
      <3>2. Len(q) \in Nat /\ \A i \in DOMAIN q : i \in Nat /\ i <= Len(q)
        BY SeqFacts
      <3>3. \A i \in DOMAIN (q \o ms) :
              \/ i \in DOMAIN q /\ (q \o ms)[i] = q[i]
              \/ \E j \in DOMAIN ms : i = Len(q) + j /\ (q \o ms)[i] = ms[j]
        BY ConcatFacts
      <3>4. QED
        BY <3>1, <3>2, <3>3
    <2>2. ASSUME NEW j \in DOMAIN <<m, n>>
          PROVE  (j = 1 /\ <<m, n>>[j] = m) \/ (j = 2 /\ <<m, n>>[j] = n)
      <3>1. j = 1 \/ j = 2
        BY <1>1
      <3>2. CASE j = 1
        BY <3>2
      <3>3. CASE j = 2
        BY <3>3
      <3>4. QED
        BY <3>1, <3>2, <3>3
    <2>3. QED
      BY <2>1, <2>2
  <1>4. Free(q \o <<m, n>>, Chunk, r)
    BY <1>2, <1>3, SubFrames DEF Free
  <1>5. \A i \in DOMAIN (q \o <<m, n>>) : Of((q \o <<m, n>>)[i], End, r) => i = Len(q) + 2
    BY <1>2, <1>3, SubFrames DEF Free
  <1>6. \A j \in DOMAIN (q \o <<m, n>>) : ~(j > Len(q) + 2)
    BY <1>3
  <1>7. Chunks(q \o <<m, n>>, r) = 0
    BY <1>4, NoChunks
  <1>8. Ordered(q \o <<m, n>>, r, e)
    BY <1>4 DEF Ordered, Free
  <1>9. ASSUME NEW i \in DOMAIN (q \o <<m, n>>), Of((q \o <<m, n>>)[i], End, r)
        PROVE  \A j \in DOMAIN (q \o <<m, n>>) : j > i => ~Of((q \o <<m, n>>)[j], Frames, r)
    BY <1>5, <1>6, <1>9
  <1>10. QED
    BY <1>7, <1>8, <1>9 DEF Ended

LEMMA ChunkSent ==
  ASSUME NEW G, NEW q \in Seq(G), NEW m \in G, NEW r, Of(m, Chunk, r),
         NEW e, NEW w, NEW g \in Nat, NEW s \in Nat, NEW s2, Reading(q, r, e, g, s)
  PROVE  /\ Ordered(q, r, e) => Ordered(q \o <<m>>, r, e)
         /\ Ended(q \o <<m>>, r, w, g, s2)
         /\ Reading(q \o <<m>>, r, e, g, s + 1)
  <1>1. ~Of(m, End, r)
    BY DEF Of, Chunk, End
  <1>2. Free(q \o <<m>>, End, r)
    BY <1>1, AppendFacts DEF Free, Reading
  <1>3. Chunks(q \o <<m>>, r) = Chunks(q, r) + 1 /\ Chunks(q, r) \in Nat
    BY ChunksAppend, ChunksFinite
  <1>4. e = "streaming" \/ \E j \in DOMAIN (q \o <<m>>) : Of((q \o <<m>>)[j], Start, r)
    BY AppendFacts DEF Reading
  <1>5. g + Chunks(q \o <<m>>, r) = s + 1
    BY <1>3 DEF Reading
  <1>6. ASSUME Ordered(q, r, e), e = "buffered", NEW i \in DOMAIN (q \o <<m>>), Of((q \o <<m>>)[i], Chunk, r)
        PROVE  \E j \in DOMAIN (q \o <<m>>) : j <= i /\ Of((q \o <<m>>)[j], Start, r)
    <2>1. CASE i \in DOMAIN q /\ (q \o <<m>>)[i] = q[i]
      BY <1>6, <2>1, AppendFacts DEF Ordered
    <2>2. CASE i = Len(q) + 1
      <3>1. PICK j \in DOMAIN q : Of(q[j], Start, r)
        BY <1>6 DEF Reading
      <3>2. j \in Nat /\ j <= Len(q) /\ Len(q) \in Nat /\ j \in DOMAIN (q \o <<m>>) /\ (q \o <<m>>)[j] = q[j]
        BY <3>1, AppendFacts
      <3>3. QED
        BY <2>2, <3>1, <3>2
    <2>3. QED
      BY <2>1, <2>2, AppendFacts
  <1>7. QED
    BY <1>2, <1>4, <1>5, <1>6 DEF Ordered, Ended, Reading, Free

LEMMA EndSent ==
  ASSUME NEW G, NEW q \in Seq(G), NEW m \in G, NEW r, Of(m, End, r), Free(q, End, r),
         NEW e, NEW w, NEW g, NEW s, m.n = 0 => w = "done" /\ g + Chunks(q, r) = s
  PROVE  /\ Ordered(q, r, e) => Ordered(q \o <<m>>, r, e)
         /\ Ended(q \o <<m>>, r, w, g, s)
  <1>1. ~Of(m, Chunk, r)
    BY DEF Of, Chunk, End
  <1>2. Chunks(q \o <<m>>, r) = Chunks(q, r)
    <2>1. ChunkAt(q \o <<m>>, r) = ChunkAt(q, r)
      BY <1>1, AppendFacts DEF ChunkAt
    <2>2. QED
      BY <2>1 DEF Chunks
  <1>3. ASSUME Ordered(q, r, e) PROVE Ordered(q \o <<m>>, r, e)
    BY <1>1, <1>3, AppendFacts DEF Ordered
  <1>4. ASSUME NEW i \in DOMAIN (q \o <<m>>), Of((q \o <<m>>)[i], End, r)
        PROVE  i = Len(q) + 1 /\ (q \o <<m>>)[i] = m
    BY <1>4, AppendFacts DEF Free
  <1>5. \A j \in DOMAIN (q \o <<m>>) : ~(j > Len(q) + 1)
    BY AppendFacts
  <1>6. QED
    BY <1>2, <1>3, <1>4, <1>5 DEF Ended

-----------------------------------------------------------------------------
(* The invariant of the connections.                                       *)

\* The home's one socket, and what is left when it has none, or is not registered.
HomeSide ==
  /\ ws # None => Live(ws)
  /\ \A c \in Conns : hws[c] \in {"connecting", "open"} => ws = c
  /\ \A c \in Conns : hws[c] = "connecting" => ~homeAuth
  /\ retryTimer => ~homeAuth
  /\ ~homeAuth => active = {} /\ sessions = {}

\* The handshake is the first thing a connecting socket hears, and is on its way once the
\* proxy has accepted.
Opening(c) ==
  /\ down[c] # <<>> => down[c][1].type = "opened"
  /\ down[c] = <<>> => pws[c] = "none" \/ c \in cut

\* Only the end follows the end of a connection, and nothing precedes its registration.
InTurn(q) ==
  \A i \in DOMAIN q :
    /\ q[i].type = "fin" => \A j \in DOMAIN q : j >= i => q[j].type = "fin"
    /\ q[i].type = "home_register" => i = 1

Wire(c) ==
  /\ hws[c] = "none" => pws[c] = "none" /\ up[c] = <<>>
  /\ pws[c] = "none" => down[c] = <<>>
  /\ c \in cut => up[c] = <<>> /\ down[c] = <<>>
  /\ hws[c] = "connecting" => up[c] = <<>> /\ Opening(c)
  /\ pws[c] = "open" => tunnel = c
  /\ InTurn(up[c])
  /\ (\E i \in DOMAIN up[c] : up[c][i].type = "fin") => hws[c] \in {"closing", "closed"}

Wires == HomeSide /\ \A c \in Conns : Wire(c)

-----------------------------------------------------------------------------
(* The invariant of a stream.                                              *)

\* The proxy reads the connection as the tunnel; it may still carry something; the
\* request's answer will come over it.
Serving(c) == authenticated /\ tunnel = c /\ pws[c] = "open"
Whole(c) == hws[c] \in {"connecting", "open"} /\ pws[c] \notin {"dead", "closed"} /\ c \notin cut
Asked(r, c) == r \in active \/ ~Free(down[c], {"http_request"}, r)

\* While the proxy waits for a stream, its frames come over the connection it reads, in
\* order, and none is missing before an end that arrives.
Carries(r, c) ==
  /\ Free(up[c], Frames, r) \/ Serving(c)
  /\ Whole(c) /\ Asked(r, c) => Serving(c)
  /\ Ordered(up[c], r, entry[r])
  /\ Ended(up[c], r, work[r], got[r], sent[r])
  /\ Whole(c) /\ r \in active /\ work[r] = "read" => Reading(up[c], r, entry[r], got[r], sent[r])
Carried(r) == entry[r] # "none" => \A c \in Conns : Carries(r, c)

Unsent(r) ==
  work[r] \in {"none", "inject", "fetch"} =>
    sent[r] = 0 /\ got[r] = 0 /\ \A c \in Conns : Free(up[c], Frames, r)

\* The home may abort what it fetches, and nothing else.
Busy(r) == r \in active => work[r] \in {"fetch", "read"}

\* The proxy has no entry, and never will again: a cancelled stream, and one whose fetch
\* is aborted while the home has a socket.
Over(r) == entry[r] = "none" /\ reply[r] # "idle"
Cancelled(r) ==
  /\ \A c \in Conns : Free(down[c], {"http_stream_cancel"}, r) \/ Over(r)
  /\ Aborted(r) /\ ws # None => Over(r)

Complete(r) == reply[r] = "streamed" => work[r] = "done" /\ got[r] = sent[r]

Stream(r) == Carried(r) /\ Unsent(r) /\ Busy(r) /\ Cancelled(r) /\ Complete(r)
Streams == \A r \in Requests : Stream(r)

-----------------------------------------------------------------------------
(* The invariant of a view.                                                *)

View == {"ws_message"}
Registering(c) == \E i \in DOMAIN up[c] : up[c][i].type = "home_register"

\* Something that shows s the present state is on its way, and nothing older after it.
Fresh(q, s, v) ==
  \E i \in DOMAIN q : Of(q[i], View, s) /\ \A j \in DOMAIN q : j >= i /\ Of(q[j], View, s) => q[j].n = v
Shown(q, s, v) == Fresh(q, s, v) \/ (Free(q, View, s) /\ view[s] = v)

Carrier(c) == hws[c] = "open" /\ pws[c] \in {"open", "closing"} /\ c \notin cut
Current(s, c) ==
  s \in sessions /\ Carrier(c) =>
    /\ Registering(c) => Fresh(up[c], s, version)
    /\ Serving(c) /\ cws[s] = "open" /\ (\A d \in Conns : pws[d] # "closing") => Shown(up[c], s, version)

\* A client is verified only after it has connected.
Connected(s) == cws[s] = "idle" => verifying[s] = 0 /\ ~cauth[s]

Views == \A s \in Sessions : Connected(s) /\ \A c \in Conns : Current(s, c)

\* The whole.
Delivers == IInv /\ Wires /\ Streams /\ Views

-----------------------------------------------------------------------------
(* What a step leaves of the wires, of a stream, of a view.                *)

LEMMA DownAt ==
  ASSUME Good, NEW c \in Conns, NEW ms, NEW d \in Conns
  PROVE  \/ Down(c, ms)[d] = down[d]
         \/ d = c /\ c \notin cut /\ hws[c] # "closed" /\ Down(c, ms)[d] = down[d] \o ms
  BY Channels DEF Down

LEMMA SendToTunnelAt ==
  ASSUME Good, LocalTypes, NEW ms, NEW d \in Conns
  PROVE  \/ SendToTunnel(ms)[d] = down[d]
         \/ d = tunnel /\ pws[d] = "open" /\ d \notin cut /\ SendToTunnel(ms)[d] = down[d] \o ms
  BY Channels DEF SendToTunnel, Down, LocalTypes

LEMMA UpAt ==
  ASSUME Good, NEW c \in Conns, NEW ms, NEW d \in Conns
  PROVE  /\ d # c => Up(c, ms)[d] = up[d]
         /\ c \in cut \/ pws[c] \in {"dead", "closed"} => Up(c, ms)[c] = up[c]
         /\ ~(c \in cut \/ pws[c] \in {"dead", "closed"}) => Up(c, ms)[c] = up[c] \o ms
  BY Channels DEF Up

LEMMA SendAt ==
  ASSUME Good, LocalTypes, NEW ms, NEW d \in Conns
  PROVE  /\ ~(ws = d /\ hws[d] = "open" /\ Whole(d)) => Send(ms)[d] = up[d]
         /\ ws = d /\ hws[d] = "open" /\ Whole(d) => Send(ms)[d] = up[d] \o ms
  <1>1. CASE ws = d
    <2>1. d # None
      BY TunnelAssumption DEF Conns
    <2>2. Send(ms) = IF hws[d] = "open" THEN Up(d, ms) ELSE up
      BY <1>1, <2>1 DEF Send
    <2>3. QED
      BY <1>1, <2>2, UpAt DEF Whole
  <1>2. CASE ws # d
    <2>1. ws = None \/ ws \in Conns
      BY DEF LocalTypes
    <2>2. Send(ms) = up \/ (ws \in Conns /\ Send(ms) = Up(ws, ms))
      BY <2>1 DEF Send
    <2>3. QED
      BY <1>2, <2>2, UpAt
  <1>3. QED
    BY <1>1, <1>2

LEMMA FreeAppend ==
  ASSUME NEW G, NEW q \in Seq(G), NEW ms \in Seq(G), NEW types, NEW x, Free(q, types, x), Free(ms, types, x)
  PROVE  Free(q \o ms, types, x)
  BY ConcatFacts DEF Free

LEMMA FreeTail ==
  ASSUME NEW G, NEW q \in Seq(G), q # <<>>, NEW types, NEW x, Free(q, types, x)
  PROVE  Free(Tail(q), types, x) /\ ~Of(Head(q), types, x)
  BY TailFacts DEF Free

LEMMA FreeEmpty ==
  ASSUME NEW types, NEW x
  PROVE  Free(<<>>, types, x)
  BY DEF Free

\* Messages of other kinds.
LEMMA FreeOne ==
  ASSUME NEW m, NEW types, NEW x, ~Of(m, types, x)
  PROVE  Free(<<m>>, types, x)
  BY DEF Free

LEMMA InTurnTail ==
  ASSUME NEW G, NEW q \in Seq(G), q # <<>>, InTurn(q)
  PROVE  /\ InTurn(Tail(q)) /\ \A i \in DOMAIN Tail(q) : Tail(q)[i].type # "home_register"
         /\ Head(q).type = "fin" => \A i \in DOMAIN q : q[i].type = "fin"
         /\ (\E i \in DOMAIN Tail(q) : Tail(q)[i].type = "fin") => \E i \in DOMAIN q : q[i].type = "fin"
  <1>1. ASSUME NEW i \in DOMAIN Tail(q), Tail(q)[i].type = "fin", NEW j \in DOMAIN Tail(q), j >= i
        PROVE  Tail(q)[j].type = "fin"
    BY <1>1, TailFacts DEF InTurn
  <1>2. \A i \in DOMAIN Tail(q) : Tail(q)[i].type # "home_register"
    BY TailFacts DEF InTurn
  <1>3. Head(q).type = "fin" => \A i \in DOMAIN q : q[i].type = "fin"
    BY TailFacts DEF InTurn
  <1>4. (\E i \in DOMAIN Tail(q) : Tail(q)[i].type = "fin") => \E i \in DOMAIN q : q[i].type = "fin"
    BY TailFacts
  <1>5. QED
    BY <1>1, <1>2, <1>3, <1>4 DEF InTurn

NoMark(ms) == \A i \in DOMAIN ms : ms[i].type \notin {"fin", "home_register"}

LEMMA InTurnAppend ==
  ASSUME NEW G, NEW q \in Seq(G), NEW ms \in Seq(G), InTurn(q),
         NoMark(ms), \A i \in DOMAIN q : q[i].type # "fin"
  PROVE  InTurn(q \o ms) /\ \A i \in DOMAIN (q \o ms) : (q \o ms)[i].type # "fin"
  <1>1. \A i \in DOMAIN (q \o ms) : (q \o ms)[i].type # "fin"
    BY ConcatFacts DEF NoMark
  <1>2. \A i \in DOMAIN (q \o ms) : (q \o ms)[i].type = "home_register" => i = 1
    BY ConcatFacts DEF NoMark, InTurn
  <1>3. QED
    BY <1>1, <1>2 DEF InTurn

LEMMA InTurnFin ==
  ASSUME NEW G, NEW q \in Seq(G), Fin \in G, InTurn(q)
  PROVE  InTurn(q \o <<Fin>>)
  <1>1. Fin.type = "fin"
    BY DEF Fin, Msg
  <1>2. ASSUME NEW i \in DOMAIN (q \o <<Fin>>), (q \o <<Fin>>)[i].type = "fin", NEW j \in DOMAIN (q \o <<Fin>>), j >= i
        PROVE  (q \o <<Fin>>)[j].type = "fin"
    <2>1. CASE j = Len(q) + 1 /\ (q \o <<Fin>>)[j] = Fin
      BY <1>1, <2>1
    <2>2. CASE j \in DOMAIN q /\ (q \o <<Fin>>)[j] = q[j]
      <3>1. i \in DOMAIN q /\ (q \o <<Fin>>)[i] = q[i]
        BY <1>2, <2>2, AppendFacts
      <3>2. QED
        BY <1>2, <2>2, <3>1 DEF InTurn
    <2>3. QED
      BY <2>1, <2>2, AppendFacts
  <1>3. ASSUME NEW i \in DOMAIN (q \o <<Fin>>), (q \o <<Fin>>)[i].type = "home_register"
        PROVE  i = 1
    BY <1>1, <1>3, AppendFacts DEF InTurn
  <1>4. QED
    BY <1>2, <1>3 DEF InTurn

\* The proxy's end closes, or something more is sent to the home.
DownGrows(d) ==
  \/ down'[d] = down[d]
  \/ pws[d] # "none" /\ d \notin cut /\ \E ms \in Seq(Message) : down'[d] = down[d] \o ms
EndShuts(d) == pws'[d] = pws[d] \/ (pws[d] # "none" /\ pws'[d] \notin {"none", "open"})

UpShifts(d) ==
  \/ up'[d] = up[d] \/ up'[d] = <<>>
  \/ up[d] # <<>> /\ up'[d] = Tail(up[d])
  \/ hws[d] = "open" /\ d \notin cut /\ \E ms \in Seq(GoodUp) : NoMark(ms) /\ up'[d] = up[d] \o ms

LEMMA InTransit ==
  ASSUME Good, NEW c \in Conns
  PROVE  down[c] \in Seq(Message) /\ up[c] \in Seq(Message)
  <1>1. GoodDown \subseteq Message /\ GoodUp \subseteq Message
    BY DownFields, UpFields
  <1>2. QED
    BY <1>1, Channels, SeqMonotonic

LEMMA OpeningKept ==
  ASSUME Good, NEW c \in Conns, Wire(c), hws[c] = "connecting", c \in cut' <=> c \in cut, DownGrows(c), EndShuts(c)
  PROVE  Opening(c)'
  <1>1. CASE down'[c] = down[c]
    BY <1>1 DEF Wire, Opening, EndShuts
  <1>2. CASE pws[c] # "none" /\ c \notin cut /\ \E ms \in Seq(Message) : down'[c] = down[c] \o ms
    <2>1. PICK ms \in Seq(Message) : down'[c] = down[c] \o ms
      BY <1>2
    <2>2. down[c] # <<>> /\ down[c][1].type = "opened"
      BY <1>2 DEF Wire, Opening
    <2>3. down[c] \in Seq(Message)
      BY InTransit
    <2>4. 1 \in DOMAIN down[c]
      BY <2>2, <2>3, TailFacts
    <2>5. down'[c][1] = down[c][1] /\ 1 \in DOMAIN down'[c]
      BY <2>1, <2>3, <2>4, ConcatFacts
    <2>6. down'[c] # <<>>
      BY <2>5
    <2>7. QED
      BY <2>2, <2>5, <2>6 DEF Opening
  <1>3. QED
    BY <1>1, <1>2 DEF DownGrows

HasFin(q) == \E i \in DOMAIN q : q[i].type = "fin"

LEMMA UpKept ==
  ASSUME Good, NEW c \in Conns, Wire(c), UpShifts(c)
  PROVE  /\ InTurn(up'[c]) /\ (HasFin(up'[c]) => hws[c] \in {"closing", "closed"})
         /\ c \in cut \/ hws[c] \in {"none", "connecting"} => up'[c] = <<>>
  <1> DEFINE q == up[c]
  <1>1. q \in Seq(GoodUp)
    BY Channels
  <1>2. InTurn(q) /\ (HasFin(q) => hws[c] \in {"closing", "closed"})
    BY DEF Wire, HasFin
  <1>3. c \in cut \/ hws[c] \in {"none", "connecting"} => q = <<>>
    BY DEF Wire
  <1> HIDE DEF q
  <1>4. CASE up'[c] = q
    BY <1>2, <1>3, <1>4
  <1>5. CASE up'[c] = <<>>
    BY <1>5 DEF InTurn, HasFin
  <1>6. CASE q # <<>> /\ up'[c] = Tail(q)
    <2>1. InTurn(Tail(q)) /\ (HasFin(Tail(q)) => HasFin(q))
      BY <1>1, <1>2, <1>6, InTurnTail DEF HasFin
    <2>2. QED
      BY <1>2, <1>3, <1>6, <2>1
  <1>7. CASE hws[c] = "open" /\ c \notin cut /\ \E ms \in Seq(GoodUp) : NoMark(ms) /\ up'[c] = q \o ms
    <2>1. PICK ms \in Seq(GoodUp) : NoMark(ms) /\ up'[c] = q \o ms
      BY <1>7
    <2>2. \A i \in DOMAIN q : q[i].type # "fin"
      BY <1>2, <1>7 DEF HasFin
    <2>3. InTurn(up'[c]) /\ ~HasFin(up'[c])
      BY <1>1, <1>2, <2>1, <2>2, InTurnAppend DEF HasFin
    <2>4. QED
      BY <1>7, <2>3
  <1>8. QED
    BY <1>4, <1>5, <1>6, <1>7 DEF UpShifts, q

LEMMA WireKept ==
  ASSUME Good, NEW c \in Conns, Wire(c), hws'[c] = hws[c], c \in cut' <=> c \in cut,
         UpShifts(c), DownGrows(c), EndShuts(c), tunnel' = tunnel \/ pws'[c] # "open"
  PROVE  Wire(c)'
  <1>1. hws[c] = "connecting" => Opening(c)'
    BY OpeningKept
  <1>2. c \in cut => down'[c] = down[c]
    BY DEF DownGrows
  <1>3. pws'[c] = "none" => pws[c] = "none" /\ down'[c] = down[c]
    BY DEF DownGrows, EndShuts
  <1>4. pws'[c] = "open" => pws[c] = "open" /\ tunnel' = tunnel
    BY DEF EndShuts
  <1>5. pws[c] = "none" => pws'[c] = "none"
    BY DEF EndShuts
  <1>6. /\ InTurn(up'[c]) /\ (HasFin(up'[c]) => hws[c] \in {"closing", "closed"})
        /\ c \in cut \/ hws[c] \in {"none", "connecting"} => up'[c] = <<>>
    BY UpKept
  <1>7. QED
    BY <1>1, <1>2, <1>3, <1>4, <1>5, <1>6 DEF Wire, HasFin

LEMMA HomeSideKept ==
  ASSUME HomeSide, UNCHANGED <<hws, ws, homeAuth, retryTimer>>,
         homeAuth \/ (active' \subseteq active /\ sessions' \subseteq sessions)
  PROVE  HomeSide'
  BY DEF HomeSide, Live

LEMMA WiresKept ==
  ASSUME Good, Wires, HomeSide', UNCHANGED <<hws, cut>>,
         \A d \in Conns : UpShifts(d) /\ DownGrows(d) /\ EndShuts(d) /\ (tunnel' = tunnel \/ pws'[d] # "open")
  PROVE  Wires'
  <1>1. \A d \in Conns : Wire(d)'
    BY WireKept DEF Wires
  <1>2. QED
    BY <1>1 DEF Wires

\* A step that is not about the stream of r: what is in flight of it stays, or is lost
\* with its connection.
Lost(r, c) == Free(up'[c], Frames, r) /\ ~Whole(c)'
Spared(r, c) ==
  /\ Serving(c) => Serving(c)' \/ Lost(r, c)
  /\ Same(up'[c], up[c], Frames, r) \/ Lost(r, c)
  /\ Whole(c)' /\ Asked(r, c)' => Whole(c) /\ Asked(r, c)
  /\ Whole(c)' /\ r \in active' /\ work'[r] = "read" => Whole(c) /\ r \in active /\ work[r] = "read"

Steady(r) ==
  /\ entry'[r] \in {entry[r], "none"} /\ got'[r] = got[r] /\ sent'[r] = sent[r]
  /\ reply[r] # "idle" => reply'[r] # "idle"
  /\ reply'[r] = "streamed" => reply[r] = "streamed"
  /\ work[r] = "done" => work'[r] = "done"
  /\ work'[r] \in {"none", "inject", "fetch"} => work[r] \in {"none", "inject", "fetch"}
  /\ Busy(r) => Busy(r)'
  /\ Aborted(r)' /\ ws' # None => Aborted(r) /\ ws # None
  /\ \A c \in Conns : Free(down[c], {"http_stream_cancel"}, r) => Free(down'[c], {"http_stream_cancel"}, r)

Undisturbed(r) ==
  /\ Steady(r)
  /\ \A c \in Conns :
       /\ Free(up[c], Frames, r) => Free(up'[c], Frames, r)
       /\ entry'[r] # "none" => Spared(r, c)

LEMMA CarriesKept ==
  ASSUME Good, Good', NEW r, NEW c \in Conns, Carries(r, c), Spared(r, c), entry'[r] = entry[r],
         got'[r] = got[r], sent'[r] = sent[r], work[r] = "done" => work'[r] = "done"
  PROVE  Carries(r, c)'
  <1>1. up[c] \in Seq(GoodUp) /\ up'[c] \in Seq(GoodUp')
    BY DEF Good
  <1>2. PICK G : up[c] \in Seq(G) /\ up'[c] \in Seq(G)
    <2>1. up[c] \in Seq(GoodUp \cup GoodUp') /\ up'[c] \in Seq(GoodUp \cup GoodUp')
      BY <1>1, SeqMonotonic
    <2>2. QED
      BY <2>1
  <1>3. CASE Lost(r, c)
    <2>1. Ordered(up'[c], r, entry'[r]) /\ Ended(up'[c], r, work'[r], got'[r], sent'[r])
      BY <1>3, SubFrames DEF Lost, Ordered, Ended, Free
    <2>2. QED
      BY <1>3, <2>1 DEF Lost, Carries
  <1>4. CASE ~Lost(r, c)
    <2>1. Same(up'[c], up[c], Frames, r) /\ (Serving(c) => Serving(c)')
      BY <1>4 DEF Spared
    <2>2. Free(up'[c], Frames, r) \/ Serving(c)'
      BY <2>1, FreeSame DEF Carries
    <2>3. Whole(c)' /\ Asked(r, c)' => Serving(c)'
      BY <2>1 DEF Carries, Spared
    <2>4. Ordered(up'[c], r, entry'[r])
      BY <1>2, <2>1, StreamSame DEF Carries
    <2>5. Ended(up'[c], r, work'[r], got'[r], sent'[r])
      <3>1. Ended(up'[c], r, work[r], got[r], sent[r])
        BY <1>2, <2>1, StreamSame DEF Carries
      <3>2. QED
        BY <3>1 DEF Ended
    <2>6. Whole(c)' /\ r \in active' /\ work'[r] = "read" => Reading(up'[c], r, entry'[r], got'[r], sent'[r])
      <3>1. Reading(up[c], r, entry[r], got[r], sent[r]) => Reading(up'[c], r, entry[r], got[r], sent[r])
        BY <1>2, <2>1, StreamSame
      <3>2. QED
        BY <3>1 DEF Carries, Spared
    <2>7. QED
      BY <2>2, <2>3, <2>4, <2>5, <2>6 DEF Carries
  <1>5. QED
    BY <1>3, <1>4

LEMMA StreamKept ==
  ASSUME IInv, Good', NEW r \in Requests, Stream(r), Undisturbed(r)
  PROVE  Stream(r)'
  <1>1. Carried(r)'
    <2>1. SUFFICES ASSUME entry'[r] # "none", NEW c \in Conns PROVE Carries(r, c)'
      BY DEF Carried
    <2>2. entry'[r] = entry[r] /\ Carries(r, c) /\ Spared(r, c)
      BY <2>1 DEF Undisturbed, Steady, Stream, Carried
    <2>3. QED
      BY <2>2, CarriesKept DEF IInv, Undisturbed, Steady
  <1>2. Unsent(r)' /\ Busy(r)'
    BY DEF Stream, Unsent, Undisturbed, Steady
  <1>3. Cancelled(r)'
    <2>1. Over(r) => Over(r)'
      BY DEF Over, Undisturbed, Steady
    <2>2. QED
      BY <2>1 DEF Stream, Cancelled, Undisturbed, Steady
  <1>4. Complete(r)'
    BY DEF Stream, Complete, Undisturbed, Steady
  <1>5. QED
    BY <1>1, <1>2, <1>3, <1>4 DEF Stream

LEMMA FreshSame ==
  ASSUME NEW G, NEW p \in Seq(G), NEW q \in Seq(G), NEW s, NEW v, Same(p, q, View, s)
  PROVE  (Fresh(q, s, v) => Fresh(p, s, v)) /\ (Free(q, View, s) => Free(p, View, s))
  <1>1. PICK k \in {0, 1} :
          /\ \A i \in DOMAIN p : Of(p[i], View, s) => i + k \in DOMAIN q /\ q[i + k] = p[i]
          /\ \A j \in DOMAIN q : Of(q[j], View, s) => j - k \in DOMAIN p /\ p[j - k] = q[j]
    BY DEF Same
  <1>2. DOMAIN p \subseteq Nat /\ DOMAIN q \subseteq Nat
    BY SeqFacts
  <1>3. ASSUME Fresh(q, s, v) PROVE Fresh(p, s, v)
    <2>1. PICK i \in DOMAIN q : Of(q[i], View, s) /\ \A j \in DOMAIN q : j >= i /\ Of(q[j], View, s) => q[j].n = v
      BY <1>3 DEF Fresh
    <2>2. i - k \in DOMAIN p /\ Of(p[i - k], View, s)
      BY <1>1, <2>1
    <2>3. ASSUME NEW j \in DOMAIN p, j >= i - k, Of(p[j], View, s) PROVE p[j].n = v
      <3>1. j + k \in DOMAIN q /\ q[j + k] = p[j] /\ j + k >= i
        BY <1>1, <1>2, <2>3
      <3>2. QED
        BY <2>1, <2>3, <3>1
    <2>4. QED
      BY <2>2, <2>3 DEF Fresh
  <1>4. QED
    BY <1>3, FreeSame

\* A step that shows s nothing, and changes nothing it should be shown.
Unseen(s, c) ==
  s \in sessions' /\ Carrier(c)' =>
    /\ s \in sessions /\ Carrier(c)
    /\ version' = version /\ view'[s] = view[s]
    /\ Same(up'[c], up[c], View, s)
    /\ Registering(c)' => Registering(c)
    /\ Serving(c)' /\ cws'[s] = "open" /\ (\A d \in Conns : pws'[d] # "closing") =>
         \/ Serving(c) /\ cws[s] = "open" /\ \A d \in Conns : pws[d] # "closing"
         \/ Registering(c)

LEMMA CurrentKept ==
  ASSUME Good, Good', NEW s, NEW c \in Conns, Current(s, c), Unseen(s, c)
  PROVE  Current(s, c)'
  <1>1. PICK G : up[c] \in Seq(G) /\ up'[c] \in Seq(G)
    <2>1. up[c] \in Seq(GoodUp) /\ up'[c] \in Seq(GoodUp')
      BY DEF Good
    <2>2. up[c] \in Seq(GoodUp \cup GoodUp') /\ up'[c] \in Seq(GoodUp \cup GoodUp')
      BY <2>1, SeqMonotonic
    <2>3. QED
      BY <2>2
  <1>2. SUFFICES ASSUME s \in sessions', Carrier(c)'
                 PROVE  /\ Registering(c)' => Fresh(up'[c], s, version')
                        /\ Serving(c)' /\ cws'[s] = "open" /\ (\A d \in Conns : pws'[d] # "closing")
                             => Shown(up[c], s, version)'
    BY DEF Current
  <1>3. /\ s \in sessions /\ Carrier(c) /\ version' = version /\ view'[s] = view[s]
        /\ Same(up'[c], up[c], View, s) /\ (Registering(c)' => Registering(c))
    BY <1>2 DEF Unseen
  <1>4. /\ Fresh(up[c], s, version) => Fresh(up'[c], s, version')
        /\ Free(up[c], View, s) => Free(up'[c], View, s)
    BY <1>1, <1>3, FreshSame
  <1>5. Registering(c) => Fresh(up'[c], s, version')
    BY <1>3, <1>4 DEF Current
  <1>6. Shown(up[c], s, version) => Shown(up[c], s, version)'
    BY <1>3, <1>4 DEF Shown
  <1>7. ASSUME Serving(c)', cws'[s] = "open", \A d \in Conns : pws'[d] # "closing"
        PROVE  Shown(up[c], s, version)'
    <2>1. CASE Registering(c)
      BY <1>5, <2>1 DEF Shown
    <2>2. CASE ~Registering(c)
      BY <1>2, <1>3, <1>6, <1>7, <2>2 DEF Unseen, Current
    <2>3. QED
      BY <2>1, <2>2
  <1>8. QED
    BY <1>3, <1>5, <1>7

LEMMA ViewsKept ==
  ASSUME IInv, Good', Views, \A s \in Sessions : Connected(s) => Connected(s)',
         \A s \in Sessions : \A c \in Conns : Unseen(s, c)
  PROVE  Views'
  BY CurrentKept DEF Views, IInv

-----------------------------------------------------------------------------
(* Every step keeps the invariant of the connections.                      *)

LEMMA Sendable ==
  /\ <<Fin>> \in Seq(Message) /\ <<Msg("home_registered", None, 0)>> \in Seq(Message)
  /\ \A r \in Requests : <<Msg("http_request", r, 0)>> \in Seq(Message) /\ <<Msg("http_stream_cancel", r, 0)>> \in Seq(Message)
  /\ \A s \in Sessions : <<Msg("ws_open", s, 0)>> \in Seq(Message) /\ <<Msg("ws_close", s, 0)>> \in Seq(Message)
  <1>1. Fin \in Message /\ Msg("home_registered", None, 0) \in Message
    BY DEF Fin, Msg, Message, MsgType
  <1>2. \A r \in Requests : Msg("http_request", r, 0) \in Message /\ Msg("http_stream_cancel", r, 0) \in Message
    BY DEF Msg, Message, MsgType
  <1>3. \A s \in Sessions : Msg("ws_open", s, 0) \in Message /\ Msg("ws_close", s, 0) \in Message
    BY DEF Msg, Message, MsgType
  <1>4. \A m \in Message : <<m>> \in Seq(Message)
    OBVIOUS
  <1>5. QED
    BY <1>1, <1>2, <1>3, <1>4

\* A step of the proxy that sends, and opens or closes no connection of the home.
LEMMA SendGrows ==
  ASSUME Good, LocalTypes, NEW ms \in Seq(Message), NEW d \in Conns, down'[d] = SendToTunnel(ms)[d]
  PROVE  DownGrows(d)
  BY SendToTunnelAt DEF DownGrows

LEMMA FinGrows ==
  ASSUME Good, NEW c \in Conns, pws[c] = "open", NEW d \in Conns, down'[d] = Down(c, <<Fin>>)[d]
  PROVE  DownGrows(d)
  <1>1. PICK ms \in Seq(Message) : down'[d] = Down(c, ms)[d]
    BY Sendable
  <1>2. CASE down'[d] = down[d]
    BY <1>2 DEF DownGrows
  <1>3. CASE d = c /\ c \notin cut /\ down'[d] = down[d] \o ms
    BY <1>3 DEF DownGrows
  <1>4. Down(c, ms)[d] = down[d] \/ (d = c /\ c \notin cut /\ Down(c, ms)[d] = down[d] \o ms)
    BY DownAt
  <1>5. QED
    BY <1>1, <1>2, <1>3, <1>4

LEMMA ClosingGrows ==
  ASSUME Good, LocalTypes, NEW c \in Conns, ProxyCloses(c), NEW d \in Conns
  PROVE  DownGrows(d) /\ EndShuts(d) /\ (pws[d] = "none" => pws'[d] = "none")
  <1>1. DownGrows(d)
    <2>1. \/ down'[d] = down[d]
          \/ pws[c] = "open" /\ down'[d] = Down(c, <<Fin>>)[d]
      BY DEF ProxyCloses
    <2>2. QED
      BY <2>1, FinGrows DEF DownGrows
  <1>2. pws'[d] = IF d = c /\ pws[c] = "open" THEN "closing" ELSE pws[d]
    BY DEF ProxyCloses, LocalTypes
  <1>3. QED
    BY <1>1, <1>2 DEF EndShuts

LEMMA CutWires ==
  ASSUME IInv, Wires, NEW c \in Conns, Cut(c)
  PROVE  Wires'
  <1> USE DEF IInv
  <1>1. HomeSide'
    BY HomeSideKept DEF Cut, Wires, home
  <1>2. /\ up' = [up EXCEPT ![c] = <<>>] /\ down' = [down EXCEPT ![c] = <<>>] /\ cut' = cut \cup {c}
        /\ UNCHANGED <<pws, hws, tunnel>>
    BY DEF Cut, manager
  <1>3. ASSUME NEW d \in Conns PROVE Wire(d)'
    <2>1. Wire(d)
      BY DEF Wires
    <2>2. CASE d = c
      <3>1. up'[c] = <<>> /\ down'[c] = <<>> /\ c \in cut'
        BY <1>2, Channels
      <3>2. InTurn(<<>>) /\ Opening(c)'
        BY <3>1 DEF InTurn, Opening
      <3>3. QED
        BY <1>2, <2>1, <2>2, <3>1, <3>2 DEF Wire
    <2>3. CASE d # c
      <3>1. up'[d] = up[d] /\ down'[d] = down[d] /\ (d \in cut' <=> d \in cut)
        BY <1>2, <2>3, Channels
      <3>2. UpShifts(d) /\ DownGrows(d) /\ EndShuts(d)
        BY <1>2, <3>1 DEF UpShifts, DownGrows, EndShuts
      <3>3. QED
        BY <1>2, <2>1, <3>1, <3>2, WireKept
    <2>4. QED
      BY <2>2, <2>3
  <1>4. QED
    BY <1>1, <1>3 DEF Wires

LEMMA AcceptWires ==
  ASSUME IInv, Wires, NEW c \in Conns, Accept(c)
  PROVE  Wires'
  <1> USE DEF IInv
  <1>1. HomeSide'
    BY HomeSideKept DEF Accept, Wires, home
  <1>2. /\ hws[c] = "connecting" /\ pws[c] = "none" /\ c \notin cut /\ UNCHANGED <<hws, up, cut>>
        /\ \E p \in {"closed", "open"} : pws' = [pws EXCEPT ![c] = p] /\ (p = "open" => tunnel' = c)
        /\ \A d \in Conns : pws[d] = "open" => tunnel' = tunnel
    <2>1. ASSUME NEW d \in Conns, pws[d] = "open" PROVE tunnel # None /\ pws[tunnel] = "open"
      BY <2>1, TunnelAssumption DEF Wires, Wire, Conns
    <2>2. QED
      BY <2>1 DEF Accept, manager
  <1>3. down'[c] # <<>> /\ down'[c][1].type = "opened" /\ \A d \in Conns : d # c => down'[d] = down[d]
    BY Channels, MsgFields DEF Accept
  <1>4. ASSUME NEW d \in Conns PROVE Wire(d)'
    <2>1. Wire(d)
      BY DEF Wires
    <2>2. CASE d = c
      <3>1. pws'[c] # "none" /\ (pws'[c] = "open" => tunnel' = c)
        BY <1>2 DEF LocalTypes
      <3>2. Opening(c)'
        BY <1>3 DEF Opening
      <3>3. QED
        BY <1>2, <2>1, <2>2, <3>1, <3>2 DEF Wire
    <2>3. CASE d # c
      <3>1. down'[d] = down[d] /\ pws'[d] = pws[d] /\ (tunnel' = tunnel \/ pws'[d] # "open")
        BY <1>2, <1>3, <2>3 DEF LocalTypes
      <3>2. UpShifts(d) /\ DownGrows(d) /\ EndShuts(d)
        BY <1>2, <3>1 DEF UpShifts, DownGrows, EndShuts
      <3>3. QED
        BY <1>2, <2>1, <3>1, <3>2, WireKept
    <2>4. QED
      BY <2>2, <2>3
  <1>5. QED
    BY <1>1, <1>4 DEF Wires

LEMMA ProxyAuthTimeoutWires ==
  ASSUME IInv, Wires, NEW c \in Conns, ProxyAuthTimeout(c)
  PROVE  Wires'
  <1> USE DEF IInv
  <1>1. UNCHANGED <<hws, up, cut, tunnel, home>> /\ (UNCHANGED <<pws, down>> \/ ProxyCloses(c))
    BY DEF ProxyAuthTimeout
  <1>2. HomeSide'
    BY <1>1, HomeSideKept DEF Wires, home
  <1>3. \A d \in Conns : DownGrows(d) /\ EndShuts(d)
    BY <1>1, ClosingGrows DEF DownGrows, EndShuts
  <1>4. \A d \in Conns : UpShifts(d)
    BY <1>1 DEF UpShifts
  <1>5. QED
    BY <1>1, <1>2, <1>3, <1>4, WiresKept

LEMMA MissedPongWires ==
  ASSUME IInv, Wires, NEW c \in Conns, MissedPong(c)
  PROVE  Wires'
  <1> USE DEF IInv
  <1>1. /\ pws[c] = "open" /\ pws' = [pws EXCEPT ![c] = "dead"]
        /\ up' = [up EXCEPT ![c] = <<>>] /\ down' = Down(c, <<Fin>>) /\ UNCHANGED <<hws, cut, tunnel, home>>
    BY DEF MissedPong, manager
  <1>2. HomeSide'
    BY <1>1, HomeSideKept DEF Wires, home
  <1>3. \A d \in Conns : DownGrows(d)
    BY <1>1, FinGrows
  <1>4. \A d \in Conns : EndShuts(d)
    BY <1>1 DEF EndShuts, LocalTypes
  <1>5. \A d \in Conns : UpShifts(d)
    BY <1>1, Channels DEF UpShifts
  <1>6. QED
    BY <1>1, <1>2, <1>3, <1>4, <1>5, WiresKept

LEMMA ProxyClosedWires ==
  ASSUME IInv, Wires, NEW c \in Conns, ProxyClosed(c)
  PROVE  Wires'
  <1> USE DEF IInv
  <1>1. /\ pws[c] \in {"closing", "dead"} /\ pws' = [pws EXCEPT ![c] = "closed"]
        /\ up' = [up EXCEPT ![c] = <<>>] /\ tunnel' = (IF tunnel = c THEN None ELSE tunnel)
        /\ UNCHANGED <<hws, down, cut, home>>
    BY DEF ProxyClosed
  <1>2. HomeSide'
    BY <1>1, HomeSideKept DEF Wires, home
  <1>3. \A d \in Conns : DownGrows(d) /\ EndShuts(d) /\ UpShifts(d)
    BY <1>1, Channels DEF DownGrows, EndShuts, UpShifts, LocalTypes
  <1>4. \A d \in Conns : tunnel' = tunnel \/ pws'[d] # "open"
    BY <1>1 DEF Wires, Wire, LocalTypes
  <1>5. QED
    BY <1>1, <1>2, <1>3, <1>4, WiresKept

LEMMA ProxyReceivesWires ==
  ASSUME IInv, Wires, NEW c \in Conns, ProxyReceives(c)
  PROVE  Wires'
  <1> USE DEF IInv
  <1>1. /\ pws[c] \in {"open", "closing"} /\ up[c] # <<>> /\ up' = [up EXCEPT ![c] = Tail(up[c])]
        /\ UNCHANGED <<hws, cut, home, tunnel>>
        /\ \/ pws' = [pws EXCEPT ![c] = "closing"] /\ UNCHANGED down
           \/ ProxyCloses(c)
           \/ UNCHANGED pws /\ (down' = down \/ down' = SendToTunnel(<<Msg("home_registered", None, 0)>>))
    BY DEF ProxyReceives, Register, HandleTunnelMessage, IgnoredByProxy, manager
  <1>2. HomeSide'
    BY <1>1, HomeSideKept DEF Wires, home
  <1>3. <<Msg("home_registered", None, 0)>> \in Seq(Message)
    BY Sendable
  <1>4. ASSUME NEW d \in Conns PROVE DownGrows(d) /\ EndShuts(d)
    <2>1. CASE pws' = [pws EXCEPT ![c] = "closing"] /\ UNCHANGED down
      BY <1>1, <2>1 DEF DownGrows, EndShuts, LocalTypes
    <2>2. CASE ProxyCloses(c)
      BY <2>2, ClosingGrows
    <2>3. CASE UNCHANGED pws /\ (down' = down \/ down' = SendToTunnel(<<Msg("home_registered", None, 0)>>))
      <3>1. down'[d] = down[d] \/ down'[d] = SendToTunnel(<<Msg("home_registered", None, 0)>>)[d]
        BY <2>3
      <3>2. DownGrows(d)
        BY <1>3, <3>1, SendGrows DEF DownGrows
      <3>3. QED
        BY <2>3, <3>2 DEF EndShuts
    <2>4. QED
      BY <1>1, <2>1, <2>2, <2>3
  <1>5. \A d \in Conns : UpShifts(d)
    BY <1>1, Channels DEF UpShifts
  <1>6. QED
    BY <1>1, <1>2, <1>4, <1>5, WiresKept

\* Requests and clients of the proxy.
LEMMA ProxySendsWires ==
  ASSUME IInv, Wires, UNCHANGED <<pws, hws, up, cut, tunnel, home>>,
         \/ UNCHANGED down
         \/ \E ms \in Seq(Message) : down' = SendToTunnel(ms)
  PROVE  Wires'
  <1> USE DEF IInv
  <1>1. HomeSide'
    BY HomeSideKept DEF Wires, home
  <1>2. \A d \in Conns : DownGrows(d)
    BY SendGrows DEF DownGrows
  <1>3. \A d \in Conns : EndShuts(d) /\ UpShifts(d)
    BY DEF EndShuts, UpShifts
  <1>4. QED
    BY <1>1, <1>2, <1>3, WiresKept

LEMMA RequestWires ==
  ASSUME IInv, Wires, NEW r \in Requests, RequestStep(r)
  PROVE  Wires'
  <1>1. UNCHANGED <<pws, hws, up, cut, tunnel, home>>
    BY DEF RequestStep, HttpRequest, RequestTimeout, ClientGone, wire, manager
  <1>2. \/ UNCHANGED down
        \/ down' = SendToTunnel(<<Msg("http_request", r, 0)>>)
        \/ down' = SendToTunnel(<<Msg("http_stream_cancel", r, 0)>>)
    BY DEF RequestStep, HttpRequest, NewEntry, RequestTimeout, ClientGone, wire
  <1>3. QED
    BY <1>1, <1>2, Sendable, ProxySendsWires

LEMMA ClientWires ==
  ASSUME IInv, Wires, NEW s \in Sessions, ClientStep(s)
  PROVE  Wires'
  <1>1. UNCHANGED <<pws, hws, up, cut, tunnel, home>>
    BY DEF ClientStep, ClientConnects, Authenticate, Verified, NotVerified, ClientLeaves, ClientClosed, wire, manager
  <1>2. \/ UNCHANGED down
        \/ down' = SendToTunnel(<<Msg("ws_open", s, 0)>>)
        \/ down' = SendToTunnel(<<Msg("ws_close", s, 0)>>)
    BY DEF ClientStep, ClientConnects, Authenticate, Verified, NotVerified, ClientLeaves, ClientClosed, wire
  <1>3. QED
    BY <1>1, <1>2, Sendable, ProxySendsWires

\* Answers and events of the home: nothing is appended but to an open socket.
LEMMA HomeSendsUp ==
  ASSUME IInv, Wires, NEW ms \in Seq(GoodUp), NoMark(ms), up' = Send(ms) \/ up' = up, NEW d \in Conns
  PROVE  UpShifts(d)
  <1>1. CASE up'[d] = up[d]
    BY <1>1 DEF UpShifts
  <1>2. CASE hws[d] = "open" /\ Whole(d) /\ up'[d] = up[d] \o ms
    BY <1>2 DEF UpShifts, Whole
  <1>3. QED
    BY <1>1, <1>2, SendAt DEF IInv

\* What the home sends of a request.
LEMMA Answering ==
  ASSUME IInv, NEW r \in Requests, AnswerStep(r)
  PROVE  \E ms \in Seq(GoodUp) : /\ \A i \in DOMAIN ms : ms[i].type \in Answers
                                 /\ up' = Send(ms) \/ up' = up
  <1>1. executed[r] = 1 /\ (InjectEnds(r) \/ path[r] = "stream")
    BY DEF AnswerStep, InjectEnds, FetchStarts, ReadChunk, StreamEnds, AbortSettles, Aborted, IInv, ExecutedOnce
  <1> DEFINE Sayable == {t \in Answers : t = "http_response" \/ path[r] = "stream"}
  <1>2. \A t \in Sayable, n \in {0, 1} : Msg(t, r, n) \in GoodUp /\ Msg(t, r, n).type = t
    BY <1>1, AnswerUp, MsgFields DEF Answers
  <1>3. ASSUME NEW t \in Sayable, NEW n \in {0, 1}, up' = Send(<<Msg(t, r, n)>>)
        PROVE  \E ms \in Seq(GoodUp) : (\A i \in DOMAIN ms : ms[i].type \in Answers) /\ up' = Send(ms)
    <2>1. PICK ms : ms = <<Msg(t, r, n)>>
      OBVIOUS
    <2>2. ms \in Seq(GoodUp) /\ \A i \in DOMAIN ms : ms[i].type \in Answers
      BY <1>2, <2>1, OneMessage
    <2>3. QED
      BY <1>3, <2>1, <2>2
  <1>4. ASSUME path[r] = "stream",
               up' = Send(<<Msg("http_stream_start", r, 0), Msg("http_stream_end", r, 0)>>)
        PROVE  \E ms \in Seq(GoodUp) : (\A i \in DOMAIN ms : ms[i].type \in Answers) /\ up' = Send(ms)
    <2>1. PICK m, n : m = Msg("http_stream_start", r, 0) /\ n = Msg("http_stream_end", r, 0)
      OBVIOUS
    <2>2. m \in GoodUp /\ n \in GoodUp /\ m.type \in Answers /\ n.type \in Answers
      BY <1>2, <1>4, <2>1 DEF Answers, StreamTypes
    <2>3. PICK ms : ms = <<m, n>>
      OBVIOUS
    <2>4. ms \in Seq(GoodUp) /\ \A i \in DOMAIN ms : ms[i].type \in Answers
      BY <2>2, <2>3
    <2>5. QED
      BY <1>4, <2>1, <2>3, <2>4
  <1>5. \/ up' = up
        \/ \E t \in Sayable, n \in {0, 1} : up' = Send(<<Msg(t, r, n)>>)
        \/ /\ path[r] = "stream"
           /\ up' = Send(<<Msg("http_stream_start", r, 0), Msg("http_stream_end", r, 0)>>)
    <2>1. CASE InjectEnds(r)
      BY <2>1 DEF InjectEnds, Answers
    <2>2. ASSUME path[r] = "stream", AnswerStep(r)
          PROVE  \/ up' = up
                 \/ \E t \in Answers, n \in {0, 1} : up' = Send(<<Msg(t, r, n)>>)
                 \/ up' = Send(<<Msg("http_stream_start", r, 0), Msg("http_stream_end", r, 0)>>)
      BY <2>2 DEF AnswerStep, InjectEnds, FetchStarts, ReadChunk, StreamEnds, AbortSettles, Answers,
                  StreamTypes
    <2>3. QED
      BY <1>1, <2>1, <2>2
  <1>6. <<>> \in Seq(GoodUp) /\ \A i \in DOMAIN <<>> : <<>>[i].type \in Answers
    BY EmptySeq
  <1>7. QED
    BY <1>3, <1>4, <1>5, <1>6

LEMMA AnswerWires ==
  ASSUME IInv, Wires, NEW r \in Requests, AnswerStep(r)
  PROVE  Wires'
  <1>1. UNCHANGED <<pws, hws, down, cut, tunnel, ws, homeAuth, retryTimer, sessions>> /\ active' \subseteq active
    BY DEF AnswerStep, InjectEnds, FetchStarts, ReadChunk, StreamEnds, AbortSettles, manager, home
  <1>2. HomeSide'
    BY <1>1, HomeSideKept DEF Wires
  <1>3. PICK ms \in Seq(GoodUp) : NoMark(ms) /\ (up' = Send(ms) \/ up' = up)
    BY Answering DEF NoMark, Answers, StreamTypes
  <1>4. \A d \in Conns : UpShifts(d)
    BY <1>3, HomeSendsUp
  <1>5. \A d \in Conns : DownGrows(d) /\ EndShuts(d)
    BY <1>1 DEF DownGrows, EndShuts
  <1>6. QED
    BY <1>1, <1>2, <1>4, <1>5, WiresKept DEF IInv

\* The home's socket.
LEMMA HomeClosesWires ==
  ASSUME IInv, Wires, NEW c \in Conns, HomeCloses(c), UNCHANGED <<pws, down, cut, tunnel>>
  PROVE  /\ \A d \in Conns : Wire(d)'
         /\ \A d \in Conns : hws'[d] = IF d = c /\ hws[c] \in {"connecting", "open"} THEN "closing" ELSE hws[d]
  <1> USE DEF IInv
  <1>1. \A d \in Conns : hws'[d] = IF d = c /\ hws[c] \in {"connecting", "open"} THEN "closing" ELSE hws[d]
    BY DEF HomeCloses, LocalTypes
  <1>2. ASSUME NEW d \in Conns PROVE Wire(d)'
    <2>1. Wire(d)
      BY DEF Wires
    <2>2. CASE d = c /\ hws[c] \in {"connecting", "open"}
      <3>1. up'[c] = up[c] \/ (c \notin cut /\ up'[c] = up[c] \o <<Fin>>)
        BY <2>2, UpAt DEF HomeCloses
      <3>2. InTurn(up'[c])
        BY <2>1, <2>2, <3>1, InTurnFin, PlainUp, Channels DEF Wire
      <3>3. hws'[c] = "closing"
        BY <1>1, <2>2
      <3>4. c \in cut => up'[c] = <<>>
        BY <2>1, <2>2, <3>1 DEF Wire
      <3>5. QED
        BY <2>1, <2>2, <3>2, <3>3, <3>4 DEF Wire
    <2>3. CASE ~(d = c /\ hws[c] \in {"connecting", "open"})
      <3>1. up'[d] = up[d] /\ hws'[d] = hws[d]
        BY <1>1, <2>3, UpAt DEF HomeCloses
      <3>2. UpShifts(d) /\ DownGrows(d) /\ EndShuts(d)
        BY <3>1 DEF UpShifts, DownGrows, EndShuts
      <3>3. QED
        BY <2>1, <3>1, <3>2, WireKept
    <2>4. QED
      BY <2>2, <2>3
  <1>3. QED
    BY <1>1, <1>2

LEMMA HomeClosingWires ==
  ASSUME IInv, Wires,
         Stop \/ \E c \in Conns : HomeAuthTimeout(c) \/ HomeSocketError(c)
  PROVE  Wires'
  <1> USE DEF IInv
  <1>1. UNCHANGED <<pws, down, cut, tunnel, homeAuth>>
    BY DEF HomeAuthTimeout, HomeSocketError, Stop, manager, home
  <1>2. UNCHANGED <<hws, up>> \/ \E d \in Conns : HomeCloses(d)
    BY DEF HomeAuthTimeout, HomeSocketError, Stop, LocalTypes
  <1>3. \A d \in Conns : Wire(d)'
    <2>1. CASE UNCHANGED <<hws, up>>
      <3>1. \A d \in Conns : UpShifts(d) /\ DownGrows(d) /\ EndShuts(d)
        BY <1>1, <2>1 DEF UpShifts, DownGrows, EndShuts
      <3>2. QED
        BY <1>1, <2>1, <3>1, WireKept DEF Wires
    <2>2. QED
      BY <1>1, <1>2, <2>1, HomeClosesWires
  <1>4. \A d \in Conns : hws'[d] = hws[d] \/ (hws[d] \in {"connecting", "open"} /\ hws'[d] = "closing")
    BY <1>1, <1>2, HomeClosesWires
  <1>5. CASE Stop
    <2>1. ws' = None /\ active' = {} /\ sessions' = {} /\ retryTimer' = FALSE
      BY <1>5 DEF Stop
    <2>2. ASSUME NEW d \in Conns PROVE hws'[d] \notin {"connecting", "open"}
      <3>1. CASE ws = None
        <4>1. hws' = hws
          BY <1>5, <3>1 DEF Stop
        <4>2. d # None
          BY TunnelAssumption DEF Conns
        <4>3. QED
          BY <3>1, <4>1, <4>2 DEF Wires, HomeSide
      <3>2. CASE ws # None
        <4>1. ws \in Conns /\ HomeCloses(ws)
          BY <1>5, <3>2 DEF Stop, LocalTypes
        <4>2. hws'[d] = IF d = ws /\ hws[ws] \in {"connecting", "open"} THEN "closing" ELSE hws[d]
          BY <1>1, <4>1, HomeClosesWires
        <4>3. QED
          BY <4>2 DEF Wires, HomeSide
      <3>3. QED
        BY <3>1, <3>2
    <2>3. HomeSide'
      BY <2>1, <2>2 DEF HomeSide
    <2>4. QED
      BY <1>3, <2>3 DEF Wires
  <1>6. CASE \E c \in Conns : HomeAuthTimeout(c) \/ HomeSocketError(c)
    <2>1. UNCHANGED <<ws, retryTimer, active, sessions>>
      BY <1>6 DEF HomeAuthTimeout, HomeSocketError, home
    <2>2. ws # None => ws \in Conns
      BY DEF LocalTypes
    <2>3. HomeSide'
      BY <1>1, <1>4, <2>1, <2>2 DEF Wires, HomeSide, Live
    <2>4. QED
      BY <1>3, <2>3 DEF Wires
  <1>7. QED
    BY <1>5, <1>6

LEMMA HomeClosedWires ==
  ASSUME IInv, Wires, NEW c \in Conns, HomeClosed(c)
  PROVE  Wires'
  <1> USE DEF IInv
  <1>1. /\ hws[c] = "closing" /\ hws' = [hws EXCEPT ![c] = "closed"] /\ down' = [down EXCEPT ![c] = <<>>]
        /\ UNCHANGED <<pws, up, cut, tunnel>>
        /\ homeAuth' = FALSE /\ ws' = None /\ active' = {} /\ sessions' = {}
    BY DEF HomeClosed, manager
  <1>2. \A d \in Conns : hws'[d] \notin {"connecting", "open"}
    BY <1>1 DEF HomeOneSocket, LocalTypes
  <1>3. HomeSide'
    BY <1>1, <1>2 DEF HomeSide
  <1>4. ASSUME NEW d \in Conns PROVE Wire(d)'
    <2>1. Wire(d)
      BY DEF Wires
    <2>2. CASE d = c
      <3>1. hws'[c] = "closed" /\ down'[c] = <<>>
        BY <1>1, Channels DEF LocalTypes
      <3>2. QED
        BY <1>1, <2>1, <2>2, <3>1 DEF Wire
    <2>3. CASE d # c
      <3>1. hws'[d] = hws[d] /\ down'[d] = down[d]
        BY <1>1, <2>3, Channels DEF LocalTypes
      <3>2. UpShifts(d) /\ DownGrows(d) /\ EndShuts(d)
        BY <1>1, <3>1 DEF UpShifts, DownGrows, EndShuts
      <3>3. QED
        BY <1>1, <2>1, <3>1, <3>2, WireKept
    <2>4. QED
      BY <2>2, <2>3
  <1>5. QED
    BY <1>3, <1>4 DEF Wires

LEMMA ConnectWires ==
  ASSUME IInv, Wires, Connect
  PROVE  Wires'
  <1> USE DEF IInv
  <1>1. /\ retryTimer /\ ~homeAuth /\ active = {} /\ sessions = {}
        /\ \A d \in Conns : ~Live(d)
    BY DEF Connect, Wires, HomeSide, NoSocketMeanwhile
  <1>2. ws = None
    BY <1>1 DEF Wires, HomeSide, LocalTypes
  <1>3. PICK c \in Conns : /\ hws[c] = "none" /\ hws' = [hws EXCEPT ![c] = "connecting"]
                           /\ ws' = c /\ homeAuth' = FALSE /\ retryTimer' = FALSE
                           /\ UNCHANGED <<pws, up, down, cut, tunnel, active, sessions>>
    BY <1>2 DEF Connect, manager
  <1>4. hws' \in [Conns -> {"none", "connecting", "open", "closing", "closed"}] /\ hws'[c] = "connecting"
        /\ \A d \in Conns : d # c => hws'[d] = hws[d]
    BY <1>3 DEF LocalTypes
  <1>5. HomeSide'
    BY <1>1, <1>3, <1>4 DEF HomeSide, Live
  <1>6. ASSUME NEW d \in Conns PROVE Wire(d)'
    <2>1. Wire(d)
      BY DEF Wires
    <2>2. CASE d = c
      <3>1. pws[c] = "none" /\ up[c] = <<>> /\ down[c] = <<>>
        BY <1>3, <2>1, <2>2 DEF Wire
      <3>2. Opening(c)'
        BY <1>3, <3>1 DEF Opening
      <3>3. QED
        BY <1>3, <1>4, <2>1, <2>2, <3>1, <3>2 DEF Wire
    <2>3. CASE d # c
      <3>1. hws'[d] = hws[d]
        BY <1>4, <2>3
      <3>2. UpShifts(d) /\ DownGrows(d) /\ EndShuts(d)
        BY <1>3 DEF UpShifts, DownGrows, EndShuts
      <3>3. QED
        BY <1>3, <2>1, <3>1, <3>2, WireKept
    <2>4. QED
      BY <2>2, <2>3
  <1>7. QED
    BY <1>5, <1>6 DEF Wires

\* The wires after the home's process has ended.
LEMMA Restarted ==
  ASSUME Good, LocalTypes, HomeRestarts, NEW c \in Conns
  PROVE  /\ hws'[c] = IF Live(c) THEN "closed" ELSE hws[c]
         /\ up'[c] = up[c] \/ (Live(c) /\ c \notin cut /\ pws[c] \in {"open", "closing"} /\ up'[c] = up[c] \o <<Fin>>)
         /\ down'[c] = IF Live(c) THEN <<>> ELSE down[c]
         /\ pws'[c] = pws[c] /\ (c \in cut' <=> c \in cut) /\ tunnel' = tunnel
  <1>1. \A q : q \in Seq(GoodUp) => Append(q, Fin) = q \o <<Fin>>
    BY PlainUp, AppendIsConcat
  <1>2. QED
    BY <1>1, Channels DEF HomeRestarts, Live, LocalTypes, manager

LEMMA HomeRestartsWires ==
  ASSUME IInv, Wires, HomeRestarts
  PROVE  Wires'
  <1> USE DEF IInv
  <1>1. ASSUME NEW d \in Conns PROVE Wire(d)' /\ hws'[d] \notin {"connecting", "open"}
    <2>1. Wire(d)
      BY DEF Wires
    <2>2. /\ hws'[d] = IF Live(d) THEN "closed" ELSE hws[d]
          /\ up'[d] = up[d] \/ (Live(d) /\ d \notin cut /\ pws[d] \in {"open", "closing"} /\ up'[d] = up[d] \o <<Fin>>)
          /\ down'[d] = IF Live(d) THEN <<>> ELSE down[d]
          /\ pws'[d] = pws[d] /\ (d \in cut' <=> d \in cut) /\ tunnel' = tunnel
      BY Restarted
    <2>3. InTurn(up'[d])
      BY <2>1, <2>2, InTurnFin, PlainUp, Channels DEF Wire
    <2>4. hws'[d] \notin {"connecting", "open"}
      BY <2>2 DEF Live, LocalTypes
    <2>5. CASE Live(d)
      BY <2>1, <2>2, <2>3, <2>5 DEF Wire, Live
    <2>6. CASE ~Live(d)
      BY <2>1, <2>2, <2>3, <2>6 DEF Wire, Live
    <2>7. QED
      BY <2>4, <2>5, <2>6
  <1>2. HomeSide'
    BY <1>1 DEF HomeRestarts, HomeSide
  <1>3. QED
    BY <1>1, <1>2 DEF Wires

LEMMA BroadcastWires ==
  ASSUME IInv, Wires, Broadcast
  PROVE  Wires'
  <1>1. UNCHANGED <<pws, hws, down, cut, tunnel, home>>
    BY DEF Broadcast, manager
  <1>2. HomeSide'
    BY <1>1, HomeSideKept DEF Wires, home
  <1>3. PICK ms \in Seq(GoodUp) : NoMark(ms) /\ (up' = Send(ms) \/ up' = up)
    BY Broadcasted DEF NoMark
  <1>4. \A d \in Conns : UpShifts(d)
    BY <1>3, HomeSendsUp
  <1>5. \A d \in Conns : DownGrows(d) /\ EndShuts(d)
    BY <1>1 DEF DownGrows, EndShuts
  <1>6. QED
    BY <1>1, <1>2, <1>4, <1>5, WiresKept DEF IInv

\* The home reads.
LEMMA OpeningRead ==
  ASSUME Good, Wires, NEW c \in Conns, hws[c] = "connecting", HomeReceives(c)
  PROVE  Opened(c, Head(down[c])) /\ hws' = [hws EXCEPT ![c] = "open"]
  <1> DEFINE m == Head(down[c])
  <1>1. m.type = "opened"
    BY TailFacts, InTransit DEF HomeReceives, Wires, Wire, Opening
  <1>2. m # Fin
    BY <1>1 DEF Fin, Msg
  <1> HIDE DEF m
  <1>3. Opened(c, m)
    BY <1>1, <1>2 DEF HomeReceives, m, HandleMessage, HandleHttpRequest, HandleStreamCancel, HandleWsOpen, HandleWsClose,
                      Registered, IgnoredByHome
  <1>4. QED
    BY <1>3 DEF Opened, m

LEMMA HomeHears ==
  ASSUME IInv, Wires, NEW c \in Conns, HomeReceives(c)
  PROVE  /\ hws[c] \in {"connecting", "open", "closing"}
         /\ down[c] # <<>> /\ down' = [down EXCEPT ![c] = Tail(down[c])]
         /\ UNCHANGED <<pws, cut, manager, http, clients, ws, retryTimer, sent, version>>
         /\ \A d \in Conns : d # c => hws'[d] = hws[d]
         /\ hws'[c] = hws[c] \/ hws'[c] = "closing" \/ (hws[c] = "connecting" /\ hws'[c] = "open")
  BY DEF HomeReceives, HandleMessage, Registered, Opened, IgnoredByHome, IInv, LocalTypes

\* Once open, the home sends a snapshot to a new session, and nothing else.
LEMMA HomeReplies ==
  ASSUME IInv, NEW c \in Conns, hws[c] # "connecting", HomeReceives(c)
  PROVE  \/ up' = up
         \/ LET m == Head(down[c]) IN
              /\ HandleWsOpen(m) /\ m.id \in Sessions /\ m.id \notin sessions /\ homeAuth
              /\ up' = Send(<<Msg("ws_message", m.id, version)>>)
              /\ Msg("ws_message", m.id, version) \in GoodUp
  <1> DEFINE m == Head(down[c])
  <1>1. m \in GoodDown
    BY TailFacts, Channels DEF IInv, HomeReceives
  <1>2. CASE HandleWsOpen(m) /\ m.id \notin sessions /\ homeAuth
    <2>1. m.id \in Sessions /\ cauth[m.id] /\ version \in Nat
      BY <1>1, <1>2, DownFields DEF HandleWsOpen, IInv, LocalTypes
    <2>2. Msg("ws_message", m.id, version) \in GoodUp
      BY <2>1, SessionUp
    <2>3. up' = Send(<<Msg("ws_message", m.id, version)>>)
      BY <1>2 DEF HandleWsOpen, Snapshot
    <2>4. QED
      BY <1>2, <2>1, <2>2, <2>3
  <1>3. CASE ~(HandleWsOpen(m) /\ m.id \notin sessions /\ homeAuth)
    <2>1. up' = up
      BY <1>3 DEF HomeReceives, HandleMessage, HandleHttpRequest, HandleStreamCancel, HandleWsOpen, HandleWsClose,
                  Registered, Opened, IgnoredByHome
    <2>2. QED
      BY <2>1
  <1>4. QED
    BY <1>2, <1>3

LEMMA HomeReceivesWires ==
  ASSUME IInv, Wires, NEW c \in Conns, HomeReceives(c)
  PROVE  Wires'
  <1> USE DEF IInv
  <1>1. /\ hws[c] \in {"connecting", "open", "closing"}
        /\ down[c] # <<>> /\ down' = [down EXCEPT ![c] = Tail(down[c])]
        /\ UNCHANGED <<pws, cut, manager, http, clients, ws, retryTimer, sent, version>>
        /\ \A d \in Conns : d # c => hws'[d] = hws[d]
        /\ hws'[c] = hws[c] \/ hws'[c] = "closing" \/ (hws[c] = "connecting" /\ hws'[c] = "open")
    BY HomeHears
  <1>2. ~retryTimer
    BY <1>1 DEF NoSocketMeanwhile, Live
  <1>3. HomeSide'
    <2>1. CASE hws[c] = "connecting"
      <3>1. Opened(c, Head(down[c])) /\ hws' = [hws EXCEPT ![c] = "open"]
        BY <2>1, OpeningRead
      <3>2. UNCHANGED <<homeAuth, active, sessions>> /\ ws = c
        BY <2>1, <3>1 DEF Opened, Wires, HomeSide
      <3>3. QED
        BY <1>1, <1>2, <2>1, <3>1, <3>2 DEF Wires, HomeSide, Live, LocalTypes
    <2>2. CASE hws[c] # "connecting"
      <3>1. \A d \in Conns : hws'[d] = hws[d] \/ (d = c /\ hws'[d] = "closing")
        BY <1>1, <2>2
      <3>2. \A d \in Conns : hws[d] # "connecting"
        BY <1>1, <2>2 DEF HomeOneSocket
      <3>3. homeAuth \/ homeAuth' \/ UNCHANGED <<homeAuth, active, sessions>>
        BY DEF HomeReceives, HandleMessage, Registered, Opened, IgnoredByHome
      <3>4. homeAuth => homeAuth'
        BY DEF HomeReceives, HandleMessage, Registered, Opened, IgnoredByHome
      <3>5. ws # None => ws \in Conns
        BY DEF LocalTypes
      <3>6. QED
        BY <1>1, <1>2, <3>1, <3>2, <3>3, <3>4, <3>5 DEF Wires, HomeSide, Live
    <2>3. QED
      BY <2>1, <2>2
  <1>4. ASSUME NEW d \in Conns, hws[c] # "connecting" PROVE UpShifts(d)
    <2>1. CASE up' = up
      BY <2>1 DEF UpShifts
    <2>2. CASE \E s \in Sessions : /\ up' = Send(<<Msg("ws_message", s, version)>>)
                                 /\ Msg("ws_message", s, version) \in GoodUp
      <3>1. PICK s \in Sessions : /\ up' = Send(<<Msg("ws_message", s, version)>>)
                                 /\ Msg("ws_message", s, version) \in GoodUp
        BY <2>2
      <3>2. PICK m \in GoodUp : m.type = "ws_message" /\ up' = Send(<<m>>)
        BY <3>1, MsgFields
      <3>3. <<m>> \in Seq(GoodUp) /\ NoMark(<<m>>)
        BY <3>2, OneMessage DEF NoMark
      <3>4. QED
        BY <3>2, <3>3, HomeSendsUp
    <2>3. QED
      BY <1>4, <2>1, <2>2, HomeReplies
  <1>5. ASSUME NEW d \in Conns, d # c PROVE Wire(d)'
    <2>1. Wire(d)
      BY DEF Wires
    <2>2. hws'[d] = hws[d] /\ pws'[d] = pws[d] /\ down'[d] = down[d] /\ (d \in cut' <=> d \in cut) /\ tunnel' = tunnel
      BY <1>1, <1>5, Channels DEF manager
    <2>3. UpShifts(d)
      <3>1. CASE hws[c] = "connecting"
        <4>1. Opened(c, Head(down[c]))
          BY <3>1, OpeningRead
        <4>2. up'[d] = up[d]
          BY <1>5, <4>1, UpAt DEF Opened
        <4>3. QED
          BY <4>2 DEF UpShifts
      <3>2. QED
        BY <1>4, <3>1
    <2>4. DownGrows(d) /\ EndShuts(d)
      BY <2>2 DEF DownGrows, EndShuts
    <2>5. QED
      BY <2>1, <2>2, <2>3, <2>4, WireKept
  <1>6. Wire(c)'
    <2>1. Wire(c)
      BY DEF Wires
    <2>2. c \notin cut /\ pws[c] # "none" /\ UNCHANGED <<pws, cut, tunnel>>
      BY <1>1, <2>1 DEF Wire, manager
    <2>3. CASE hws[c] = "connecting"
      <3>1. Opened(c, Head(down[c])) /\ hws'[c] = "open" /\ up[c] = <<>>
        BY <2>1, <2>3, OpeningRead DEF LocalTypes, Wire
      <3>2. PICK m : m.type = "home_register" /\ up' = Up(c, <<m>>)
        BY <2>3, <3>1, MsgFields DEF Opened
      <3>3. up'[c] = <<>> \/ up'[c] = <<m>>
        BY <3>1, <3>2, UpAt
      <3>4. InTurn(up'[c]) /\ ~HasFin(up'[c])
        <4>1. InTurn(<<>>) /\ ~HasFin(<<>>)
          BY DEF InTurn, HasFin
        <4>2. InTurn(<<m>>) /\ ~HasFin(<<m>>)
          BY <3>2 DEF InTurn, HasFin
        <4>3. QED
          BY <3>3, <4>1, <4>2
      <3>5. QED
        BY <2>1, <2>2, <3>1, <3>4 DEF Wire, HasFin
    <2>4. CASE hws[c] # "connecting"
      <3>1. InTurn(up'[c]) /\ (HasFin(up'[c]) => hws[c] \in {"closing", "closed"})
        BY <1>4, <2>1, <2>4, UpKept
      <3>2. hws'[c] \in {"open", "closing"} /\ (hws'[c] = "open" => hws[c] = "open")
        BY <1>1, <2>4
      <3>3. QED
        BY <2>1, <2>2, <3>1, <3>2 DEF Wire, HasFin
    <2>5. QED
      BY <2>3, <2>4
  <1>7. QED
    BY <1>3, <1>5, <1>6 DEF Wires

LEMMA InitWires == Init => Wires
  <1> SUFFICES ASSUME Init PROVE Wires
    OBVIOUS
  <1>1. HomeSide
    BY DEF Init, HomeSide
  <1>2. ASSUME NEW c \in Conns PROVE Wire(c)
    <2>1. InTurn(<<>>)
      BY DEF InTurn
    <2>2. hws[c] = "none" /\ pws[c] = "none" /\ up[c] = <<>> /\ down[c] = <<>>
      BY DEF Init
    <2>3. QED
      BY <2>1, <2>2 DEF Wire
  <1>3. QED
    BY <1>1, <1>2 DEF Wires

LEMMA NextWires == IInv /\ Wires /\ [Next]_vars => Wires'
  <1> SUFFICES ASSUME IInv, Wires, [Next]_vars PROVE Wires'
    OBVIOUS
  <1>1. CASE \E c \in Conns : Cut(c) \/ ProxyTunnelStep(c) \/ HomeTunnelStep(c)
    <2>1. PICK c \in Conns : Cut(c) \/ ProxyTunnelStep(c) \/ HomeTunnelStep(c)
      BY <1>1
    <2>2. CASE Cut(c) \/ ProxyTunnelStep(c)
      BY <2>2, CutWires, AcceptWires, ProxyReceivesWires, ProxyAuthTimeoutWires, MissedPongWires, ProxyClosedWires
         DEF ProxyTunnelStep
    <2>3. CASE HomeTunnelStep(c)
      BY <2>3, HomeReceivesWires, HomeClosingWires, HomeClosedWires DEF HomeTunnelStep
    <2>4. QED
      BY <2>1, <2>2, <2>3
  <1>2. CASE \E r \in Requests : RequestStep(r) \/ AnswerStep(r)
    BY <1>2, RequestWires, AnswerWires
  <1>3. CASE \E s \in Sessions : ClientStep(s)
    BY <1>3, ClientWires
  <1>4. CASE Connect \/ Stop \/ HomeRestarts \/ Broadcast
    BY <1>4, ConnectWires, HomeClosingWires, HomeRestartsWires, BroadcastWires
  <1>5. CASE UNCHANGED vars
    BY <1>5, ProxySendsWires DEF vars, wire, manager
  <1>6. QED
    BY <1>1, <1>2, <1>3, <1>4, <1>5 DEF Next

-----------------------------------------------------------------------------
(* Every step keeps the invariant of the streams.                          *)

\* Messages of other kinds, and the end of what is in flight.
LEMMA StreamSpared ==
  ASSUME NEW r, Steady(r),
         \A c \in Conns : /\ Same(up'[c], up[c], Frames, r) \/ Lost(r, c)
                          /\ Serving(c) => Serving(c)' \/ Lost(r, c)
                          /\ Whole(c)' /\ Asked(r, c)' => Whole(c) /\ Asked(r, c),
         r \in active' /\ work'[r] = "read" => r \in active /\ work[r] = "read"
  PROVE  Undisturbed(r)
  <1>1. ASSUME NEW c \in Conns, Free(up[c], Frames, r) PROVE Free(up'[c], Frames, r)
    BY <1>1, FreeSame DEF Lost
  <1>2. \A c \in Conns : Spared(r, c)
    BY DEF Spared, Asked
  <1>3. QED
    BY <1>1, <1>2 DEF Undisturbed

\* A step of the proxy's that leaves the home alone.
LEMMA ProxySpares ==
  ASSUME NEW r, Steady(r), UNCHANGED <<hws, active, work>>,
         \A c \in Conns : /\ Same(up'[c], up[c], Frames, r) \/ Lost(r, c)
                          /\ Serving(c) => Serving(c)' \/ Lost(r, c)
                          /\ Whole(c)' => Whole(c)
                          /\ Free(down[c], {"http_request"}, r) => Free(down'[c], {"http_request"}, r)
  PROVE  Undisturbed(r)
  <1>1. \A c \in Conns : Whole(c)' /\ Asked(r, c)' => Whole(c) /\ Asked(r, c)
    BY DEF Asked
  <1>2. QED
    BY <1>1, StreamSpared

LEMMA SteadySame ==
  ASSUME NEW r, UNCHANGED <<sent, work, active, ws>>, got'[r] = got[r],
         entry'[r] \in {entry[r], "none"}, reply[r] # "idle" => reply'[r] # "idle",
         reply'[r] = "streamed" => reply[r] = "streamed",
         \A c \in Conns : Free(down[c], {"http_stream_cancel"}, r) => Free(down'[c], {"http_stream_cancel"}, r)
  PROVE  Steady(r)
  BY DEF Steady, Busy, Aborted

LEMMA SentFree ==
  ASSUME Good, LocalTypes, NEW m \in Message, NEW types, NEW x, ~Of(m, types, x), NEW d \in Conns,
         down'[d] = down[d] \/ down'[d] = SendToTunnel(<<m>>)[d], Free(down[d], types, x)
  PROVE  Free(down'[d], types, x)
  <1>1. CASE down'[d] = down[d]
    BY <1>1
  <1>2. PICK ms : ms = <<m>>
    OBVIOUS
  <1>3. ms \in Seq(Message) /\ Free(ms, types, x)
    BY <1>2, FreeOne
  <1>4. CASE down'[d] = down[d] \o ms
    BY <1>3, <1>4, FreeAppend, InTransit
  <1>5. QED
    BY <1>1, <1>2, <1>4, SendToTunnelAt

LEMMA SameAll ==
  ASSUME Good, NEW r
  PROVE  \A c \in Conns : Same(up[c], up[c], Frames, r)
  BY SameSelf, Channels

LEMMA CutStreams ==
  ASSUME IInv, IInv', Streams, NEW c \in Conns, Cut(c)
  PROVE  Streams'
  <1> USE DEF IInv
  <1>1. /\ up' = [up EXCEPT ![c] = <<>>] /\ down' = [down EXCEPT ![c] = <<>>] /\ cut' = cut \cup {c}
        /\ UNCHANGED <<pws, hws, authenticated, tunnel, entry, reply, got, sent, work, active, ws>>
    BY DEF Cut, manager, http, home, handling
  <1>2. ASSUME NEW r \in Requests PROVE Stream(r)'
    <2>1. \A d \in Conns : \A types : Free(down[d], types, r) => Free(down'[d], types, r)
      BY <1>1, FreeEmpty, Channels
    <2>2. Steady(r)
      BY <1>1, <2>1, SteadySame
    <2>3. ASSUME NEW d \in Conns
          PROVE  /\ Same(up'[d], up[d], Frames, r) \/ Lost(r, d)
                 /\ Serving(d)' = Serving(d) /\ (Whole(d)' => Whole(d))
      <3>1. CASE d = c
        BY <1>1, <3>1, FreeEmpty, Channels DEF Lost, Whole, Serving
      <3>2. CASE d # c
        BY <1>1, <3>2, SameAll, Channels DEF Whole, Serving
      <3>3. QED
        BY <3>1, <3>2
    <2>4. Undisturbed(r)
      BY <1>1, <2>1, <2>2, <2>3, ProxySpares
    <2>5. QED
      BY <2>4, StreamKept DEF Streams
  <1>3. QED
    BY <1>2 DEF Streams

LEMMA Handshake ==
  ASSUME Good, NEW c \in Conns, Accept(c), NEW t \in {"http_stream_cancel", "http_request"}, NEW x
  PROVE  Free(down'[c], {t}, x)
  <1>1. PICK m : m = Msg("opened", None, 0)
    OBVIOUS
  <1>2. ~Of(m, {t}, x) /\ ~Of(Fin, {t}, x)
    BY <1>1, MsgFields DEF Of, Fin
  <1>3. Free(<<m, Fin>>, {t}, x) /\ Free(<<m>>, {t}, x)
    BY <1>2 DEF Free
  <1>4. down'[c] = <<m, Fin>> \/ down'[c] = <<m>>
    BY <1>1, Channels DEF Accept
  <1>5. QED
    BY <1>3, <1>4

LEMMA AcceptStreams ==
  ASSUME IInv, IInv', Wires, Streams, NEW c \in Conns, Accept(c)
  PROVE  Streams'
  <1> USE DEF IInv
  <1>1. /\ pws[c] = "none" /\ c \notin cut
        /\ UNCHANGED <<hws, up, cut, entry, reply, got, sent, work, active, ws>>
    BY DEF Accept, http, home, handling
  <1>2. /\ \A d \in Conns : d # c => pws'[d] = pws[d] /\ down'[d] = down[d]
        /\ pws'[c] \in {"open", "closed"}
        /\ \A d \in Conns : Serving(d) => Serving(d)'
    <2>1. \E p \in {"open", "closed"} : pws' = [pws EXCEPT ![c] = p]
      BY DEF Accept
    <2>2. \A d \in Conns : d # c => pws'[d] = pws[d] /\ down'[d] = down[d]
      <3>1. \A d \in Conns : d # c => pws'[d] = pws[d]
        BY <2>1 DEF LocalTypes
      <3>2. \A d \in Conns : d # c => down'[d] = down[d]
        BY Channels DEF Accept
      <3>3. QED
        BY <3>1, <3>2
    <2>3. pws'[c] \in {"open", "closed"}
      BY <2>1 DEF LocalTypes
    <2>4. ASSUME NEW d \in Conns, Serving(d) PROVE Serving(d)'
      <3>1. tunnel # None /\ pws[tunnel] = "open"
        BY <2>4, TunnelAssumption DEF Serving, Conns
      <3>2. UNCHANGED <<tunnel, authenticated>>
        BY <3>1 DEF Accept, manager
      <3>3. d # c
        BY <1>1, <2>4 DEF Serving
      <3>4. QED
        BY <2>2, <2>4, <3>2, <3>3 DEF Serving
    <2>5. QED
      BY <2>2, <2>3, <2>4
  <1>3. ASSUME NEW r \in Requests PROVE Stream(r)'
    <2>1. \A d \in Conns : Free(down[d], {"http_stream_cancel"}, r) => Free(down'[d], {"http_stream_cancel"}, r)
      BY <1>2, Handshake DEF Accept
    <2>2. \A d \in Conns : Free(down[d], {"http_request"}, r) => Free(down'[d], {"http_request"}, r)
      BY <1>2, Handshake DEF Accept
    <2>3. Steady(r)
      BY <1>1, <2>1, SteadySame
    <2>4. \A d \in Conns : Whole(d)' => Whole(d)
      BY <1>1, <1>2 DEF Whole
    <2>5. Undisturbed(r)
      BY <1>1, <1>2, <2>2, <2>3, <2>4, SameAll, ProxySpares
    <2>6. QED
      BY <2>5, StreamKept DEF Streams
  <1>4. QED
    BY <1>3 DEF Streams

LEMMA FinSends ==
  ASSUME Good, LocalTypes, NEW c \in Conns, (pws[c] = "open" /\ down' = Down(c, <<Fin>>)) \/ UNCHANGED down,
         NEW t \in {"http_stream_cancel", "http_request"}, NEW x, NEW d \in Conns, Free(down[d], {t}, x)
  PROVE  Free(down'[d], {t}, x)
  <1>1. PICK ms \in Seq(Message) : ms = <<Fin>>
    BY Sendable
  <1>2. ~Of(Fin, {t}, x)
    BY MsgFields DEF Of, Fin
  <1>3. Free(ms, {t}, x)
    BY <1>1, <1>2, FreeOne
  <1>4. down' = Down(c, ms) \/ down' = down
    BY <1>1
  <1>5. down'[d] = down[d] \/ down'[d] = down[d] \o ms
    BY <1>4, DownAt
  <1>6. down[d] \in Seq(Message)
    BY InTransit
  <1>7. QED
    BY <1>3, <1>5, <1>6, FreeAppend

LEMMA ProxyAuthTimeoutStreams ==
  ASSUME IInv, IInv', Streams, NEW c \in Conns, ProxyAuthTimeout(c)
  PROVE  Streams'
  <1> USE DEF IInv
  <1>1. /\ UNCHANGED <<hws, up, cut, authenticated, tunnel, entry, reply, got, sent, work, active, ws>>
        /\ UNCHANGED pws \/ (~authenticated /\ \A d \in Conns : pws'[d] = pws[d] \/ (pws[d] = "open" /\ pws'[d] = "closing"))
        /\ (pws[c] = "open" /\ down' = Down(c, <<Fin>>)) \/ UNCHANGED down
    BY DEF ProxyAuthTimeout, ProxyCloses, http, home, handling, LocalTypes
  <1>2. ASSUME NEW r \in Requests PROVE Stream(r)'
    <2>1. \A d \in Conns, t \in {"http_stream_cancel", "http_request"} :
            Free(down[d], {t}, r) => Free(down'[d], {t}, r)
      BY <1>1, FinSends
    <2>2. Steady(r)
      BY <1>1, <2>1, SteadySame
    <2>3. \A d \in Conns : (Serving(d) => Serving(d)') /\ (Whole(d)' => Whole(d))
      BY <1>1 DEF Serving, Whole
    <2>4. Undisturbed(r)
      BY <1>1, <2>1, <2>2, <2>3, SameAll, ProxySpares
    <2>5. QED
      BY <2>4, StreamKept DEF Streams
  <1>3. QED
    BY <1>2 DEF Streams

LEMMA MissedPongStreams ==
  ASSUME IInv, IInv', Streams, NEW c \in Conns, MissedPong(c)
  PROVE  Streams'
  <1> USE DEF IInv
  <1>1. /\ UNCHANGED <<hws, cut, authenticated, tunnel, entry, reply, got, sent, work, active, ws>>
        /\ pws[c] = "open" /\ pws' = [pws EXCEPT ![c] = "dead"] /\ up' = [up EXCEPT ![c] = <<>>]
        /\ down' = Down(c, <<Fin>>)
    BY DEF MissedPong, manager, http, home, handling
  <1>2. ASSUME NEW r \in Requests PROVE Stream(r)'
    <2>1. \A d \in Conns, t \in {"http_stream_cancel", "http_request"} :
            Free(down[d], {t}, r) => Free(down'[d], {t}, r)
      BY <1>1, FinSends
    <2>2. Steady(r)
      BY <1>1, <2>1, SteadySame
    <2>3. ASSUME NEW d \in Conns
          PROVE  /\ Same(up'[d], up[d], Frames, r) \/ Lost(r, d)
                 /\ Serving(d) => Serving(d)' \/ Lost(r, d)
                 /\ Whole(d)' => Whole(d)
      <3>1. CASE d = c
        <4>1. up'[c] = <<>> /\ pws'[c] = "dead"
          BY <1>1, Channels DEF LocalTypes
        <4>2. QED
          BY <3>1, <4>1, FreeEmpty DEF Lost, Whole
      <3>2. CASE d # c
        <4>1. up'[d] = up[d] /\ pws'[d] = pws[d]
          BY <1>1, <3>2, Channels DEF LocalTypes
        <4>2. QED
          BY <1>1, <4>1, SameAll DEF Whole, Serving
      <3>3. QED
        BY <3>1, <3>2
    <2>4. Undisturbed(r)
      BY <1>1, <2>1, <2>2, <2>3, ProxySpares
    <2>5. QED
      BY <2>4, StreamKept DEF Streams
  <1>3. QED
    BY <1>2 DEF Streams

LEMMA ProxyClosedStreams ==
  ASSUME IInv, IInv', Streams, NEW c \in Conns, ProxyClosed(c)
  PROVE  Streams'
  <1> USE DEF IInv
  <1>1. /\ UNCHANGED <<hws, down, cut, got, sent, work, active, ws>>
        /\ up' = [up EXCEPT ![c] = <<>>] /\ entry' = [r \in Requests |-> "none"]
        /\ reply' = [r \in Requests |-> IF Rejects(r) THEN "502" ELSE reply[r]]
    BY DEF ProxyClosed, NoPending, home, handling
  <1>2. ASSUME NEW r \in Requests PROVE Stream(r)'
    <2>1. entry'[r] = "none" /\ reply'[r] \in {reply[r], "502"}
      BY <1>1
    <2>2. Steady(r)
      BY <1>1, <2>1, SteadySame
    <2>3. \A d \in Conns : Free(up[d], Frames, r) => Free(up'[d], Frames, r)
      BY <1>1, FreeEmpty, Channels
    <2>4. Undisturbed(r)
      BY <2>1, <2>2, <2>3 DEF Undisturbed
    <2>5. QED
      BY <2>4, StreamKept DEF Streams
  <1>3. QED
    BY <1>2 DEF Streams

LEMMA ClientStreams ==
  ASSUME IInv, IInv', Streams, NEW s \in Sessions, ClientStep(s)
  PROVE  Streams'
  <1> USE DEF IInv
  <1>1. UNCHANGED <<pws, hws, up, cut, authenticated, tunnel, entry, reply, got, sent, work, active, ws>>
    BY DEF ClientStep, ClientConnects, Authenticate, Verified, NotVerified, ClientLeaves, ClientClosed,
           wire, manager, http, home, handling
  <1>2. \/ down' = down
        \/ \E m \in Message : m.type \in {"ws_open", "ws_close"} /\ down' = SendToTunnel(<<m>>)
    <2>1. Msg("ws_open", s, 0) \in Message /\ Msg("ws_close", s, 0) \in Message
      BY DEF Msg, Message, MsgType
    <2>2. \/ down' = down
          \/ down' = SendToTunnel(<<Msg("ws_open", s, 0)>>)
          \/ down' = SendToTunnel(<<Msg("ws_close", s, 0)>>)
      BY DEF ClientStep, ClientConnects, Authenticate, Verified, NotVerified, ClientLeaves, ClientClosed, wire
    <2>3. QED
      BY <2>1, <2>2, MsgFields
  <1>3. ASSUME NEW r \in Requests PROVE Stream(r)'
    <2>1. \A d \in Conns, t \in {"http_stream_cancel", "http_request"} :
            Free(down[d], {t}, r) => Free(down'[d], {t}, r)
      BY <1>2, SentFree DEF Of
    <2>2. Steady(r)
      BY <1>1, <2>1, SteadySame
    <2>3. Undisturbed(r)
      BY <1>1, <2>1, <2>2, SameAll, ProxySpares DEF Serving, Whole
    <2>4. QED
      BY <2>3, StreamKept DEF Streams
  <1>4. QED
    BY <1>3 DEF Streams

LEMMA RequestTimeoutStreams ==
  ASSUME IInv, IInv', Streams, NEW q \in Requests, RequestTimeout(q)
  PROVE  Streams'
  <1> USE DEF IInv
  <1>1. /\ UNCHANGED <<pws, hws, up, down, cut, authenticated, tunnel, got, sent, work, active, ws>>
        /\ \A r \in Requests : entry'[r] \in {entry[r], "none"} /\ reply'[r] \in {reply[r], "502"}
    BY DEF RequestTimeout, wire, manager, home, handling, LocalTypes
  <1>2. ASSUME NEW r \in Requests PROVE Stream(r)'
    <2>1. Steady(r)
      BY <1>1, SteadySame
    <2>2. Undisturbed(r)
      BY <1>1, <2>1, SameAll, ProxySpares DEF Serving, Whole
    <2>3. QED
      BY <2>2, StreamKept DEF Streams
  <1>3. QED
    BY <1>2 DEF Streams

\* A new request has no stream yet: the home has not received it.
LEMMA Untouched ==
  ASSUME IInv, NEW r \in Requests, reply[r] = "idle", Stream(r), NEW c \in Conns
  PROVE  /\ entry[r] = "none" /\ work[r] = "none" /\ r \notin active /\ sent[r] = 0 /\ got[r] = 0
         /\ Free(up[c], Frames, r) /\ Free(down[c], {"http_request"}, r)
         /\ Free(down[c], {"http_stream_cancel"}, r)
  <1> USE DEF IInv
  <1>1. entry[r] = "none" /\ work[r] = "none"
    BY DEF EntryWaits, ExecutedOnce
  <1>2. r \notin active /\ sent[r] = 0 /\ got[r] = 0 /\ Free(up[c], Frames, r)
    BY <1>1 DEF Stream, Busy, Unsent
  <1>3. Free(down[c], {"http_stream_cancel"}, r)
    BY DEF Stream, Cancelled, Over
  <1>4. ASSUME NEW i \in DOMAIN down[c], Of(down[c][i], {"http_request"}, r) PROVE FALSE
    <2>1. down[c][i] \in GoodDown
      BY SeqFacts, Channels
    <2>2. Pending(r)
      BY <1>4, <2>1, DownFields DEF Of
    <2>3. QED
      BY <2>2 DEF Pending
  <1>5. QED
    BY <1>1, <1>2, <1>3, <1>4 DEF Free

LEMMA HttpRequestStreams ==
  ASSUME IInv, IInv', Streams, NEW q \in Requests, HttpRequest(q)
  PROVE  Streams'
  <1> USE DEF IInv
  <1>1. /\ reply[q] = "idle" /\ Stream(q)
        /\ UNCHANGED <<pws, hws, up, cut, authenticated, tunnel, got, sent, work, active, ws>>
        /\ \A r \in Requests : r # q => entry'[r] = entry[r] /\ reply'[r] = reply[r]
        /\ \/ down' = down /\ entry'[q] = entry[q]
           \/ IsConnected /\ down' = SendToTunnel(<<Msg("http_request", q, 0)>>)
        /\ reply'[q] \in {"waiting", "503"}
    BY DEF HttpRequest, NewEntry, manager, home, handling, LocalTypes, Streams
  <1>2. PICK m \in Message : m = Msg("http_request", q, 0) /\ m.type = "http_request" /\ m.id = q
    <2>1. Msg("http_request", q, 0) \in Message
      BY DEF Msg, Message, MsgType
    <2>2. QED
      BY <2>1, MsgFields
  <1>3. \A d \in Conns : down'[d] = down[d] \/ (down'[d] = SendToTunnel(<<m>>)[d] /\ IsConnected)
    BY <1>1, <1>2
  <1>4. ASSUME NEW r \in Requests, r # q PROVE Stream(r)'
    <2>1. \A d \in Conns, t \in {"http_stream_cancel", "http_request"} :
            Free(down[d], {t}, r) => Free(down'[d], {t}, r)
      BY <1>2, <1>3, <1>4, SentFree DEF Of
    <2>2. Steady(r)
      BY <1>1, <1>4, <2>1, SteadySame
    <2>3. Undisturbed(r)
      BY <1>1, <2>1, <2>2, SameAll, ProxySpares DEF Serving, Whole
    <2>4. QED
      BY <2>3, StreamKept DEF Streams
  <1>5. Stream(q)'
    <2>1. /\ work[q] = "none" /\ q \notin active /\ sent[q] = 0 /\ got[q] = 0
          /\ \A c \in Conns : Free(up[c], Frames, q) /\ Free(down[c], {"http_request"}, q)
                              /\ Free(down[c], {"http_stream_cancel"}, q)
      <3>1. CASE Conns # {}
        BY <1>1, <3>1, Untouched
      <3>2. CASE Conns = {}
        BY <1>1, <3>2 DEF EntryWaits, ExecutedOnce, Stream, Busy, Unsent
      <3>3. QED
        BY <3>1, <3>2
    <2>2. ASSUME NEW c \in Conns PROVE Carries(q, c)'
      <3>1. Free(up'[c], Frames, q) /\ q \notin active'
        BY <1>1, <2>1
      <3>2. ASSUME ~Free(down'[c], {"http_request"}, q) PROVE Serving(c)'
        <4>1. down'[c] # down[c] /\ down'[c] = SendToTunnel(<<m>>)[c] /\ IsConnected
          BY <1>3, <2>1, <3>2
        <4>2. c = tunnel /\ pws[c] = "open"
          BY <4>1, SendToTunnelAt
        <4>3. QED
          BY <1>1, <4>1, <4>2 DEF IsConnected, Serving
      <3>3. Ordered(up'[c], q, entry'[q]) /\ Ended(up'[c], q, work'[q], got'[q], sent'[q])
        BY <3>1, SubFrames DEF Ordered, Ended, Free
      <3>4. QED
        BY <3>1, <3>2, <3>3 DEF Carries, Asked
    <2>3. \A c \in Conns : Free(down'[c], {"http_stream_cancel"}, q)
      BY <1>2, <1>3, <2>1, SentFree DEF Of
    <2>4. Unsent(q)' /\ Busy(q)' /\ Complete(q)' /\ ~Aborted(q)'
      BY <1>1, <2>1 DEF Unsent, Busy, Complete, Aborted
    <2>5. QED
      BY <2>2, <2>3, <2>4 DEF Stream, Carried, Cancelled
  <1>6. QED
    BY <1>4, <1>5 DEF Streams

LEMMA ClientGoneStreams ==
  ASSUME IInv, IInv', Streams, NEW q \in Requests, ClientGone(q)
  PROVE  Streams'
  <1> USE DEF IInv
  <1>1. /\ reply[q] # "idle"
        /\ UNCHANGED <<pws, hws, up, cut, authenticated, tunnel, reply, got, sent, work, active, ws>>
        /\ \A r \in Requests : r # q => entry'[r] = entry[r]
        /\ \/ down' = down /\ entry'[q] = entry[q]
           \/ entry'[q] = "none" /\ down' = SendToTunnel(<<Msg("http_stream_cancel", q, 0)>>)
    BY DEF ClientGone, manager, home, handling, LocalTypes
  <1>2. PICK m \in Message : m = Msg("http_stream_cancel", q, 0) /\ m.type = "http_stream_cancel" /\ m.id = q
    <2>1. Msg("http_stream_cancel", q, 0) \in Message
      BY DEF Msg, Message, MsgType
    <2>2. QED
      BY <2>1, MsgFields
  <1>3. \A d \in Conns : down'[d] = down[d] \/ down'[d] = SendToTunnel(<<m>>)[d]
    BY <1>1, <1>2
  <1>4. ASSUME NEW r \in Requests, r # q \/ down' = down PROVE Stream(r)'
    <2>1. \A d \in Conns, t \in {"http_stream_cancel", "http_request"} :
            Free(down[d], {t}, r) => Free(down'[d], {t}, r)
      BY <1>2, <1>3, <1>4, SentFree DEF Of
    <2>2. Steady(r)
      BY <1>1, <1>4, <2>1, SteadySame
    <2>3. Undisturbed(r)
      BY <1>1, <2>1, <2>2, SameAll, ProxySpares DEF Serving, Whole
    <2>4. QED
      BY <2>3, StreamKept DEF Streams
  <1>5. CASE entry'[q] = "none"
    <2>1. Stream(q)
      BY DEF Streams
    <2>2. Over(q)'
      BY <1>1, <1>5 DEF Over
    <2>3. Carried(q)' /\ Cancelled(q)'
      BY <1>5, <2>2 DEF Carried, Cancelled
    <2>4. Unsent(q)' /\ Busy(q)' /\ Complete(q)'
      BY <1>1, <2>1 DEF Stream, Unsent, Busy, Complete
    <2>5. Stream(q)'
      BY <2>3, <2>4 DEF Stream
    <2>6. QED
      BY <1>4, <2>5 DEF Streams
  <1>6. QED
    BY <1>1, <1>4, <1>5 DEF Streams

LEMMA ProxyReads ==
  ASSUME IInv, NEW c \in Conns, ProxyReceives(c)
  PROVE  /\ pws[c] \in {"open", "closing"} /\ up[c] # <<>> /\ up' = [up EXCEPT ![c] = Tail(up[c])]
         /\ UNCHANGED <<hws, cut, cws, cauth, verifying, home, handling, version, tunnel>>
         /\ up[c] \in Seq(GoodUp) /\ Head(up[c]) = up[c][1] /\ Head(up[c]) \in GoodUp
         /\ up'[c] = Tail(up[c]) /\ \A d \in Conns : d # c => up'[d] = up[d]
  <1>1. /\ pws[c] \in {"open", "closing"} /\ up[c] # <<>> /\ up' = [up EXCEPT ![c] = Tail(up[c])]
        /\ UNCHANGED <<hws, cut, cws, cauth, verifying, home, handling, version, tunnel>>
    BY DEF ProxyReceives, Register, HandleTunnelMessage, IgnoredByProxy, manager
  <1>2. up[c] \in Seq(GoodUp) /\ Head(up[c]) = up[c][1] /\ Head(up[c]) \in GoodUp
    BY <1>1, TailFacts, Channels DEF IInv
  <1>3. up'[c] = Tail(up[c]) /\ \A d \in Conns : d # c => up'[d] = up[d]
    BY <1>1, Channels DEF IInv
  <1>4. QED
    BY <1>1, <1>2, <1>3

\* The end of a connection is all that is left of it, and the home's end was closing.
LEMMA FinRead ==
  ASSUME IInv, Wires, NEW c \in Conns, ProxyReceives(c), Head(up[c]).type = "fin"
  PROVE  /\ \A types, x : "fin" \notin types => Free(up'[c], types, x)
         /\ hws[c] \in {"closing", "closed"}
  <1>1. InTurn(up[c]) /\ (HasFin(up[c]) => hws[c] \in {"closing", "closed"})
    BY DEF Wires, Wire, HasFin
  <1>2. \A i \in DOMAIN up[c] : up[c][i].type = "fin"
    BY <1>1, ProxyReads, InTurnTail
  <1>3. HasFin(up[c])
    BY <1>2, TailFacts, ProxyReads DEF HasFin
  <1>4. \A i \in DOMAIN up'[c] : up'[c][i].type = "fin"
    <2>1. up[c] \in Seq(GoodUp) /\ up[c] # <<>> /\ up'[c] = Tail(up[c])
      BY ProxyReads
    <2>2. QED
      BY <1>2, <2>1, TailFacts
  <1>5. QED
    BY <1>1, <1>3, <1>4 DEF Free, Of

\* What reading a message does to the proxy's end, by the kind of the message.
LEMMA ReadCases ==
  ASSUME IInv, NEW c \in Conns, ProxyReceives(c)
  PROVE  LET m == Head(up[c]) IN
           \/ /\ m.type = "fin" /\ pws' = [pws EXCEPT ![c] = "closing"]
              /\ UNCHANGED <<down, manager, http, view>>
           \/ Register(c, m)
           \/ UNCHANGED <<pws, down, manager>> /\ authenticated /\ HandleTunnelMessage(m)
           \/ IgnoredByProxy(m)
  BY MsgFields DEF ProxyReceives, HandleTunnelMessage, Fin

\* The proxy reads a message that is none of r's stream.
LEMMA OtherRead ==
  ASSUME IInv, Wires, NEW c \in Conns, ProxyReceives(c), NEW r \in Requests, ~Of(Head(up[c]), Frames, r)
  PROVE  Undisturbed(r)
  <1> USE DEF IInv
  <1> DEFINE m == Head(up[c])
  <1>1. /\ up[c] # <<>> /\ up'[c] = Tail(up[c]) /\ up[c] \in Seq(GoodUp) /\ m \in GoodUp
        /\ \A d \in Conns : d # c => up'[d] = up[d]
        /\ UNCHANGED <<hws, cut, sent, work, active, ws, tunnel>>
    BY ProxyReads DEF home, handling
  <1>2. \A d \in Conns : Same(up'[d], up[d], Frames, r)
    <2>1. Same(Tail(up[c]), up[c], Frames, r)
      BY <1>1, SameTail
    <2>2. QED
      BY <1>1, <2>1, SameAll
  <1>3. /\ entry'[r] \in {entry[r], "none"} /\ got'[r] = got[r]
        /\ reply'[r] = reply[r] \/ (reply[r] # "idle" /\ reply'[r] = "ok")
    <2>1. CASE UNCHANGED http
      BY <2>1 DEF http
    <2>2. CASE HttpResponse(m)
      BY <2>2 DEF HttpResponse, Replied, LocalTypes
    <2>3. CASE WsMessage(m)
      BY <2>3 DEF WsMessage
    <2>4. CASE HttpStreamStart(m) \/ HttpStreamChunk(m) \/ HttpStreamEnd(m)
      <3>1. m.id # r
        BY <2>4 DEF HttpStreamStart, HttpStreamChunk, HttpStreamEnd, Of, Frames, Start, Chunk, End
      <3>2. QED
        BY <2>4, <3>1 DEF HttpStreamStart, HttpStreamChunk, HttpStreamEnd, Replied, LocalTypes
    <2>5. QED
      BY <2>1, <2>2, <2>3, <2>4, ReadCases DEF Register, HandleTunnelMessage, IgnoredByProxy
  <1>4. ASSUME NEW d \in Conns, NEW t \in {"http_stream_cancel", "http_request"}, Free(down[d], {t}, r)
        PROVE  Free(down'[d], {t}, r)
    <2>1. CASE down' = down
      BY <1>4, <2>1
    <2>2. CASE ProxyCloses(c)
      BY <1>4, <2>2, FinSends DEF ProxyCloses
    <2>3. CASE down' = SendToTunnel(<<Msg("home_registered", None, 0)>>)
      <3>1. PICK h \in Message : h.type = "home_registered" /\ down' = SendToTunnel(<<h>>)
        <4>1. Msg("home_registered", None, 0) \in Message
          BY DEF Msg, Message, MsgType
        <4>2. QED
          BY <2>3, <4>1, MsgFields
      <3>2. QED
        BY <1>4, <3>1, SentFree DEF Of
    <2>4. QED
      BY <2>1, <2>2, <2>3, ReadCases DEF Register, IgnoredByProxy
  <1>5. ASSUME NEW d \in Conns
        PROVE  /\ Serving(d) => Serving(d)' \/ Lost(r, d)
               /\ Whole(d)' => Whole(d)
    <2>1. CASE UNCHANGED <<pws, manager>>
      BY <1>1, <2>1 DEF Serving, Whole, manager
    <2>2. CASE Register(c, m)
      <3>1. ~authenticated
        BY <2>2 DEF Register
      <3>2. pws'[d] = pws[d] \/ (pws[d] = "open" /\ pws'[d] = "closing")
        BY <2>2 DEF Register, ProxyCloses, LocalTypes
      <3>3. QED
        BY <1>1, <3>1, <3>2 DEF Serving, Whole
    <2>3. CASE m.type = "fin" /\ pws' = [pws EXCEPT ![c] = "closing"] /\ UNCHANGED manager
      <3>1. Free(up'[c], Frames, r) /\ hws[c] \in {"closing", "closed"}
        BY <2>3, FinRead DEF Frames, Start, Chunk, End
      <3>2. Lost(r, c)
        BY <1>1, <3>1 DEF Lost, Whole
      <3>3. d # c => pws'[d] = pws[d]
        BY <2>3 DEF LocalTypes
      <3>4. pws[c] \in {"open", "closing"}
        BY ProxyReads
      <3>5. QED
        BY <1>1, <2>3, <3>1, <3>2, <3>3, <3>4 DEF Serving, Whole, manager
    <2>4. QED
      BY <2>1, <2>2, <2>3, ReadCases DEF IgnoredByProxy
  <1>6. Steady(r)
    BY <1>1, <1>3, <1>4, SteadySame
  <1>7. QED
    BY <1>1, <1>2, <1>4, <1>5, <1>6, ProxySpares

\* The proxy reads a frame of r.  Without an entry nothing comes of it.
LEMMA StaleRead ==
  ASSUME IInv, NEW c \in Conns, ProxyReceives(c), NEW r \in Requests, Of(Head(up[c]), Frames, r), entry[r] = "none"
  PROVE  Undisturbed(r)
  <1> USE DEF IInv
  <1> DEFINE m == Head(up[c])
  <1>1. m.id = r /\ m.type \in {"http_stream_start", "http_stream_chunk", "http_stream_end"}
    BY DEF Of, Frames, Start, Chunk, End
  <1>2. entry'[r] = "none" /\ got'[r] = got[r] /\ reply'[r] = reply[r] /\ UNCHANGED down
    <2>1. CASE UNCHANGED <<http, down>>
      BY <2>1 DEF http
    <2>2. CASE (HttpStreamStart(m) \/ HttpStreamChunk(m) \/ HttpStreamEnd(m)) /\ UNCHANGED down
      BY <1>1, <2>2 DEF HttpStreamStart, HttpStreamChunk, HttpStreamEnd, LocalTypes
    <2>3. QED
      BY <1>1, <2>1, <2>2, ReadCases DEF Register, HandleTunnelMessage, IgnoredByProxy, HttpResponse, WsMessage
  <1>3. UNCHANGED <<sent, work, active, ws>>
    BY ProxyReads DEF home, handling
  <1>4. Steady(r)
    BY <1>2, <1>3, SteadySame
  <1>5. \A d \in Conns : Free(up[d], Frames, r) => Free(up'[d], Frames, r)
    BY ProxyReads, FreeTail
  <1>6. QED
    BY <1>2, <1>4, <1>5 DEF Undisturbed

\* With one it is the tunnel's, and the stream goes on.
LEMMA FrameRead ==
  ASSUME IInv, NEW c \in Conns, ProxyReceives(c), NEW r \in Requests, Of(Head(up[c]), Frames, r), entry[r] # "none",
         Stream(r)
  PROVE  Stream(r)'
  <1> USE DEF IInv
  <1> DEFINE m == Head(up[c])
  <1>1. m.id = r /\ m.type \in {"http_stream_start", "http_stream_chunk", "http_stream_end"}
    BY DEF Of, Frames, Start, Chunk, End
  <1>2. /\ up[c] # <<>> /\ up'[c] = Tail(up[c]) /\ up[c] \in Seq(GoodUp) /\ m \in GoodUp
        /\ \A d \in Conns : d # c => up'[d] = up[d]
        /\ UNCHANGED <<hws, cut, sent, work, active, ws, tunnel>>
    BY ProxyReads DEF home, handling
  <1>3. ~Free(up[c], Frames, r)
    BY <1>2, FreeTail
  <1>4. Serving(c) /\ \A d \in Conns : Carries(r, d)
    BY <1>3 DEF Stream, Carried, Carries
  <1>5. /\ UNCHANGED <<pws, down, authenticated>>
        /\ HttpStreamStart(m) \/ HttpStreamChunk(m) \/ HttpStreamEnd(m)
    BY <1>1, <1>4, ReadCases DEF Register, HandleTunnelMessage, IgnoredByProxy, HttpResponse, WsMessage, Serving, manager
  <1>6. work[r] \notin {"none", "inject", "fetch"} /\ Busy(r)'
    BY <1>2, <1>3 DEF Stream, Unsent, Busy
  <1>7. /\ \A d \in Conns : Free(down'[d], {"http_stream_cancel"}, r)
        /\ ~(Aborted(r)' /\ ws' # None)
    BY <1>2, <1>5 DEF Stream, Cancelled, Over, Aborted
  <1>8. got[r] \in Nat /\ sent[r] \in Nat /\ reply[r] \in {"waiting", "piping"} /\ entry[r] \in {"buffered", "streaming"}
    BY DEF LocalTypes, EntryWaits
  <1>9. CASE HttpStreamEnd(m)
    <2>1. entry'[r] = "none" /\ got' = got /\ reply'[r] \in {reply[r], "streamed"}
          /\ (reply'[r] = "streamed" => m.n = 0)
      BY <1>1, <1>8, <1>9 DEF HttpStreamEnd, EndsWell, Replied, LocalTypes
    <2>2. Of(m, End, r)
      BY <1>1, <1>9 DEF HttpStreamEnd, Of, End
    <2>3. Ended(up[c], r, work[r], got[r], sent[r])
      BY <1>4 DEF Carries
    <2>4. m.n = 0 => work[r] = "done" /\ got[r] = sent[r]
      BY <1>2, <1>8, <2>2, <2>3, EndRead
    <2>5. Complete(r)'
      BY <1>2, <1>8, <2>1, <2>4 DEF Complete
    <2>6. QED
      BY <1>2, <1>6, <1>7, <2>1, <2>5 DEF Stream, Carried, Unsent, Cancelled
  <1>10. CASE HttpStreamStart(m) \/ HttpStreamChunk(m)
    <2>1. Carries(r, c)' /\ reply'[r] # "streamed"
      <3>1. Serving(c)'
        BY <1>2, <1>4, <1>5 DEF Serving
      <3>2. /\ Ordered(up[c], r, entry[r]) /\ Ended(up[c], r, work[r], got[r], sent[r])
            /\ Whole(c) /\ r \in active /\ work[r] = "read" => Reading(up[c], r, entry[r], got[r], sent[r])
            /\ (Whole(c)' <=> Whole(c))
        BY <1>2, <1>4, <1>5 DEF Carries, Whole
      <3>3. CASE HttpStreamStart(m)
        <4>1. entry'[r] = "streaming" /\ reply'[r] = "piping" /\ got' = got
          BY <1>1, <3>3 DEF HttpStreamStart, LocalTypes
        <4>2. Of(m, Start, r)
          BY <1>1, <3>3 DEF HttpStreamStart, Of, Start
        <4>3. /\ Ordered(Tail(up[c]), r, "streaming")
              /\ Ended(up[c], r, work[r], got[r], sent[r]) => Ended(Tail(up[c]), r, work[r], got[r], sent[r])
              /\ Reading(up[c], r, entry[r], got[r], sent[r]) => Reading(Tail(up[c]), r, "streaming", got[r], sent[r])
          BY <1>2, <4>2, StartRead
        <4>4. QED
          BY <1>2, <3>1, <3>2, <4>1, <4>3 DEF Carries
      <3>4. CASE HttpStreamChunk(m)
        <4>1. Of(m, Chunk, r)
          BY <1>1, <3>4 DEF HttpStreamChunk, Of, Chunk
        <4>2. /\ Ordered(up[c], r, entry[r]) => entry[r] # "buffered"
              /\ Ended(up[c], r, work[r], got[r], sent[r]) => Ended(Tail(up[c]), r, work[r], got[r] + 1, sent[r])
              /\ Reading(up[c], r, "streaming", got[r], sent[r]) => Reading(Tail(up[c]), r, "streaming", got[r] + 1, sent[r])
          BY <1>2, <1>8, <4>1, ChunkRead
        <4>3. entry[r] = "streaming"
          BY <1>8, <3>2, <4>2
        <4>4. entry'[r] = "streaming" /\ got'[r] = got[r] + 1 /\ reply'[r] = reply[r]
          BY <1>1, <3>4, <4>3 DEF HttpStreamChunk, LocalTypes
        <4>5. Ordered(Tail(up[c]), r, "streaming")
          BY DEF Ordered
        <4>6. QED
          BY <1>2, <1>8, <3>1, <3>2, <4>2, <4>3, <4>4, <4>5 DEF Carries
      <3>5. QED
        BY <1>10, <3>3, <3>4
    <2>2. ASSUME NEW d \in Conns, d # c PROVE Carries(r, d)'
      <3>1. ~Serving(d) /\ ~Serving(d)' /\ up'[d] = up[d]
        BY <1>2, <1>4, <1>5, <2>2 DEF Serving
      <3>2. Free(up'[d], Frames, r) /\ ~(Whole(d) /\ Asked(r, d))
        BY <1>4, <3>1 DEF Carries
      <3>3. ~(Whole(d)' /\ Asked(r, d)')
        BY <1>2, <1>5, <3>2 DEF Whole, Asked
      <3>4. Ordered(up'[d], r, entry'[r]) /\ Ended(up'[d], r, work'[r], got'[r], sent'[r])
        BY <3>2, SubFrames DEF Ordered, Ended, Free
      <3>5. QED
        BY <3>2, <3>3, <3>4 DEF Carries, Asked
    <2>3. QED
      BY <1>2, <1>6, <1>7, <2>1, <2>2 DEF Stream, Carried, Unsent, Cancelled, Complete
  <1>11. QED
    BY <1>5, <1>9, <1>10

LEMMA ProxyReceivesStreams ==
  ASSUME IInv, IInv', Wires, Streams, NEW c \in Conns, ProxyReceives(c)
  PROVE  Streams'
  <1>1. ASSUME NEW r \in Requests PROVE Stream(r)'
    <2>1. Stream(r) /\ Good'
      BY DEF Streams, IInv
    <2>2. CASE ~Of(Head(up[c]), Frames, r)
      BY <2>1, <2>2, OtherRead, StreamKept
    <2>3. CASE Of(Head(up[c]), Frames, r) /\ entry[r] = "none"
      BY <2>1, <2>3, StaleRead, StreamKept
    <2>4. CASE Of(Head(up[c]), Frames, r) /\ entry[r] # "none"
      BY <2>1, <2>4, FrameRead
    <2>5. QED
      BY <2>2, <2>3, <2>4
  <1>2. QED
    BY <1>1 DEF Streams

\* The home's socket.  An end of it is no frame.
LEMMA FinIsNoFrame ==
  ASSUME Good, NEW c \in Conns, NEW u, u = up[c] \/ u = up[c] \o <<Fin>>, NEW r
  PROVE  Same(u, up[c], Frames, r)
  <1>1. ~Of(Fin, Frames, r)
    BY MsgFields DEF Fin, Of, Frames, Start, Chunk, End
  <1>2. PICK ms \in Seq(GoodUp) : ms = <<Fin>>
    BY PlainUp, OneMessage
  <1>3. Free(ms, Frames, r)
    BY <1>1, <1>2, FreeOne
  <1>4. QED
    BY <1>2, <1>3, SameAll, SameAppend, Channels

Ebbs(c) ==
  /\ hws'[c] \in {"connecting", "open"} => hws[c] \in {"connecting", "open"}
  /\ up'[c] = up[c] \/ up'[c] = up[c] \o <<Fin>>
  /\ down'[c] = down[c] \/ down'[c] = <<>>
Survives(r) == work'[r] = work[r] \/ (work[r] \notin {"none", "done"} /\ work'[r] = "failed")

\* A step after which the home has no socket, or the same one and the same streams.
LEMMA HomeSpares ==
  ASSUME IInv, IInv', Streams, HomeSide',
         UNCHANGED <<pws, cut, authenticated, tunnel, entry, reply, got, sent>>,
         \A c \in Conns : Ebbs(c),
         \A r \in Requests : Survives(r),
         UNCHANGED <<ws, active, work>> \/ (ws' = None /\ active' = {})
  PROVE  Streams'
  <1> USE DEF IInv
  <1>1. ASSUME NEW r \in Requests PROVE Stream(r)'
    <2>1. \A c \in Conns : Same(up'[c], up[c], Frames, r)
      BY FinIsNoFrame DEF Ebbs
    <2>2. \A c \in Conns : \A types : Free(down[c], types, r) => Free(down'[c], types, r)
      BY FreeEmpty DEF Ebbs
    <2>3. Steady(r)
      BY <2>2 DEF Steady, Busy, Aborted, Survives
    <2>4. \A c \in Conns : Serving(c) = Serving(c)' /\ (Whole(c)' => Whole(c))
      BY DEF Serving, Whole, Ebbs
    <2>5. \A c \in Conns : Whole(c)' /\ Asked(r, c)' => Whole(c) /\ Asked(r, c)
      BY <2>2, <2>4 DEF Asked
    <2>6. Undisturbed(r)
      BY <2>1, <2>3, <2>4, <2>5, StreamSpared DEF Survives
    <2>7. QED
      BY <2>6, StreamKept DEF Streams
  <1>2. QED
    BY <1>1 DEF Streams

LEMMA ClosesAt ==
  ASSUME Good, LocalTypes, NEW c \in Conns, HomeCloses(c), UNCHANGED down, NEW d \in Conns
  PROVE  Ebbs(d)
  <1>1. hws'[d] \in {"connecting", "open"} => hws[d] \in {"connecting", "open"}
    BY DEF HomeCloses, LocalTypes
  <1>2. PICK ms : ms = <<Fin>>
    OBVIOUS
  <1>3. up'[d] = up[d] \/ up'[d] = up[d] \o ms
    BY <1>2, UpAt DEF HomeCloses
  <1>4. QED
    BY <1>1, <1>2, <1>3 DEF Ebbs

LEMMA HomeClosingStreams ==
  ASSUME IInv, IInv', Wires', Streams,
         Stop \/ \E c \in Conns : HomeAuthTimeout(c) \/ HomeSocketError(c)
  PROVE  Streams'
  <1>1. /\ UNCHANGED <<pws, down, cut, authenticated, tunnel, entry, reply, got, sent, work>>
        /\ UNCHANGED <<ws, active>> \/ (ws' = None /\ active' = {})
        /\ UNCHANGED <<hws, up>> \/ \E d \in Conns : HomeCloses(d)
    BY DEF HomeAuthTimeout, HomeSocketError, Stop, IInv, LocalTypes, manager, http, home, handling
  <1>2. \A d \in Conns : Ebbs(d)
    <2>1. CASE UNCHANGED <<hws, up>>
      BY <1>1, <2>1 DEF Ebbs
    <2>2. CASE \E d \in Conns : HomeCloses(d)
      BY <1>1, <2>2, ClosesAt DEF IInv
    <2>3. QED
      BY <1>1, <2>1, <2>2
  <1>3. QED
    BY <1>1, <1>2, HomeSpares DEF Wires, Survives

LEMMA HomeClosedStreams ==
  ASSUME IInv, IInv', Wires', Streams, NEW c \in Conns, HomeClosed(c)
  PROVE  Streams'
  <1>1. /\ UNCHANGED <<pws, up, cut, authenticated, tunnel, entry, reply, got, sent, work>>
        /\ ws' = None /\ active' = {}
        /\ hws' = [hws EXCEPT ![c] = "closed"] /\ down' = [down EXCEPT ![c] = <<>>]
    BY DEF HomeClosed, manager, http, handling
  <1>2. \A d \in Conns : Ebbs(d)
    BY <1>1, Channels DEF IInv, LocalTypes, Ebbs
  <1>3. QED
    BY <1>1, <1>2, HomeSpares DEF Wires, Survives

LEMMA HomeRestartsStreams ==
  ASSUME IInv, IInv', Wires', Streams, HomeRestarts
  PROVE  Streams'
  <1>1. /\ UNCHANGED <<pws, cut, authenticated, tunnel, entry, reply, got, sent>>
        /\ ws' = None /\ active' = {}
    BY DEF HomeRestarts, manager, http, handling
  <1>2. \A r \in Requests : Survives(r)
    BY DEF HomeRestarts, Survives
  <1>3. \A d \in Conns : Ebbs(d)
    BY Restarted DEF IInv, Ebbs
  <1>4. QED
    BY <1>1, <1>2, <1>3, HomeSpares DEF Wires

LEMMA ConnectStreams ==
  ASSUME IInv, IInv', Wires, Wires', Streams, Connect
  PROVE  Streams'
  <1> USE DEF IInv
  <1>1. /\ UNCHANGED <<pws, up, down, cut, authenticated, tunnel, entry, reply, got, sent, work, active>>
        /\ active = {} /\ \A r \in Requests : ~Aborted(r)
    BY DEF Connect, Wires, HomeSide, manager, http, handling
  <1>2. \A d \in Conns : hws'[d] = hws[d] \/ (hws[d] = "none" /\ hws'[d] = "connecting")
    BY DEF Connect, LocalTypes
  <1>3. ASSUME NEW r \in Requests PROVE Stream(r)'
    <2>1. Steady(r)
      BY <1>1 DEF Steady, Busy, Aborted
    <2>2. \A c \in Conns : Whole(c)' /\ Asked(r, c)' => Whole(c) /\ Asked(r, c)
      <3>1. ASSUME NEW c \in Conns, Whole(c)', Asked(r, c)' PROVE hws'[c] = hws[c]
        <4>1. ~Free(down[c], {"http_request"}, r)
          BY <1>1, <3>1 DEF Asked
        <4>2. down[c] # <<>>
          BY <4>1, FreeEmpty
        <4>3. hws[c] # "none"
          BY <4>2 DEF Wires, Wire
        <4>4. QED
          BY <1>2, <4>3
      <3>2. QED
        BY <1>1, <3>1 DEF Whole, Asked
    <2>3. \A c \in Conns : Serving(c) = Serving(c)' /\ Same(up'[c], up[c], Frames, r)
      BY <1>1, SameAll DEF Serving
    <2>4. Undisturbed(r)
      BY <1>1, <2>1, <2>2, <2>3, StreamSpared
    <2>5. QED
      BY <2>4, StreamKept DEF Streams
  <1>4. QED
    BY <1>3 DEF Streams

\* What the home's reading does to the work on r: nothing, or a request of r begins.
LEMMA WorkBegins ==
  ASSUME IInv, NEW c \in Conns, HomeReceives(c), NEW r \in Requests,
         LET m == Head(down[c]) IN ~(HandleMessage(m) /\ HandleStreamCancel(m) /\ m.id = r)
  PROVE  \/ work'[r] = work[r] /\ (r \in active' <=> r \in active)
         \/ /\ homeAuth /\ Of(Head(down[c]), {"http_request"}, r) /\ work[r] = "none"
            /\ work'[r] \in {"fetch", "inject"} /\ (work'[r] = "fetch" => r \in active')
            /\ r \in active' => r \in active \/ work'[r] = "fetch"
  <1> USE DEF IInv
  <1> DEFINE m == Head(down[c])
  <1>1. m \in GoodDown
    BY TailFacts, Channels DEF HomeReceives
  <1>2. CASE HandleMessage(m) /\ HandleHttpRequest(m)
    <2>1. m.type = "http_request" /\ m.id \in Requests /\ Pending(m.id)
      BY <1>1, <1>2, DownFields DEF HandleHttpRequest
    <2>2. work[m.id] = "none"
      BY <2>1 DEF Pending, ExecutedOnce
    <2>3. homeAuth
      BY <1>2 DEF HandleMessage
    <2> HIDE DEF m
    <2>4. CASE m.id = r
      BY <1>2, <2>1, <2>2, <2>3, <2>4 DEF HandleHttpRequest, LocalTypes, Of, m
    <2>5. CASE m.id # r
      BY <1>2, <2>1, <2>5 DEF HandleHttpRequest, LocalTypes
    <2>6. QED
      BY <2>4, <2>5
  <1>3. CASE HandleMessage(m) /\ HandleStreamCancel(m)
    BY <1>3 DEF HandleStreamCancel
  <1>4. QED
    BY <1>2, <1>3 DEF HomeReceives, HandleMessage, HandleWsOpen, HandleWsClose, Registered, Opened, IgnoredByHome

LEMMA HomeReadsSame ==
  ASSUME IInv, Wires, NEW c \in Conns, HomeReceives(c), NEW r, NEW d \in Conns
  PROVE  Same(up'[d], up[d], Frames, r)
  <1> USE DEF IInv
  <1>1. PICK m \in Message : m.type \in {"ws_message", "home_register"} /\ (up' = up \/ up' = Send(<<m>>) \/ up' = Up(c, <<m>>))
    <2>1. Msg("home_register", None, 0) \in Message
      BY DEF Msg, Message, MsgType
    <2>2. CASE hws[c] = "connecting"
      BY <2>1, <2>2, OpeningRead, MsgFields DEF Opened
    <2>3. CASE hws[c] # "connecting"
      <3>1. \A m \in GoodUp : m \in Message
        BY UpFields
      <3>2. QED
        BY <2>1, <2>3, <3>1, HomeReplies, MsgFields
    <2>4. QED
      BY <2>2, <2>3
  <1>2. PICK ms \in Seq(Message) : ms = <<m>>
    BY OneMessage
  <1>3. ~Of(m, Frames, r)
    BY <1>1 DEF Of, Frames, Start, Chunk, End
  <1>4. Free(ms, Frames, r)
    BY <1>2, <1>3, FreeOne
  <1>5. up' = up \/ up' = Send(ms) \/ up' = Up(c, ms)
    BY <1>1, <1>2
  <1>6. up'[d] = up[d] \/ up'[d] = up[d] \o ms
    BY <1>5, SendAt, UpAt
  <1>7. QED
    BY <1>4, <1>6, InTransit, SameSelf, SameAppend

LEMMA HomeReceivesStreams ==
  ASSUME IInv, IInv', Wires, Streams, NEW c \in Conns, HomeReceives(c)
  PROVE  Streams'
  <1> USE DEF IInv
  <1> DEFINE m == Head(down[c])
  <1>1. /\ UNCHANGED <<pws, cut, authenticated, tunnel, entry, reply, got, sent, ws>>
        /\ down[c] # <<>> /\ down[c] \in Seq(GoodDown) /\ down'[c] = Tail(down[c])
        /\ \A d \in Conns : d # c => down'[d] = down[d]
        /\ \A d \in Conns : hws'[d] \in {"connecting", "open"} => hws[d] \in {"connecting", "open"}
    <2>1. UNCHANGED <<pws, cut, authenticated, tunnel, entry, reply, got, sent, ws>>
      BY HomeHears DEF manager, http
    <2>2. /\ down[c] # <<>> /\ down[c] \in Seq(GoodDown) /\ down'[c] = Tail(down[c])
          /\ \A d \in Conns : d # c => down'[d] = down[d]
      BY HomeHears, Channels
    <2>3. \A d \in Conns : hws'[d] \in {"connecting", "open"} => hws[d] \in {"connecting", "open"}
      BY HomeHears
    <2>4. QED
      BY <2>1, <2>2, <2>3
  <1>2. ASSUME NEW r \in Requests, HandleMessage(m) /\ HandleStreamCancel(m) /\ m.id = r PROVE Stream(r)'
    <2>1. Of(m, {"http_stream_cancel"}, r) /\ active' = active \ {r} /\ UNCHANGED <<work, up>>
      BY <1>2 DEF HandleStreamCancel, Of
    <2>2. ~Free(down[c], {"http_stream_cancel"}, r)
      BY <1>1, <2>1, FreeTail
    <2>3. Stream(r)
      BY DEF Streams
    <2>4. Over(r)'
      BY <1>1, <2>2, <2>3 DEF Stream, Cancelled, Over
    <2>5. Carried(r)' /\ Cancelled(r)'
      BY <2>4 DEF Over, Carried, Cancelled
    <2>6. Unsent(r)' /\ Busy(r)' /\ Complete(r)'
      BY <1>1, <2>1, <2>3 DEF Stream, Unsent, Busy, Complete
    <2>7. QED
      BY <2>5, <2>6 DEF Stream
  <1>3. ASSUME NEW r \in Requests, ~(HandleMessage(m) /\ HandleStreamCancel(m) /\ m.id = r) PROVE Stream(r)'
    <2>1. \/ work'[r] = work[r] /\ (r \in active' <=> r \in active)
          \/ /\ homeAuth /\ Of(m, {"http_request"}, r) /\ work[r] = "none"
             /\ work'[r] \in {"fetch", "inject"} /\ (work'[r] = "fetch" => r \in active')
             /\ r \in active' => r \in active \/ work'[r] = "fetch"
      BY <1>3, WorkBegins
    <2>2. Stream(r)
      BY DEF Streams
    <2>3. \A d \in Conns : \A types : Free(down[d], types, r) => Free(down'[d], types, r)
      BY <1>1, FreeTail
    <2>4. Steady(r)
      <3>1. Busy(r)' /\ (Aborted(r)' => Aborted(r))
        BY <2>1, <2>2 DEF Stream, Busy, Aborted
      <3>2. QED
        BY <1>1, <2>1, <2>3, <3>1 DEF Steady
    <2>5. ASSUME NEW d \in Conns, Whole(d)', Asked(r, d)' PROVE Whole(d) /\ Asked(r, d)
      <3>1. Whole(d)
        BY <1>1, <2>5 DEF Whole
      <3>2. CASE ~Free(down'[d], {"http_request"}, r) \/ r \in active
        BY <2>3, <3>1, <3>2 DEF Asked
      <3>3. CASE Free(down'[d], {"http_request"}, r) /\ r \notin active
        <4>1. Of(m, {"http_request"}, r)
          BY <2>1, <2>5, <3>3 DEF Asked
        <4>2. ~Free(down[c], {"http_request"}, r)
          BY <1>1, <4>1, FreeTail
        <4>3. d = c
          BY <3>1, HomeHears DEF Whole, HomeOneSocket
        <4>4. QED
          BY <3>1, <4>2, <4>3 DEF Asked
      <3>4. QED
        BY <3>2, <3>3
    <2>6. \A d \in Conns : Serving(d) = Serving(d)' /\ Same(up'[d], up[d], Frames, r)
      BY <1>1, HomeReadsSame DEF Serving
    <2>7. r \in active' /\ work'[r] = "read" => r \in active /\ work[r] = "read"
      BY <2>1
    <2>8. Undisturbed(r)
      BY <2>4, <2>5, <2>6, <2>7, StreamSpared
    <2>9. QED
      BY <2>2, <2>8, StreamKept
  <1>4. QED
    BY <1>2, <1>3 DEF Streams

-----------------------------------------------------------------------------
\* The home sends: what is not of r leaves r alone.
LEMMA SendsOther ==
  ASSUME IInv, IInv', NEW r \in Requests, Stream(r),
         UNCHANGED <<pws, hws, down, cut, manager, http, ws>>,
         NEW ms \in Seq(GoodUp), Free(ms, Frames, r), up' = Send(ms) \/ up' = up, sent'[r] = sent[r],
         work'[r] = work[r] \/ (work[r] \notin {"none", "done"} /\ work'[r] \in {"done", "failed"}),
         r \in active' <=> r \in active, r \in active => work'[r] = work[r]
  PROVE  Stream(r)'
  <1> USE DEF IInv
  <1>1. ASSUME NEW d \in Conns PROVE Same(up'[d], up[d], Frames, r)
    <2>1. up[d] \in Seq(GoodUp)
      BY Channels
    <2>2. up'[d] = up[d] \/ up'[d] = up[d] \o ms
      BY SendAt
    <2>3. QED
      BY <2>1, <2>2, SameSelf, SameAppend
  <1>2. Steady(r)
    BY DEF Steady, Busy, Aborted, http
  <1>3. \A d \in Conns : Serving(d) = Serving(d)' /\ Whole(d) = Whole(d)' /\ Asked(r, d) = Asked(r, d)'
    BY DEF Serving, Whole, Asked, manager
  <1>4. Undisturbed(r)
    BY <1>1, <1>2, <1>3, StreamSpared
  <1>5. QED
    BY <1>4, StreamKept

\* A frame of r, sent while r is served: it goes to the connection that carries r, or to
\* none.
LEMMA Carrying ==
  ASSUME IInv, Wires, NEW r \in Requests, Stream(r), r \in active, entry[r] # "none", NEW ms, NEW d \in Conns
  PROVE  \/ Whole(d) /\ Serving(d) /\ Carries(r, d) /\ Send(ms)[d] = up[d] \o ms
         \/ ~Whole(d) /\ Carries(r, d) /\ Send(ms)[d] = up[d]
  <1>1. Carries(r, d)
    BY DEF Stream, Carried
  <1>2. CASE Whole(d)
    <2>1. Serving(d)
      BY <1>1, <1>2 DEF Carries, Asked
    <2>2. ws = d /\ hws[d] = "open"
      BY <1>2 DEF Whole, Wires, HomeSide
    <2>3. QED
      BY <1>1, <1>2, <2>1, <2>2, SendAt DEF IInv
  <1>3. CASE ~Whole(d)
    BY <1>1, <1>3, SendAt DEF IInv
  <1>4. QED
    BY <1>2, <1>3

\* What such a step has to keep of the connection that carries r.
Follows(r, d) ==
  /\ Ordered(up'[d], r, entry[r]) /\ Ended(up'[d], r, work'[r], got[r], sent'[r])
  /\ r \in active' /\ work'[r] = "read" => Reading(up'[d], r, entry[r], got[r], sent'[r])

LEMMA SendsFrame ==
  ASSUME IInv, Wires, NEW r \in Requests, Stream(r), r \in active,
         UNCHANGED <<pws, hws, down, cut, manager, http, ws>>,
         work'[r] \in {"read", "done", "failed"},
         work'[r] = "read" => r \in active', work'[r] # "read" => r \notin active',
         NEW ms, up' = Send(ms),
         \A d \in Conns : Carries(r, d) /\ Whole(d) /\ up'[d] = up[d] \o ms => Follows(r, d)
  PROVE  Stream(r)'
  <1>1. ~(work[r] = "done") /\ reply[r] # "streamed"
    BY DEF Stream, Busy, Complete
  <1>2. Unsent(r)' /\ Complete(r)' /\ Busy(r)' /\ ~Aborted(r)'
    BY <1>1 DEF Unsent, Complete, Busy, Aborted, http
  <1>3. Cancelled(r)'
    BY <1>2 DEF Stream, Cancelled, Over, http
  <1>4. ASSUME entry[r] # "none", NEW d \in Conns PROVE Carries(r, d)'
    <2>1. Serving(d)' = Serving(d) /\ Whole(d)' = Whole(d) /\ entry' = entry /\ got' = got
      BY DEF Serving, Whole, manager, http
    <2>2. CASE Whole(d) /\ Serving(d) /\ Carries(r, d) /\ Send(ms)[d] = up[d] \o ms
      <3>1. Follows(r, d)
        BY <2>2
      <3>2. QED
        BY <2>1, <2>2, <3>1 DEF Follows, Carries
    <2>3. CASE ~Whole(d) /\ Carries(r, d) /\ Send(ms)[d] = up[d]
      <3>1. Ended(up[d], r, work'[r], got[r], sent'[r])
        BY <1>1, <2>3, EndedBefore DEF Carries
      <3>2. QED
        BY <2>1, <2>3, <3>1 DEF Carries
    <2>4. QED
      BY <1>4, <2>2, <2>3, Carrying
  <1>5. Carried(r)'
    BY <1>4 DEF Carried, http
  <1>6. QED
    BY <1>2, <1>3, <1>5 DEF Stream

LEMMA OthersSent ==
  ASSUME IInv, IInv', Streams, NEW r \in Requests,
         UNCHANGED <<pws, hws, down, cut, manager, http, ws>>,
         NEW ms \in Seq(GoodUp), \A i \in DOMAIN ms : ms[i].id = r, up' = Send(ms) \/ up' = up,
         NEW q \in Requests, q # r, sent'[q] = sent[q], work'[q] = work[q], q \in active' <=> q \in active
  PROVE  Stream(q)'
  <1>1. Free(ms, Frames, q)
    BY DEF Free, Of
  <1>2. QED
    BY <1>1, SendsOther DEF Streams

\* One message of r.
LEMMA AnswerOf ==
  ASSUME IInv, NEW r \in Requests, work[r] # "none", NEW t \in Answers, NEW n \in {0, 1},
         t = "http_response" \/ work[r] \in {"fetch", "read"}
  PROVE  \E m \in GoodUp : \E ms \in Seq(GoodUp) :
           /\ m = Msg(t, r, n) /\ ms = <<m>> /\ m.type = t /\ m.id = r /\ m.n = n
           /\ \A i \in DOMAIN ms : ms[i] = m
  <1>1. PICK m : m = Msg(t, r, n)
    OBVIOUS
  <1>2. m \in GoodUp /\ m.type = t /\ m.id = r /\ m.n = n
    <2>1. executed[r] = 1 /\ (t = "http_response" \/ (path[r] = "stream" /\ t \in StreamTypes))
      BY DEF IInv, ExecutedOnce, Answers
    <2>2. QED
      BY <1>1, <2>1, AnswerUp, MsgFields
  <1>3. PICK ms : ms = <<m>>
    OBVIOUS
  <1>4. ms \in Seq(GoodUp) /\ \A i \in DOMAIN ms : ms[i] = m
    BY <1>2, <1>3, OneMessage
  <1>5. QED
    BY <1>1, <1>2, <1>3, <1>4

LEMMA InjectEndsStreams ==
  ASSUME IInv, IInv', Streams, NEW r \in Requests, InjectEnds(r)
  PROVE  Streams'
  <1> USE DEF IInv
  <1>1. /\ UNCHANGED <<pws, hws, down, cut, manager, http, ws, sent, active>> /\ work[r] = "inject"
        /\ work'[r] = "done" /\ \A q \in Requests : q # r => work'[q] = work[q]
    BY DEF InjectEnds, Done, home, LocalTypes
  <1>2. PICK m \in GoodUp, ms \in Seq(GoodUp) :
          m = Msg("http_response", r, 0) /\ ms = <<m>> /\ m.type = "http_response" /\ m.id = r /\ \A i \in DOMAIN ms : ms[i] = m
    BY <1>1, AnswerOf DEF Answers, StreamTypes
  <1>3. up' = Send(ms)
    BY <1>2 DEF InjectEnds
  <1>4. \A q \in Requests : q # r => Stream(q)'
    BY <1>1, <1>2, <1>3, OthersSent
  <1>5. Stream(r)'
    <2>1. Free(ms, Frames, r)
      BY <1>2 DEF Free, Of, Frames, Start, Chunk, End
    <2>2. r \notin active /\ Stream(r)
      BY <1>1 DEF Streams, Stream, Busy
    <2>3. QED
      BY <1>1, <1>3, <2>1, <2>2, SendsOther
  <1>6. QED
    BY <1>4, <1>5 DEF Streams

LEMMA FetchStartsStreams ==
  ASSUME IInv, IInv', Wires, Streams, NEW r \in Requests, FetchStarts(r)
  PROVE  Streams'
  <1> USE DEF IInv
  <1>1. /\ UNCHANGED <<pws, hws, down, cut, manager, http, ws, sent>> /\ work[r] = "fetch" /\ r \in active
        /\ \A q \in Requests : q # r => work'[q] = work[q] /\ (q \in active' <=> q \in active)
    BY DEF FetchStarts, Done, LocalTypes
  <1>2. PICK m \in GoodUp, ms \in Seq(GoodUp) :
          m = Msg("http_stream_start", r, 0) /\ ms = <<m>> /\ m.type = "http_stream_start" /\ m.id = r /\ \A i \in DOMAIN ms : ms[i] = m
    BY <1>1, AnswerOf DEF Answers, StreamTypes
  <1>3. PICK n \in GoodUp : n = Msg("http_stream_end", r, 0) /\ n.type = "http_stream_end" /\ n.id = r
    BY <1>1, AnswerOf DEF Answers, StreamTypes
  <1>4. PICK both : both = <<m, n>>
    OBVIOUS
  <1>5. both \in Seq(GoodUp) /\ \A i \in DOMAIN both : both[i].id = r
    BY <1>2, <1>3, <1>4
  <1>6. Stream(r) /\ sent[r] = 0 /\ got[r] = 0 /\ \A d \in Conns : Free(up[d], Frames, r)
    BY <1>1 DEF Streams, Stream, Unsent
  <1>7. Of(m, Start, r) /\ Of(n, End, r)
    BY <1>2, <1>3 DEF Of, Start, End
  <1>8. CASE work' = [work EXCEPT ![r] = "read"] /\ up' = Send(<<Msg("http_stream_start", r, 0)>>) /\ UNCHANGED active
    <2>1. up' = Send(ms) /\ work'[r] = "read"
      BY <1>2, <1>8 DEF LocalTypes
    <2>2. ASSUME NEW d \in Conns, up'[d] = up[d] \o ms PROVE Follows(r, d)
      <3>1. up[d] \in Seq(GoodUp)
        BY Channels
      <3>2. /\ Ordered(up[d] \o <<m>>, r, entry[r]) /\ Ended(up[d] \o <<m>>, r, work'[r], got[r], sent'[r])
            /\ Reading(up[d] \o <<m>>, r, entry[r], 0, 0)
        BY <1>6, <1>7, <3>1, StartSent
      <3>3. up'[d] = up[d] \o <<m>>
        BY <1>2, <2>2
      <3>4. QED
        BY <1>1, <1>6, <3>2, <3>3 DEF Follows
    <2>3. Stream(r)'
      BY <1>1, <1>6, <1>8, <2>1, <2>2, SendsFrame
    <2>4. QED
      BY <1>1, <1>2, <2>1, <2>3, OthersSent DEF Streams
  <1>9. CASE work' = Done(r) /\ up' = Send(<<Msg("http_stream_start", r, 0), Msg("http_stream_end", r, 0)>>) /\ active' = active \ {r}
    <2>1. up' = Send(both) /\ work'[r] = "done" /\ r \notin active'
      BY <1>2, <1>3, <1>4, <1>9 DEF LocalTypes, Done
    <2>2. ASSUME NEW d \in Conns, up'[d] = up[d] \o both PROVE Follows(r, d)
      <3>1. up[d] \in Seq(GoodUp)
        BY Channels
      <3>2. Ordered(up[d] \o <<m, n>>, r, entry[r]) /\ Ended(up[d] \o <<m, n>>, r, "done", 0, 0)
        BY <1>6, <1>7, <3>1, StartEndSent
      <3>3. up'[d] = up[d] \o <<m, n>>
        BY <1>4, <2>2
      <3>4. QED
        BY <1>1, <1>6, <2>1, <3>2, <3>3 DEF Follows
    <2>3. Stream(r)'
      BY <1>1, <1>6, <2>1, <2>2, SendsFrame
    <2>4. QED
      BY <1>1, <1>5, <2>1, <2>3, OthersSent DEF Streams
  <1>10. QED
    BY <1>8, <1>9 DEF FetchStarts

LEMMA ReadChunkStreams ==
  ASSUME IInv, IInv', Wires, Streams, NEW r \in Requests, ReadChunk(r)
  PROVE  Streams'
  <1> USE DEF IInv
  <1>1. /\ UNCHANGED <<pws, hws, down, cut, manager, http, ws, work, active>> /\ work[r] = "read" /\ r \in active
        /\ sent'[r] = sent[r] + 1 /\ \A q \in Requests : q # r => sent'[q] = sent[q]
    BY DEF ReadChunk, home, LocalTypes
  <1>2. PICK m \in GoodUp, ms \in Seq(GoodUp) :
          m = Msg("http_stream_chunk", r, 0) /\ ms = <<m>> /\ m.type = "http_stream_chunk" /\ m.id = r /\ \A i \in DOMAIN ms : ms[i] = m
    BY <1>1, AnswerOf DEF Answers, StreamTypes
  <1>3. up' = Send(ms) /\ Of(m, Chunk, r) /\ Stream(r)
    BY <1>2 DEF ReadChunk, Of, Chunk, Streams
  <1>4. got[r] \in Nat /\ sent[r] \in Nat
    BY DEF LocalTypes
  <1>5. ASSUME NEW d \in Conns, Carries(r, d), Whole(d), up'[d] = up[d] \o ms PROVE Follows(r, d)
    <2>1. Ordered(up[d], r, entry[r]) /\ Reading(up[d], r, entry[r], got[r], sent[r])
      BY <1>1, <1>5 DEF Carries
    <2>2. up[d] \in Seq(GoodUp)
      BY Channels
    <2>3. /\ Ordered(up[d] \o <<m>>, r, entry[r]) /\ Ended(up[d] \o <<m>>, r, work[r], got[r], sent'[r])
          /\ Reading(up[d] \o <<m>>, r, entry[r], got[r], sent[r] + 1)
      BY <1>3, <1>4, <2>1, <2>2, ChunkSent
    <2>4. QED
      BY <1>1, <1>2, <1>5, <2>3 DEF Follows
  <1>6. Stream(r)'
    BY <1>1, <1>3, <1>5, SendsFrame
  <1>7. QED
    BY <1>1, <1>2, <1>3, <1>6, OthersSent DEF Streams

LEMMA StreamEndsStreams ==
  ASSUME IInv, IInv', Wires, Streams, NEW r \in Requests, StreamEnds(r)
  PROVE  Streams'
  <1> USE DEF IInv
  <1>1. /\ UNCHANGED <<pws, hws, down, cut, manager, http, ws, sent>> /\ work[r] \in {"fetch", "read"} /\ r \in active
        /\ r \notin active' /\ \A q \in Requests : q # r => work'[q] = work[q] /\ (q \in active' <=> q \in active)
    BY DEF StreamEnds, Done, Failed, LocalTypes
  <1>2. PICK n \in {0, 1} : /\ up' = Send(<<Msg("http_stream_end", r, n)>>)
                            /\ work'[r] \in {"done", "failed"} /\ (n = 0 => work[r] = "read" /\ work'[r] = "done")
    BY DEF StreamEnds, Done, Failed, LocalTypes
  <1>3. PICK m \in GoodUp, ms \in Seq(GoodUp) :
          m = Msg("http_stream_end", r, n) /\ ms = <<m>> /\ m.type = "http_stream_end" /\ m.id = r /\ m.n = n /\ \A i \in DOMAIN ms : ms[i] = m
    BY <1>1, AnswerOf DEF Answers, StreamTypes
  <1>4. up' = Send(ms) /\ Of(m, End, r) /\ Stream(r)
    BY <1>2, <1>3 DEF Of, End, Streams
  <1>5. ASSUME NEW d \in Conns, Carries(r, d), Whole(d), up'[d] = up[d] \o ms PROVE Follows(r, d)
    <2>1. Ordered(up[d], r, entry[r])
      BY <1>5 DEF Carries
    <2>2. up[d] \in Seq(GoodUp)
      BY Channels
    <2>3. CASE work[r] = "read"
      <3>1. Reading(up[d], r, entry[r], got[r], sent[r])
        BY <1>1, <1>5, <2>3 DEF Carries
      <3>2. Free(up[d], End, r) /\ got[r] + Chunks(up[d], r) = sent[r]
        BY <3>1 DEF Reading
      <3>3. Ordered(up[d] \o <<m>>, r, entry[r]) /\ Ended(up[d] \o <<m>>, r, work'[r], got[r], sent[r])
        BY <1>2, <1>3, <1>4, <2>1, <2>2, <3>2, EndSent
      <3>4. QED
        BY <1>1, <1>3, <1>5, <3>3 DEF Follows
    <2>4. CASE work[r] = "fetch"
      <3>1. Free(up[d], End, r)
        BY <1>4, <2>4, SubFrames DEF Stream, Unsent, Free
      <3>2. Ordered(up[d] \o <<m>>, r, entry[r]) /\ Ended(up[d] \o <<m>>, r, work'[r], got[r], sent[r])
        BY <1>2, <1>3, <1>4, <2>1, <2>2, <2>4, <3>1, EndSent
      <3>3. QED
        BY <1>1, <1>3, <1>5, <3>2 DEF Follows
    <2>5. QED
      BY <1>1, <2>3, <2>4
  <1>6. Stream(r)'
    BY <1>1, <1>2, <1>4, <1>5, SendsFrame
  <1>7. QED
    BY <1>1, <1>3, <1>4, <1>6, OthersSent DEF Streams

LEMMA AbortSettlesStreams ==
  ASSUME IInv, IInv', Streams, NEW r \in Requests, AbortSettles(r)
  PROVE  Streams'
  <1> USE DEF IInv
  <1>1. /\ UNCHANGED <<pws, hws, down, cut, manager, http, ws, sent, active>> /\ work[r] \in {"fetch", "read"} /\ r \notin active
        /\ work'[r] = "failed" /\ \A q \in Requests : q # r => work'[q] = work[q]
    BY DEF AbortSettles, Aborted, Failed, home, LocalTypes
  <1>2. PICK m \in GoodUp, ms \in Seq(GoodUp) :
          m = Msg("http_stream_end", r, 0) /\ ms = <<m>> /\ m.id = r /\ \A i \in DOMAIN ms : ms[i] = m
    BY <1>1, AnswerOf DEF Answers, StreamTypes
  <1>3. up' = Send(ms) \/ up' = up
    BY <1>2 DEF AbortSettles
  <1>4. Stream(r)
    BY DEF Streams
  <1>5. CASE ws = None
    <2>1. up' = up
      BY <1>3, <1>5 DEF Send
    <2>2. <<>> \in Seq(GoodUp) /\ Free(<<>>, Frames, r)
      BY FreeEmpty, EmptySeq
    <2>3. Stream(r)'
      BY <1>1, <1>4, <2>1, <2>2, SendsOther
    <2>4. QED
      BY <1>1, <1>2, <1>3, <2>3, OthersSent DEF Streams
  <1>6. CASE ws # None
    <2>1. Over(r) /\ Over(r)'
      BY <1>1, <1>4, <1>6 DEF Stream, Cancelled, Aborted, AbortSettles, Over, http
    <2>2. Carried(r)' /\ Cancelled(r)'
      BY <2>1 DEF Carried, Cancelled, Over
    <2>3. Unsent(r)' /\ Busy(r)' /\ Complete(r)'
      BY <1>1, <1>4 DEF Stream, Complete, Unsent, Busy, http
    <2>4. Stream(r)'
      BY <2>2, <2>3 DEF Stream
    <2>5. QED
      BY <1>1, <1>2, <1>3, <2>4, OthersSent DEF Streams
  <1>7. QED
    BY <1>5, <1>6

LEMMA BroadcastStreams ==
  ASSUME IInv, IInv', Streams, Broadcast
  PROVE  Streams'
  <1> USE DEF IInv
  <1>1. UNCHANGED <<pws, hws, down, cut, manager, http, ws, sent, active, work>>
    BY DEF Broadcast, home, handling
  <1>2. PICK ms \in Seq(GoodUp) : (up' = Send(ms) \/ up' = up) /\ \A i \in DOMAIN ms : ms[i].type = "ws_message"
    BY Broadcasted
  <1>3. \A r : Free(ms, Frames, r)
    BY <1>2 DEF Free, Of, Frames, Start, Chunk, End
  <1>4. QED
    BY <1>1, <1>2, <1>3, SendsOther DEF Streams

LEMMA InitStreams == Init => Streams
  <1> SUFFICES ASSUME Init, NEW r \in Requests PROVE Stream(r)
    BY DEF Streams
  <1>1. /\ entry[r] = "none" /\ reply[r] = "idle" /\ work[r] = "none" /\ sent[r] = 0 /\ got[r] = 0 /\ active = {}
        /\ \A c \in Conns : up[c] = <<>> /\ down[c] = <<>>
    BY DEF Init
  <1>2. \A c \in Conns : \A types : Free(up[c], types, r) /\ Free(down[c], types, r)
    BY <1>1, FreeEmpty
  <1>3. QED
    BY <1>1, <1>2 DEF Stream, Carried, Unsent, Busy, Cancelled, Aborted, Complete

LEMMA NextStreams ==
  ASSUME IInv, IInv', Wires, Wires', Streams, [Next]_vars
  PROVE  Streams'
  <1>1. CASE \E c \in Conns : Cut(c) \/ ProxyTunnelStep(c) \/ HomeTunnelStep(c)
    <2>1. PICK c \in Conns : Cut(c) \/ ProxyTunnelStep(c) \/ HomeTunnelStep(c)
      BY <1>1
    <2>2. CASE Cut(c) \/ ProxyTunnelStep(c)
      BY <2>2, CutStreams, AcceptStreams, ProxyReceivesStreams, ProxyAuthTimeoutStreams, MissedPongStreams, ProxyClosedStreams
         DEF ProxyTunnelStep
    <2>3. CASE HomeTunnelStep(c)
      BY <2>3, HomeReceivesStreams, HomeClosingStreams, HomeClosedStreams DEF HomeTunnelStep
    <2>4. QED
      BY <2>1, <2>2, <2>3
  <1>2. CASE \E r \in Requests : RequestStep(r) \/ AnswerStep(r)
    BY <1>2, HttpRequestStreams, RequestTimeoutStreams, ClientGoneStreams, InjectEndsStreams, FetchStartsStreams,
       ReadChunkStreams, StreamEndsStreams, AbortSettlesStreams DEF RequestStep, AnswerStep
  <1>3. CASE \E s \in Sessions : ClientStep(s)
    BY <1>3, ClientStreams
  <1>4. CASE Connect \/ Stop \/ HomeRestarts \/ Broadcast
    BY <1>4, ConnectStreams, HomeClosingStreams, HomeRestartsStreams, BroadcastStreams
  <1>5. CASE UNCHANGED vars
    <2>1. /\ UNCHANGED <<pws, hws, down, cut, manager, http, ws, up, sent, work, active>>
      BY <1>5 DEF vars, wire, home, handling
    <2>2. <<>> \in Seq(GoodUp) /\ \A r : Free(<<>>, Frames, r)
      BY FreeEmpty, EmptySeq
    <2>3. QED
      BY <2>1, <2>2, SendsOther DEF Streams
  <1>6. QED
    BY <1>1, <1>2, <1>3, <1>4, <1>5 DEF Next

-----------------------------------------------------------------------------
(* Every step keeps the invariant of the views.                            *)

\* Among ms is what shows s the state v, and nothing that shows it another.
Shows(ms, s, v) ==
  /\ \E i \in DOMAIN ms : Of(ms[i], View, s)
  /\ \A i \in DOMAIN ms : Of(ms[i], View, s) => ms[i].n = v

LEMMA FreshSent ==
  ASSUME NEW G, NEW q \in Seq(G), NEW ms \in Seq(G), NEW s, NEW v, Shows(ms, s, v)
  PROVE  Fresh(q \o ms, s, v)
  <1>1. /\ Len(q) \in Nat /\ \A i \in DOMAIN q : i \in Nat /\ i <= Len(q)
        /\ \A j \in DOMAIN ms : j \in Nat /\ j >= 1 /\ Len(q) + j \in DOMAIN (q \o ms) /\ (q \o ms)[Len(q) + j] = ms[j]
        /\ \A i \in DOMAIN (q \o ms) :
             \/ i \in DOMAIN q /\ (q \o ms)[i] = q[i]
             \/ \E j \in DOMAIN ms : i = Len(q) + j /\ (q \o ms)[i] = ms[j]
    BY ConcatFacts
  <1>2. PICK i \in DOMAIN ms : Of(ms[i], View, s)
    BY DEF Shows
  <1>3. Len(q) + i \in DOMAIN (q \o ms) /\ Of((q \o ms)[Len(q) + i], View, s) /\ i >= 1 /\ i \in Nat
    BY <1>1, <1>2
  <1>4. ASSUME NEW j \in DOMAIN (q \o ms), j >= Len(q) + i, Of((q \o ms)[j], View, s) PROVE (q \o ms)[j].n = v
    <2>1. j \notin DOMAIN q
      BY <1>1, <1>3, <1>4
    <2>2. PICK k \in DOMAIN ms : (q \o ms)[j] = ms[k]
      BY <1>1, <2>1
    <2>3. QED
      BY <1>4, <2>2 DEF Shows
  <1>5. QED
    BY <1>3, <1>4 DEF Fresh

LEMMA FreshRead ==
  ASSUME NEW G, NEW q \in Seq(G), q # <<>>, NEW s, NEW v, Fresh(q, s, v)
  PROVE  Fresh(Tail(q), s, v) \/ (Of(Head(q), View, s) /\ Head(q).n = v /\ Free(Tail(q), View, s))
  <1>1. PICK i \in DOMAIN q : Of(q[i], View, s) /\ \A j \in DOMAIN q : j >= i /\ Of(q[j], View, s) => q[j].n = v
    BY DEF Fresh
  <1>2. ASSUME NEW k \in DOMAIN Tail(q), k + 1 >= i, Of(Tail(q)[k], View, s) PROVE Fresh(Tail(q), s, v)
    <2>1. ASSUME NEW j \in DOMAIN Tail(q), j >= k, Of(Tail(q)[j], View, s) PROVE Tail(q)[j].n = v
      BY <1>1, <1>2, <2>1, TailFacts
    <2>2. QED
      BY <1>2, <2>1 DEF Fresh
  <1>3. CASE i = 1
    <2>1. Of(Head(q), View, s) /\ Head(q).n = v
      BY <1>1, <1>3, TailFacts
    <2>2. CASE Free(Tail(q), View, s)
      BY <2>1, <2>2
    <2>3. CASE ~Free(Tail(q), View, s)
      <3>1. PICK k \in DOMAIN Tail(q) : Of(Tail(q)[k], View, s)
        BY <2>3 DEF Free
      <3>2. k + 1 >= i
        BY <1>3, <3>1, TailFacts
      <3>3. QED
        BY <1>2, <3>1, <3>2
    <2>4. QED
      BY <2>2, <2>3
  <1>4. CASE i # 1
    <2>1. i - 1 \in DOMAIN Tail(q) /\ Tail(q)[i - 1] = q[i] /\ i - 1 + 1 >= i
      BY <1>1, <1>4, TailFacts
    <2>2. QED
      BY <1>1, <1>2, <2>1
  <1>5. QED
    BY <1>3, <1>4

\* What shows s the present state after the first message is read.
LEMMA ShownRead ==
  ASSUME NEW G, NEW q \in Seq(G), q # <<>>, NEW s, NEW v, Shown(q, s, v)
  PROVE  \/ Fresh(Tail(q), s, v)
         \/ Of(Head(q), View, s) /\ Head(q).n = v /\ Free(Tail(q), View, s)
         \/ ~Of(Head(q), View, s) /\ view[s] = v /\ Free(Tail(q), View, s)
  BY FreshRead, FreeTail DEF Shown

\* The steps that show nothing.
LEMMA NothingShown ==
  ASSUME IInv, IInv', Views, UNCHANGED <<pws, hws, up, cut, manager, view, sessions, version>>,
         \A s \in sessions : cws'[s] = "open" => cws[s] = "open",
         \A s \in Sessions : Connected(s) => Connected(s)'
  PROVE  Views'
  <1>1. ASSUME NEW s \in Sessions, NEW c \in Conns PROVE Unseen(s, c)
    <2>1. Same(up'[c], up[c], View, s)
      BY SameSelf, Channels DEF IInv
    <2>2. Carrier(c)' = Carrier(c) /\ Registering(c)' = Registering(c) /\ Serving(c)' = Serving(c)
      BY DEF Carrier, Registering, Serving, manager
    <2>3. QED
      BY <2>1, <2>2 DEF Unseen
  <1>2. QED
    BY <1>1, ViewsKept DEF IInv

\* The home has no session any more.
LEMMA NoSession ==
  ASSUME Views, UNCHANGED clients, sessions' = {}
  PROVE  Views'
  BY DEF Views, Current, Connected, clients

\* A step on one connection, which is not a carrier after it.
LEMMA Dropped ==
  ASSUME IInv, IInv', Views, NEW c \in Conns, ~Carrier(c)',
         \A d \in Conns : d # c => pws'[d] = pws[d] /\ hws'[d] = hws[d] /\ up'[d] = up[d] /\ (d \in cut' <=> d \in cut),
         UNCHANGED <<clients, version>>, sessions' = sessions, ~authenticated' \/ UNCHANGED <<tunnel, authenticated>>,
         ~authenticated' \/ (pws[c] = "closing" => pws'[c] = "closing")
  PROVE  Views'
  <1>1. \A s \in Sessions : Connected(s) => Connected(s)'
    BY DEF Connected, clients
  <1>2. ASSUME NEW s \in Sessions, NEW d \in Conns PROVE Unseen(s, d)
    <2>1. CASE d = c
      BY <2>1 DEF Unseen
    <2>2. CASE d # c
      <3>1. Same(up'[d], up[d], View, s)
        BY <2>2, SameSelf, Channels DEF IInv
      <3>2. Carrier(d)' = Carrier(d) /\ Registering(d)' = Registering(d)
        BY <2>2 DEF Carrier, Registering
      <3>3. Serving(d)' /\ (\A e \in Conns : pws'[e] # "closing") => Serving(d) /\ \A e \in Conns : pws[e] # "closing"
        BY <2>2 DEF Serving
      <3>4. QED
        BY <3>1, <3>2, <3>3 DEF Unseen, clients
    <2>3. QED
      BY <2>1, <2>2
  <1>3. QED
    BY <1>1, <1>2, ViewsKept DEF IInv

LEMMA CutViews ==
  ASSUME IInv, IInv', Views, NEW c \in Conns, Cut(c)
  PROVE  Views'
  <1> USE DEF IInv
  <1>1. /\ UNCHANGED <<pws, hws, clients, version, sessions, tunnel, authenticated>>
        /\ cut' = cut \cup {c} /\ \A d \in Conns : d # c => up'[d] = up[d]
    BY Channels DEF Cut, manager, home
  <1>2. ~Carrier(c)'
    BY <1>1 DEF Carrier
  <1>3. QED
    BY <1>1, <1>2, Dropped

LEMMA AcceptViews ==
  ASSUME IInv, IInv', Views, NEW c \in Conns, Accept(c)
  PROVE  Views'
  <1> USE DEF IInv
  <1>1. /\ UNCHANGED <<hws, up, cut, clients, version, sessions>>
        /\ hws[c] = "connecting" /\ pws[c] = "none"
        /\ \A d \in Conns : d # c => pws'[d] = pws[d]
        /\ ~authenticated' \/ UNCHANGED <<tunnel, authenticated>>
    BY DEF Accept, manager, home, LocalTypes
  <1>2. ~Carrier(c)'
    BY <1>1 DEF Carrier
  <1>3. QED
    BY <1>1, <1>2, Dropped

LEMMA MissedPongViews ==
  ASSUME IInv, IInv', Views, NEW c \in Conns, MissedPong(c)
  PROVE  Views'
  <1> USE DEF IInv
  <1>1. /\ UNCHANGED <<hws, cut, clients, version, sessions, tunnel, authenticated>>
        /\ pws[c] = "open" /\ pws'[c] = "dead"
        /\ \A d \in Conns : d # c => pws'[d] = pws[d] /\ up'[d] = up[d]
    BY Channels DEF MissedPong, manager, home, LocalTypes
  <1>2. ~Carrier(c)'
    BY <1>1 DEF Carrier
  <1>3. QED
    BY <1>1, <1>2, Dropped

LEMMA ProxyClosedViews ==
  ASSUME IInv, IInv', Views, NEW c \in Conns, ProxyClosed(c)
  PROVE  Views'
  <1> USE DEF IInv
  <1>1. /\ UNCHANGED <<hws, cut, clients, version, sessions>> /\ ~authenticated'
        /\ pws'[c] = "closed"
        /\ \A d \in Conns : d # c => pws'[d] = pws[d] /\ up'[d] = up[d]
    BY Channels DEF ProxyClosed, home, LocalTypes
  <1>2. ~Carrier(c)'
    BY <1>1 DEF Carrier
  <1>3. QED
    BY <1>1, <1>2, Dropped

LEMMA ProxyAuthTimeoutViews ==
  ASSUME IInv, IInv', Views, NEW c \in Conns, ProxyAuthTimeout(c)
  PROVE  Views'
  <1> USE DEF IInv
  <1>1. /\ UNCHANGED <<hws, up, cut, authenticated, tunnel, view, cws, cauth, verifying, sessions, version>>
        /\ UNCHANGED pws \/ (~authenticated /\ \A d \in Conns : pws'[d] = pws[d] \/ (pws[d] = "open" /\ pws'[d] = "closing"))
    BY DEF ProxyAuthTimeout, ProxyCloses, clients, home, LocalTypes
  <1>2. \A s \in Sessions : Connected(s) => Connected(s)'
    BY <1>1 DEF Connected
  <1>3. ASSUME NEW s \in Sessions, NEW d \in Conns PROVE Unseen(s, d)
    <2>1. Same(up'[d], up[d], View, s)
      BY <1>1, SameSelf, Channels
    <2>2. (Carrier(d)' => Carrier(d)) /\ Registering(d)' = Registering(d)
      BY <1>1 DEF Carrier, Registering
    <2>3. Serving(d)' => Serving(d) /\ UNCHANGED pws
      BY <1>1 DEF Serving
    <2>4. QED
      BY <1>1, <2>1, <2>2, <2>3 DEF Unseen
  <1>4. QED
    BY <1>2, <1>3, ViewsKept

LEMMA RequestViews ==
  ASSUME IInv, IInv', Views, NEW r \in Requests, RequestStep(r)
  PROVE  Views'
  <1>1. UNCHANGED <<pws, hws, up, cut, manager, clients, sessions, version>>
    BY DEF RequestStep, HttpRequest, RequestTimeout, ClientGone, wire, home
  <1>2. \A s \in Sessions : Connected(s) => Connected(s)'
    BY <1>1 DEF Connected, clients
  <1>3. QED
    BY <1>1, <1>2, NothingShown DEF clients

LEMMA ClientViews ==
  ASSUME IInv, IInv', Views, NEW q \in Sessions, ClientStep(q)
  PROVE  Views'
  <1> USE DEF IInv
  <1>1. UNCHANGED <<pws, hws, up, cut, manager, view, sessions, version>>
    BY DEF ClientStep, ClientConnects, Authenticate, Verified, NotVerified, ClientLeaves, ClientClosed, wire, home
  <1>2. \A s \in Sessions : s # q => cws'[s] = cws[s] /\ cauth'[s] = cauth[s] /\ verifying'[s] = verifying[s]
    BY DEF ClientStep, ClientConnects, Authenticate, Verified, NotVerified, ClientLeaves, ClientClosed, Closing, LocalTypes
  <1>3. \A s \in sessions : cws'[s] = "open" => cws[s] = "open"
    <2>1. CASE ClientConnects(q)
      <3>1. cws[q] = "idle" /\ Connected(q)
        BY <2>1 DEF ClientConnects, Views
      <3>2. q \notin sessions
        BY <3>1 DEF Connected, OnlyVerified
      <3>3. QED
        BY <1>2, <3>2 DEF LocalTypes
    <2>2. CASE ~ClientConnects(q)
      <3>1. cws' = cws \/ cws' = Closing(q) \/ cws' = [cws EXCEPT ![q] = "closed"]
        BY <2>2 DEF ClientStep, Authenticate, Verified, NotVerified, ClientLeaves, ClientClosed
      <3>2. QED
        BY <3>1 DEF Closing, LocalTypes
    <2>3. QED
      BY <2>1, <2>2
  <1>4. Connected(q)'
    <2>1. Connected(q) /\ verifying[q] \in Nat
      BY DEF Views, LocalTypes
    <2>2. CASE ClientConnects(q) \/ Authenticate(q) \/ ClientLeaves(q) \/ ClientClosed(q)
      BY <2>1, <2>2 DEF ClientConnects, Authenticate, ClientLeaves, ClientClosed, Closing, Connected, LocalTypes
    <2>3. CASE Verified(q) \/ NotVerified(q)
      <3>1. cws[q] # "idle"
        BY <2>1, <2>3 DEF Verified, NotVerified, Connected
      <3>2. cws' = cws \/ cws' = Closing(q)
        BY <2>3 DEF Verified, NotVerified
      <3>3. cws'[q] # "idle"
        BY <3>1, <3>2 DEF Closing, LocalTypes
      <3>4. QED
        BY <3>3 DEF Connected
    <2>4. QED
      BY <2>2, <2>3 DEF ClientStep
  <1>5. \A s \in Sessions : Connected(s) => Connected(s)'
    BY <1>2, <1>4 DEF Connected
  <1>6. QED
    BY <1>1, <1>3, <1>5, NothingShown

\* The proxy reads.
LEMMA ReaderViews ==
  ASSUME IInv, IInv', Wires, Views, NEW c \in Conns, ProxyReceives(c), NEW s \in Sessions
  PROVE  Current(s, c)'
  <1> USE DEF IInv
  <1> DEFINE m == Head(up[c])
  <1>1. /\ pws[c] \in {"open", "closing"} /\ up[c] # <<>> /\ up'[c] = Tail(up[c])
        /\ UNCHANGED <<hws, cut, cws, home, version, tunnel>> /\ up[c] \in Seq(GoodUp) /\ m \in GoodUp
    BY ProxyReads
  <1>2. SUFFICES ASSUME s \in sessions', Carrier(c)'
                 PROVE  ~Registering(c)' /\ (Serving(c)' /\ cws'[s] = "open" /\ (\A d \in Conns : pws'[d] # "closing")
                                               => Shown(up[c], s, version)')
    BY DEF Current
  <1>3. s \in sessions /\ Carrier(c)
    BY <1>1, <1>2 DEF Carrier, home
  <1>4. ~Registering(c)'
    <2>1. InTurn(up[c])
      BY DEF Wires, Wire
    <2>2. QED
      BY <1>1, <2>1, InTurnTail DEF Registering
  <1>5. Current(s, c)
    BY DEF Views
  <1>6. ASSUME Serving(c)', cws'[s] = "open", \A d \in Conns : pws'[d] # "closing"
        PROVE  Shown(up[c], s, version)'
    <2>1. CASE m.type = "fin"
      <3>1. hws[c] \in {"closing", "closed"}
        BY <2>1, FinRead
      <3>2. QED
        BY <1>3, <3>1 DEF Carrier
    <2>2. CASE Register(c, m)
      <3>1. view' = view /\ m.type = "home_register"
        BY <2>2 DEF Register
      <3>2. Registering(c)
        BY <1>1, <3>1, TailFacts DEF Registering
      <3>3. Fresh(up[c], s, version)
        BY <1>3, <1>5, <3>2 DEF Current
      <3>4. ~Of(m, View, s)
        BY <3>1 DEF Of, View
      <3>5. Fresh(Tail(up[c]), s, version)
        BY <1>1, <3>3, <3>4, FreshRead
      <3>6. QED
        BY <1>1, <3>5 DEF Shown
    <2>3. CASE UNCHANGED <<pws, down, manager>> /\ HandleTunnelMessage(m)
      <3>1. Shown(up[c], s, version)
        BY <1>1, <1>3, <1>5, <1>6, <2>3 DEF Current, Serving, manager
      <3>2. CASE WsMessage(m)
        <4>1. view' = [view EXCEPT ![m.id] = IF cws[m.id] = "open" THEN m.n ELSE @]
          BY <3>2 DEF WsMessage
        <4>2. view'[s] = IF m.id = s THEN m.n ELSE view[s]
          BY <1>1, <1>6, <4>1 DEF LocalTypes
        <4>3. Of(m, View, s) <=> m.id = s
          BY <3>2 DEF WsMessage, Of, View
        <4>4. QED
          BY <1>1, <3>1, <4>2, <4>3, ShownRead DEF Shown
      <3>3. CASE ~WsMessage(m)
        <4>1. view' = view /\ m.type # "ws_message"
          BY <2>3, <3>3 DEF HandleTunnelMessage, HttpResponse, HttpStreamStart, HttpStreamChunk, HttpStreamEnd
        <4>2. ~Of(m, View, s)
          BY <4>1 DEF Of, View
        <4>3. QED
          BY <1>1, <3>1, <4>1, <4>2, ShownRead DEF Shown
      <3>4. QED
        BY <3>2, <3>3
    <2>4. CASE IgnoredByProxy(m)
      <3>1. view' = view /\ authenticated /\ m.type = "home_register"
        BY <1>6, <2>4 DEF IgnoredByProxy, Serving, manager
      <3>2. Registering(c)
        BY <1>1, <3>1, TailFacts DEF Registering
      <3>3. Fresh(up[c], s, version)
        BY <1>3, <1>5, <3>2 DEF Current
      <3>4. ~Of(m, View, s)
        BY <3>1 DEF Of, View
      <3>5. Fresh(Tail(up[c]), s, version)
        BY <1>1, <3>3, <3>4, FreshRead
      <3>6. QED
        BY <1>1, <3>5 DEF Shown
    <2>5. QED
      BY <2>1, <2>2, <2>3, <2>4, ReadCases
  <1>7. QED
    BY <1>4, <1>6

\* The proxy's ends when it reads c: c stays open, or begins or goes on to close.
LEMMA ReaderCloses ==
  ASSUME IInv, NEW c \in Conns, ProxyReceives(c)
  PROVE  (pws' = pws \/ pws' = [pws EXCEPT ![c] = "closing"]) /\ pws[c] \in {"open", "closing"}
  <1> USE DEF IInv
  <1> DEFINE m == Head(up[c])
  <1>1. pws[c] \in {"open", "closing"}
    BY ProxyReads
  <1>2. CASE Register(c, m)
    BY <1>1, <1>2 DEF Register, ProxyCloses, LocalTypes
  <1>3. CASE ~Register(c, m)
    BY <1>1, <1>3, ReadCases DEF IgnoredByProxy
  <1>4. QED
    BY <1>1, <1>2, <1>3

LEMMA ProxyReceivesViews ==
  ASSUME IInv, IInv', Wires, Views, NEW c \in Conns, ProxyReceives(c)
  PROVE  Views'
  <1> USE DEF IInv
  <1>1. /\ UNCHANGED <<hws, cut, cws, cauth, verifying, home, version, tunnel>>
        /\ \A d \in Conns : d # c => up'[d] = up[d]
    BY ProxyReads
  <1>2. pws' = pws \/ pws' = [pws EXCEPT ![c] = "closing"]
    BY ReaderCloses
  <1>3. pws[c] = "open" => tunnel = c
    BY DEF Wires, Wire
  <1>4. ASSUME NEW s \in Sessions, NEW d \in Conns, d # c PROVE Current(s, d)'
    <2>1. pws'[d] = pws[d] /\ pws'[c] \in {pws[c], "closing"}
      BY <1>2, <1>4 DEF LocalTypes
    <2>2. Carrier(d)' = Carrier(d) /\ Registering(d)' = Registering(d) /\ Fresh(up[d], s, version)' = Fresh(up[d], s, version)
      BY <1>1, <1>4, <2>1 DEF Carrier, Registering, Fresh
    <2>3. ~(Serving(d)' /\ \A e \in Conns : pws'[e] # "closing")
      BY <1>1, <1>3, <1>4, <2>1, ReaderCloses DEF Serving
    <2>4. QED
      BY <1>1, <2>2, <2>3 DEF Current, Views, home
  <1>5. \A s \in Sessions : Connected(s)'
    BY <1>1 DEF Views, Connected
  <1>6. \A s \in Sessions : Current(s, c)'
    BY ReaderViews
  <1>7. QED
    BY <1>4, <1>5, <1>6 DEF Views

-----------------------------------------------------------------------------
\* The home's steps.
LEMMA ConnectViews ==
  ASSUME IInv, IInv', Views, Connect
  PROVE  Views'
  <1> USE DEF IInv
  <1>1. UNCHANGED <<pws, up, cut, manager, clients, sessions, version>>
    BY DEF Connect
  <1>2. \A c \in Conns : Carrier(c)' => Carrier(c)
    BY DEF Connect, Carrier, LocalTypes
  <1>3. ASSUME NEW s \in Sessions, NEW c \in Conns PROVE Unseen(s, c)
    <2>1. Same(up'[c], up[c], View, s)
      BY <1>1, SameSelf, Channels
    <2>2. Registering(c)' = Registering(c) /\ Serving(c)' = Serving(c)
      BY <1>1 DEF Registering, Serving, manager
    <2>3. QED
      BY <1>1, <1>2, <2>1, <2>2 DEF Unseen, clients
  <1>4. \A s \in Sessions : Connected(s) => Connected(s)'
    BY <1>1 DEF Connected, clients
  <1>5. QED
    BY <1>3, <1>4, ViewsKept

LEMMA HomeClosingViews ==
  ASSUME IInv, IInv', Views, NEW c \in Conns, HomeAuthTimeout(c) \/ HomeSocketError(c)
  PROVE  Views'
  <1> USE DEF IInv
  <1>1. UNCHANGED <<pws, cut, manager, clients, sessions, version>>
    BY DEF HomeAuthTimeout, HomeSocketError, home
  <1>2. UNCHANGED <<hws, up>> \/ \E d \in Conns : HomeCloses(d)
    BY DEF HomeAuthTimeout, HomeSocketError, LocalTypes
  <1>3. CASE UNCHANGED <<hws, up>>
    BY <1>1, <1>3, NothingShown DEF clients, Connected
  <1>4. CASE \E d \in Conns : HomeCloses(d)
    <2>1. PICK d \in Conns : HomeCloses(d)
      BY <1>4
    <2>2. hws'[d] # "open" /\ \A e \in Conns : e # d => hws'[e] = hws[e]
      BY <2>1 DEF HomeCloses, LocalTypes
    <2>3. \A e \in Conns : e # d => up'[e] = up[e]
      BY <2>1, UpAt DEF HomeCloses
    <2>4. ~Carrier(d)'
      BY <2>2 DEF Carrier
    <2>5. QED
      BY <1>1, <2>2, <2>3, <2>4, Dropped DEF manager
  <1>5. QED
    BY <1>2, <1>3, <1>4

LEMMA HomeEndsViews ==
  ASSUME Views, Stop \/ HomeRestarts \/ \E c \in Conns : HomeClosed(c)
  PROVE  Views'
  BY NoSession DEF Stop, HomeRestarts, HomeClosed

\* What is sent over the home's socket.
LEMMA CarrierSends ==
  ASSUME IInv, Wires, NEW c \in Conns, Carrier(c), NEW ms
  PROVE  Send(ms)[c] = up[c] \o ms
  <1>1. ws = c /\ hws[c] = "open"
    BY DEF Carrier, Wires, HomeSide
  <1>2. Whole(c)
    BY DEF Carrier, Whole
  <1>3. QED
    BY <1>1, <1>2, SendAt DEF IInv

\* The home sends what is not of s.
LEMMA SendsUnseen ==
  ASSUME IInv, UNCHANGED <<pws, hws, cut, manager, clients, version>>,
         NEW s \in Sessions, s \in sessions' => s \in sessions,
         NEW ms \in Seq(GoodUp), NoMark(ms), Free(ms, View, s), up' = Send(ms) \/ up' = up, NEW c \in Conns
  PROVE  Unseen(s, c)
  <1> USE DEF IInv
  <1>1. up'[c] = up[c] \/ up'[c] = up[c] \o ms
    BY SendAt
  <1>2. up[c] \in Seq(GoodUp)
    BY Channels
  <1>3. Same(up'[c], up[c], View, s)
    BY <1>1, <1>2, SameSelf, SameAppend
  <1>4. Registering(c)' => Registering(c)
    <2>1. ASSUME NEW i \in DOMAIN (up[c] \o ms), (up[c] \o ms)[i].type = "home_register"
          PROVE  i \in DOMAIN up[c] /\ (up[c] \o ms)[i] = up[c][i]
      <3>1. \/ i \in DOMAIN up[c] /\ (up[c] \o ms)[i] = up[c][i]
            \/ \E j \in DOMAIN ms : (up[c] \o ms)[i] = ms[j]
        BY <1>2, ConcatFacts
      <3>2. QED
        BY <2>1, <3>1 DEF NoMark
    <2>2. QED
      BY <1>1, <2>1 DEF Registering
  <1>5. Carrier(c)' = Carrier(c) /\ Serving(c)' = Serving(c)
    BY DEF Carrier, Serving, manager
  <1>6. QED
    BY <1>3, <1>4, <1>5 DEF Unseen, clients

LEMMA AnswerViews ==
  ASSUME IInv, IInv', Views, NEW r \in Requests, AnswerStep(r)
  PROVE  Views'
  <1>1. UNCHANGED <<pws, hws, cut, manager, clients, sessions, version>>
    BY DEF AnswerStep, InjectEnds, FetchStarts, ReadChunk, StreamEnds, AbortSettles, home
  <1>2. PICK ms \in Seq(GoodUp) : (\A i \in DOMAIN ms : ms[i].type \in Answers) /\ (up' = Send(ms) \/ up' = up)
    BY Answering
  <1>3. NoMark(ms) /\ \A s : Free(ms, View, s)
    BY <1>2 DEF NoMark, Free, Of, View, Answers, StreamTypes
  <1>4. \A s \in Sessions : \A c \in Conns : Unseen(s, c)
    BY <1>1, <1>2, <1>3, SendsUnseen
  <1>5. \A s \in Sessions : Connected(s) => Connected(s)'
    BY <1>1 DEF Connected, clients
  <1>6. QED
    BY <1>4, <1>5, ViewsKept DEF IInv

\* A session the home has just shown its state.
LEMMA ShownNow ==
  ASSUME IInv, Wires, UNCHANGED <<pws, hws, cut>>, NEW s, NEW ms \in Seq(GoodUp), up' = Send(ms),
         Shows(ms, s, version'),
         NEW c \in Conns
  PROVE  Current(s, c)'
  <1>1. SUFFICES ASSUME Carrier(c)' PROVE Fresh(up'[c], s, version')
    BY DEF Current, Shown
  <1>2. Carrier(c)
    BY <1>1 DEF Carrier
  <1>3. up'[c] = up[c] \o ms /\ up[c] \in Seq(GoodUp)
    BY <1>2, CarrierSends, Channels DEF IInv
  <1>4. QED
    BY <1>3, FreshSent

LEMMA BroadcastViews ==
  ASSUME IInv, Wires, Views, Broadcast
  PROVE  Views'
  <1>1. UNCHANGED <<pws, hws, cut, clients, homeAuth, sessions>> /\ version' = version + 1
    BY DEF Broadcast, home
  <1>2. CASE ~homeAuth
    <2>1. sessions' = {}
      BY <1>1, <1>2 DEF Wires, HomeSide
    <2>2. QED
      BY <1>1, <2>1, NoSession
  <1>3. CASE homeAuth
    <2>1. PICK ms \in Seq(GoodUp) :
            /\ up' = Send(ms) /\ \A i \in DOMAIN ms : ms[i].type = "ws_message" /\ ms[i].n = version'
            /\ \A s \in sessions : \E i \in DOMAIN ms : ms[i].id = s
      BY <1>1, <1>3, Broadcasted
    <2>2. ASSUME NEW s \in Sessions, NEW c \in Conns PROVE Current(s, c)'
      <3>1. CASE s \notin sessions'
        BY <3>1 DEF Current
      <3>2. CASE s \in sessions'
        <4>1. Shows(ms, s, version')
          BY <1>1, <2>1, <3>2 DEF Shows, Of, View
        <4>2. QED
          BY <1>1, <2>1, <4>1, ShownNow
      <3>3. QED
        BY <3>1, <3>2
    <2>3. \A s \in Sessions : Connected(s)'
      BY <1>1 DEF Views, Connected, clients
    <2>4. QED
      BY <2>2, <2>3 DEF Views
  <1>4. QED
    BY <1>2, <1>3

\* The home reads.
LEMMA HomeReceivesViews ==
  ASSUME IInv, IInv', Wires, Views, NEW c \in Conns, HomeReceives(c)
  PROVE  Views'
  <1> USE DEF IInv
  <1> DEFINE m == Head(down[c])
  <1>1. /\ UNCHANGED <<pws, cut, manager, clients, version>>
        /\ \A d \in Conns : d # c => hws'[d] = hws[d]
    BY HomeHears
  <1>2. \A s \in Sessions : Connected(s) => Connected(s)'
    BY <1>1 DEF Connected, clients
  <1>3. CASE hws[c] = "connecting"
    <2>1. Opened(c, m)
      BY <1>3, OpeningRead
    <2>2. sessions' = {}
      BY <1>3, <2>1 DEF Opened, Wires, HomeSide
    <2>3. QED
      BY <1>1, <2>2, NoSession
  <1>4. CASE m = Fin /\ hws' = [hws EXCEPT ![c] = "closing"] /\ UNCHANGED <<up, sessions>>
    <2>1. ~Carrier(c)'
      BY <1>4 DEF Carrier, LocalTypes
    <2>2. QED
      BY <1>1, <1>4, <2>1, Dropped DEF manager
  <1>5. ASSUME hws[c] # "connecting", ~(m = Fin /\ hws' = [hws EXCEPT ![c] = "closing"] /\ UNCHANGED <<up, sessions>>)
        PROVE  hws' = hws
    BY <1>5 DEF HomeReceives, HandleMessage, Registered, Opened, IgnoredByHome
  <1>6. CASE hws' = hws /\ HandleWsOpen(m) /\ m.id \notin sessions
    <2>1. m.id \in Sessions /\ cauth[m.id]
      BY <1>6, TailFacts, Channels, DownFields DEF HandleWsOpen, HomeReceives
    <2>2. PICK q \in Sessions : q = m.id
      BY <2>1
    <2>3. PICK n : n = Msg("ws_message", q, version)
      OBVIOUS
    <2>4. n \in GoodUp /\ n.type = "ws_message" /\ n.id = q /\ n.n = version
      BY <2>1, <2>2, <2>3, SessionUp, MsgFields DEF LocalTypes
    <2>5. PICK ms : ms = <<n>>
      OBVIOUS
    <2>6. ms \in Seq(GoodUp) /\ DOMAIN ms = {1} /\ ms[1] = n
      BY <2>4, <2>5, OneMessage
    <2>7. up' = Send(ms) /\ sessions' = sessions \cup {q}
      BY <1>6, <2>2, <2>3, <2>5 DEF HandleWsOpen, Snapshot
    <2>8. NoMark(ms) /\ Shows(ms, q, version') /\ \A s : s # q => Free(ms, View, s)
      BY <1>1, <2>4, <2>6 DEF NoMark, Shows, Free, Of, View
    <2>9. ASSUME NEW s \in Sessions, NEW d \in Conns PROVE Current(s, d)'
      <3>1. CASE s = q
        BY <1>1, <1>6, <2>6, <2>7, <2>8, <3>1, ShownNow
      <3>2. CASE s # q
        <4>1. Unseen(s, d)
          BY <1>1, <1>6, <2>6, <2>7, <2>8, <3>2, SendsUnseen
        <4>2. QED
          BY <4>1, CurrentKept DEF Views
      <3>3. QED
        BY <3>1, <3>2
    <2>10. QED
      BY <1>2, <2>9 DEF Views
  <1>7. CASE hws[c] # "connecting" /\ hws' = hws /\ ~(HandleWsOpen(m) /\ m.id \notin sessions)
    <2>1. up' = up
      BY <1>7, HomeReplies
    <2>2. \A s \in Sessions : s \in sessions' => s \in sessions
      BY <1>7 DEF HomeReceives, HandleMessage, HandleHttpRequest, HandleStreamCancel, HandleWsOpen, HandleWsClose,
                  Registered, Opened, IgnoredByHome
    <2>3. <<>> \in Seq(GoodUp) /\ NoMark(<<>>) /\ \A s : Free(<<>>, View, s)
      BY EmptySeq, FreeEmpty DEF NoMark
    <2>4. \A s \in Sessions : \A d \in Conns : Unseen(s, d)
      BY <1>1, <1>7, <2>1, <2>2, <2>3, SendsUnseen
    <2>5. QED
      BY <1>2, <2>4, ViewsKept
  <1>8. QED
    BY <1>3, <1>4, <1>5, <1>6, <1>7

LEMMA InitViews == Init => Views
  BY DEF Init, Views, Current, Connected

LEMMA NextViews ==
  ASSUME IInv, IInv', Wires, Views, [Next]_vars
  PROVE  Views'
  <1>1. CASE \E c \in Conns : Cut(c) \/ ProxyTunnelStep(c) \/ HomeTunnelStep(c)
    <2>1. PICK c \in Conns : Cut(c) \/ ProxyTunnelStep(c) \/ HomeTunnelStep(c)
      BY <1>1
    <2>2. CASE Cut(c) \/ ProxyTunnelStep(c)
      BY <2>2, CutViews, AcceptViews, ProxyReceivesViews, ProxyAuthTimeoutViews, MissedPongViews, ProxyClosedViews
         DEF ProxyTunnelStep
    <2>3. CASE HomeTunnelStep(c)
      BY <2>3, HomeReceivesViews, HomeClosingViews, HomeEndsViews DEF HomeTunnelStep
    <2>4. QED
      BY <2>1, <2>2, <2>3
  <1>2. CASE \E r \in Requests : RequestStep(r) \/ AnswerStep(r)
    BY <1>2, RequestViews, AnswerViews
  <1>3. CASE \E s \in Sessions : ClientStep(s)
    BY <1>3, ClientViews
  <1>4. CASE Connect \/ Stop \/ HomeRestarts \/ Broadcast
    BY <1>4, ConnectViews, HomeEndsViews, BroadcastViews
  <1>5. CASE UNCHANGED vars
    <2>1. UNCHANGED <<pws, hws, up, cut, manager, view, sessions, version, cws, cauth, verifying>>
      BY <1>5 DEF vars, wire, clients, home
    <2>2. \A s \in Sessions : Connected(s) => Connected(s)'
      BY <2>1 DEF Connected
    <2>3. QED
      BY <2>1, <2>2, NothingShown
  <1>6. QED
    BY <1>1, <1>2, <1>3, <1>4, <1>5 DEF Next

-----------------------------------------------------------------------------
(* The two invariants are inductive together with the connections'.        *)

LEMMA Delivery == Spec => []Delivers
  <1>1. Init => Delivers
    BY InitIInv, InitWires, InitStreams, InitViews DEF Delivers
  <1>2. Delivers /\ [Next]_vars => Delivers'
    <2> SUFFICES ASSUME Delivers, [Next]_vars PROVE Delivers'
      OBVIOUS
    <2>1. IInv /\ IInv'
      BY NextIInv DEF Delivers
    <2>2. Wires /\ Wires'
      BY <2>1, NextWires DEF Delivers
    <2>3. Streams'
      BY <2>1, <2>2, NextStreams DEF Delivers
    <2>4. Views'
      BY <2>1, <2>2, NextViews DEF Delivers
    <2>5. QED
      BY <2>1, <2>2, <2>3, <2>4 DEF Delivers
  <1>3. QED
    BY <1>1, <1>2, PTL DEF Spec

\* A streamed body that is answered as complete is the whole body the home read: the
\* frames of a stream the proxy still waits for come over the one connection it reads,
\* in order and without a gap before a good end, whatever is cut, closed, restarted,
\* cancelled or aborted (client.ts send and handleStreamRequest, proxy.ts 'end').
THEOREM BodyIsWhole == Spec => []CompleteBody
  <1>1. Delivers => CompleteBody
    BY DEF Delivers, Streams, Stream, Complete, CompleteBody
  <1>2. QED
    BY <1>1, Delivery, PTL

\* A client whose session the home knows is shown the home's present state once the
\* tunnel is registered, its line is empty and no earlier socket is closing
\* (client.ts handleWsOpen, setupEventBusForwarding and send).
THEOREM ViewsFollow == Spec => []ViewIsCurrent
  <1>1. Delivers => ViewIsCurrent
    <2> SUFFICES ASSUME Delivers, NEW s \in sessions,
                        IsConnected /\ ws = tunnel /\ hws[ws] = "open" /\ ws \notin cut /\ up[ws] = <<>>,
                        cws[s] = "open" /\ \A c \in Conns : pws[c] # "closing"
                 PROVE  view[s] = version
      BY DEF ViewIsCurrent
    <2>1. tunnel \in Conns /\ s \in Sessions
      BY DEF Delivers, IInv, LocalTypes, IsConnected
    <2>2. Current(s, tunnel)
      BY <2>1 DEF Delivers, Views
    <2>3. Carrier(tunnel) /\ Serving(tunnel)
      BY <2>1 DEF Carrier, Serving, IsConnected
    <2>4. Shown(up[tunnel], s, version)
      BY <2>2, <2>3 DEF Current
    <2>5. QED
      BY <2>4 DEF Shown, Fresh
  <1>2. QED
    BY <1>1, Delivery, PTL
=============================================================================
