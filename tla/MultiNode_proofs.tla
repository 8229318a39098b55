--------------------------- MODULE MultiNode_proofs ---------------------------
(***************************************************************************)
(* Proofs about MultiNode, for any number of nodes and any frame counts,   *)
(* chunk sizes and word.                                                   *)
(***************************************************************************)
EXTENDS MultiNode, SequenceTheorems, FiniteSetTheorems, TLAPS

-----------------------------------------------------------------------------
(* Integer division.                                                       *)

LEMMA DivMod ==
  ASSUME NEW a \in Int, NEW c \in Nat \ {0}
  PROVE  /\ a \div c \in Int /\ a % c \in 0 .. c - 1
         /\ a = c * (a \div c) + (a % c)
OBVIOUS

LEMMA DivModIs ==
  ASSUME NEW a \in Int, NEW c \in Nat \ {0}, NEW q \in Int, NEW r \in 0 .. c - 1, a = c * q + r
  PROVE  a \div c = q /\ a % c = r
OBVIOUS

LEMMA TimesGrows ==
  ASSUME NEW s \in Nat, NEW i \in Int, NEW j \in Int, i <= j
  PROVE  s * i <= s * j
OBVIOUS

LEMMA TimesCancels ==
  ASSUME NEW s \in Nat \ {0}, NEW i \in Int, NEW j \in Int, s * i < s * j
  PROVE  i < j
OBVIOUS

-----------------------------------------------------------------------------
(* The division of the frames.                                             *)

LEMMA MinOfTwo ==
  ASSUME NEW a \in Int, NEW b \in Int
  PROVE  Min({a, b}) = IF a <= b THEN a ELSE b
<1>1. \E x \in {a, b} : \A y \in {a, b} : x =< y
  OBVIOUS
<1> QED
  BY <1>1 DEF Min

LEMMA FirstType ==
  ASSUME NEW i \in Int, NEW s \in Int
  PROVE  First(i, s) \in Frame
<1>1. (i - 1) * s \in Int
  OBVIOUS
<1> QED
  BY <1>1, MultiNodeAssumption, DivMod DEF First, Frame, MultiNodeAssumption

LEMMA LastType ==
  ASSUME NEW i \in Int, NEW s \in Int, NEW n \in 1 .. Word - 1
  PROVE  Last(i, n, s) \in Frame
<1>1. First(i, s) + s - 1 \in Int /\ Word \in Nat \ {0}
  BY FirstType, MultiNodeAssumption DEF Frame, MultiNodeAssumption
<1>2. (First(i, s) + s - 1) % Word \in 0 .. Word - 1
  BY <1>1, DivMod
<1>3. n - 1 \in 0 .. Word - 1
  BY <1>1
<1> QED
  BY <1>2, <1>3, MinOfTwo DEF Last, Frame

(* When frame_count + chunk_size - 1 does not fit the word, nothing is     *)
(* divided; when it does, there are as many chunks as it takes.            *)
LEMMA ChunkCountIs ==
  ASSUME NEW n \in 1 .. Word - 1, NEW s \in 1 .. Word - 1
  PROVE  /\ ChunkCount(n, s) \in Nat
         /\ n + s - 1 >= Word => ChunkCount(n, s) = 0
         /\ n + s - 1 < Word =>
              /\ s * ChunkCount(n, s) <= n + s - 1
              /\ n - 1 < s * ChunkCount(n, s)
<1> DEFINE t == (n + s - 1) % Word
<1>0. Word \in Nat \ {0} /\ s \in Nat \ {0} /\ n \in Nat
  BY MultiNodeAssumption DEF MultiNodeAssumption
<1>1. t \in 0 .. Word - 1
  BY <1>0, DivMod
<1>2. n + s - 1 < Word => t = n + s - 1
  <2> SUFFICES ASSUME n + s - 1 < Word
               PROVE  t = n + s - 1
    OBVIOUS
  <2>1. n + s - 1 = Word * 0 + (n + s - 1) /\ n + s - 1 \in 0 .. Word - 1
    BY <1>0
  <2> QED
    BY <1>0, <2>1, DivModIs
<1>3. n + s - 1 >= Word => t = n + s - 1 - Word
  <2> SUFFICES ASSUME n + s - 1 >= Word
               PROVE  t = n + s - 1 - Word
    OBVIOUS
  <2>1. n + s - 1 = Word * 1 + (n + s - 1 - Word) /\ n + s - 1 - Word \in 0 .. Word - 1
    BY <1>0
  <2> QED
    BY <1>0, <2>1, DivModIs
<1> HIDE DEF t
<1>4. /\ t \div s \in Int /\ t % s \in 0 .. s - 1 /\ t = s * (t \div s) + (t % s)
  BY <1>0, <1>1, DivMod
<1>5. t \div s \in Nat
  <2>1. s * (t \div s) > s * (-1)
    BY <1>0, <1>1, <1>4
  <2> QED
    BY <1>0, <1>4, <2>1, TimesCancels
<1>6. ChunkCount(n, s) = t \div s
  BY DEF ChunkCount, t
<1>7. ASSUME n + s - 1 >= Word
      PROVE  t \div s = 0
  <2>1. t = s * 0 + t /\ t \in 0 .. s - 1
    BY <1>0, <1>1, <1>3, <1>7
  <2> QED
    BY <1>0, <2>1, DivModIs
<1>8. ASSUME n + s - 1 < Word
      PROVE  s * (t \div s) <= n + s - 1 /\ n - 1 < s * (t \div s)
  BY <1>0, <1>2, <1>4, <1>8
<1> QED
  BY <1>5, <1>6, <1>7, <1>8

(* Where a chunk begins and ends.                                          *)
LEMMA BoundsOfChunk ==
  ASSUME NEW n \in 1 .. Word - 1, NEW s \in 1 .. Word - 1, n + s - 1 < Word,
         NEW i \in 1 .. ChunkCount(n, s)
  PROVE  /\ First(i, s) = s * (i - 1) /\ First(i, s) \in 0 .. n - 1
         /\ Last(i, n, s) = (IF s * i <= n THEN s * i - 1 ELSE n - 1)
         /\ First(i, s) <= Last(i, n, s) /\ Last(i, n, s) - First(i, s) < s
         /\ s * i - s = s * (i - 1)
<1>0. /\ Word \in Nat \ {0} /\ s \in Nat \ {0} /\ n \in Nat /\ ChunkCount(n, s) \in Nat
      /\ i \in Nat \ {0} /\ i <= ChunkCount(n, s)
  BY ChunkCountIs, MultiNodeAssumption DEF MultiNodeAssumption
<1> DEFINE x == s * (i - 1)
<1>1. x \in Int /\ s * i = x + s /\ (i - 1) * s = x
  BY <1>0
<1>2. 0 <= x
  <2>1. s * 0 <= s * (i - 1)
    BY <1>0, TimesGrows
  <2> QED
    BY <1>0, <2>1
<1>3. x <= n - 1
  <2>1. s * i <= s * ChunkCount(n, s)
    BY <1>0, TimesGrows
  <2>2. s * ChunkCount(n, s) <= n + s - 1 /\ s * ChunkCount(n, s) \in Int
    BY <1>0, ChunkCountIs
  <2> HIDE DEF x
  <2> QED
    BY <1>0, <1>1, <2>1, <2>2
<1> HIDE DEF x
<1>4. First(i, s) = x
  <2>1. x = Word * 0 + x /\ x \in 0 .. Word - 1
    BY <1>0, <1>1, <1>2, <1>3
  <2>2. x % Word = x
    BY <1>0, <1>1, <2>1, DivModIs
  <2> QED
    BY <1>1, <2>2 DEF First
<1>5. Last(i, n, s) = IF x + s - 1 <= n - 1 THEN x + s - 1 ELSE n - 1
  <2>1. x + s - 1 = Word * 0 + (x + s - 1) /\ x + s - 1 \in 0 .. Word - 1
    BY <1>0, <1>1, <1>2, <1>3
  <2>2. (x + s - 1) % Word = x + s - 1
    <3>1. x + s - 1 \in Int
      BY <1>0, <1>1
    <3> QED
      BY <1>0, <2>1, <3>1, DivModIs
  <2> QED
    BY <1>0, <1>1, <1>4, <2>2, MinOfTwo DEF Last
<1>6. s * i <= n => x + s - 1 <= n - 1
  BY <1>0, <1>1
<1>7. ~(s * i <= n) => ~(x + s - 1 <= n - 1)
  BY <1>0, <1>1
<1>8. First(i, s) = s * (i - 1)
  BY <1>4 DEF x
<1>9. s * i - s = s * (i - 1)
  BY <1>0
<1> QED
  BY <1>0, <1>1, <1>2, <1>3, <1>4, <1>5, <1>6, <1>7, <1>8, <1>9

(* The chunks cover the frames, each frame once.                           *)
LEMMA ChunksCover ==
  ASSUME NEW n \in 1 .. Word - 1, NEW s \in 1 .. Word - 1, n + s - 1 < Word
  PROVE  /\ UNION {First(i, s) .. Last(i, n, s) : i \in 1 .. ChunkCount(n, s)} = 0 .. n - 1
         /\ \A i, j \in 1 .. ChunkCount(n, s) :
              i # j => (First(i, s) .. Last(i, n, s)) \cap (First(j, s) .. Last(j, n, s)) = {}
<1>0. Word \in Nat \ {0} /\ s \in Nat \ {0} /\ n \in Nat /\ ChunkCount(n, s) \in Nat
  BY ChunkCountIs, MultiNodeAssumption DEF MultiNodeAssumption
<1>1. ASSUME NEW i \in 1 .. ChunkCount(n, s), NEW f \in First(i, s) .. Last(i, n, s)
      PROVE  f \in 0 .. n - 1
  <2>1. First(i, s) \in 0 .. n - 1 /\ Last(i, n, s) \in Int /\ Last(i, n, s) <= n - 1
    BY <1>0, BoundsOfChunk
  <2> QED
    BY <1>0, <2>1
<1>2. ASSUME NEW f \in 0 .. n - 1
      PROVE  \E i \in 1 .. ChunkCount(n, s) : f \in First(i, s) .. Last(i, n, s)
  <2> DEFINE q == f \div s
  <2>0. f \in Int
    BY <1>0
  <2>1. q \in Int /\ f % s \in 0 .. s - 1 /\ f = s * q + (f % s)
    BY <1>0, <2>0, DivMod
  <2> HIDE DEF q
  <2>2. s * q \in Int /\ s * (q + 1) = s * q + s
    BY <1>0, <2>1
  <2>3. q + 1 >= 1
    <3>1. s * (-1) < s * q
      BY <1>0, <2>1, <2>2
    <3> QED
      BY <1>0, <2>1, <3>1, TimesCancels
  <2>4. q + 1 <= ChunkCount(n, s)
    <3>1. s * q < s * ChunkCount(n, s)
      <4>1. n - 1 < s * ChunkCount(n, s) /\ s * ChunkCount(n, s) \in Int
        BY <1>0, ChunkCountIs
      <4> QED
        BY <1>0, <2>1, <2>2, <4>1
    <3> QED
      BY <1>0, <2>1, <3>1, TimesCancels
  <2>5. q + 1 \in 1 .. ChunkCount(n, s)
    BY <1>0, <2>1, <2>3, <2>4
  <2>6. /\ First(q + 1, s) = s * q
        /\ Last(q + 1, n, s) = IF s * (q + 1) <= n THEN s * (q + 1) - 1 ELSE n - 1
    <3>1. (q + 1) - 1 = q
      BY <2>1
    <3> QED
      BY <2>5, <3>1, BoundsOfChunk
  <2>7. f \in First(q + 1, s) .. Last(q + 1, n, s)
    BY <1>0, <2>1, <2>2, <2>6
  <2> QED
    BY <2>5, <2>7
<1>3. ASSUME NEW i \in 1 .. ChunkCount(n, s), NEW j \in 1 .. ChunkCount(n, s), i < j
      PROVE  (First(i, s) .. Last(i, n, s)) \cap (First(j, s) .. Last(j, n, s)) = {}
  <2>1. s * i <= s * (j - 1)
    BY <1>0, <1>3, TimesGrows
  <2>2. First(j, s) = s * (j - 1) /\ First(j, s) \in Int /\ First(i, s) \in Int
    BY <1>0, BoundsOfChunk
  <2>3. Last(i, n, s) \in Int /\ Last(i, n, s) < s * i /\ s * i \in Int
    BY <1>0, BoundsOfChunk
  <2>4. Last(j, n, s) \in Int
    BY <1>0, BoundsOfChunk
  <2> QED
    BY <2>1, <2>2, <2>3, <2>4
<1>4. ASSUME NEW i \in 1 .. ChunkCount(n, s), NEW j \in 1 .. ChunkCount(n, s), i # j
      PROVE  (First(i, s) .. Last(i, n, s)) \cap (First(j, s) .. Last(j, n, s)) = {}
  <2>1. i < j \/ j < i
    BY <1>0, <1>4
  <2>2. CASE i < j
    BY <1>3, <2>2
  <2>3. CASE j < i
    <3>1. (First(j, s) .. Last(j, n, s)) \cap (First(i, s) .. Last(i, n, s)) = {}
      BY <1>3, <2>3
    <3> QED
      BY <3>1
  <2> QED
    BY <2>1, <2>2, <2>3
<1> QED
  BY <1>1, <1>2, <1>4

-----------------------------------------------------------------------------
(* The assignment of chunks to nodes.                                      *)

Rank(x, A) == Cardinality({y \in A : y <= x})

(* Counting from the least, every available node has a place of its own,   *)
(* and every place is taken.                                               *)
LEMMA RanksAreTaken ==
  ASSUME NEW A \in SUBSET Nodes, A # {}
  PROVE  /\ IsFiniteSet(A) /\ Cardinality(A) \in Nat \ {0}
         /\ \A x \in A : Rank(x, A) \in 1 .. Cardinality(A)
         /\ \A x, y \in A : Rank(x, A) = Rank(y, A) => x = y
         /\ \A k \in 1 .. Cardinality(A) : \E x \in A : Rank(x, A) = k
<1> DEFINE upto(x) == {y \in A : y <= x}
<1>0. NumNodes \in Nat /\ A \subseteq Nat
  BY MultiNodeAssumption DEF MultiNodeAssumption, Nodes
<1>1. IsFiniteSet(A) /\ Cardinality(A) \in Nat /\ Cardinality(A) # 0
  <2>1. IsFiniteSet(1 .. NumNodes)
    BY <1>0, FS_Interval
  <2>2. IsFiniteSet(A)
    BY <2>1, FS_Subset DEF Nodes
  <2> QED
    BY <2>2, FS_CardinalityType, FS_EmptySet
<1>2. ASSUME NEW x \in A
      PROVE  IsFiniteSet(upto(x)) /\ Rank(x, A) \in 1 .. Cardinality(A)
  <2>1. IsFiniteSet(upto(x)) /\ Cardinality(upto(x)) <= Cardinality(A)
    BY <1>1, FS_Subset, upto(x) \subseteq A
  <2>2. x \in upto(x)
    BY <1>0
  <2>3. Cardinality(upto(x)) \in Nat /\ Cardinality(upto(x)) # 0
    BY <2>1, <2>2, FS_CardinalityType, FS_EmptySet
  <2> QED
    BY <1>1, <2>1, <2>3 DEF Rank
<1>3. ASSUME NEW x \in A, NEW y \in A, x < y
      PROVE  Rank(x, A) < Rank(y, A)
  <2>0. x \in Nat /\ y \in Nat /\ \A z \in A : z \in Nat
    BY <1>0
  <2>1. upto(x) \subseteq upto(y) /\ y \in upto(y) /\ y \notin upto(x)
    <3>1. (\A z \in A : z <= x => z <= y) /\ y <= y /\ ~(y <= x)
      BY <1>3, <2>0
    <3> QED
      BY <3>1, Zenon
  <2>2. upto(x) # upto(y)
    BY <2>1
  <2>3. Cardinality(upto(x)) <= Cardinality(upto(y))
        /\ (Cardinality(upto(x)) = Cardinality(upto(y)) => upto(x) = upto(y))
    BY <1>2, <2>1, FS_Subset
  <2>4. Cardinality(upto(x)) \in Nat /\ Cardinality(upto(y)) \in Nat
    BY <1>2, FS_CardinalityType
  <2> QED
    BY <2>2, <2>3, <2>4 DEF Rank
<1>4. ASSUME NEW x \in A, NEW y \in A, Rank(x, A) = Rank(y, A)
      PROVE  x = y
  <2>1. x \in Nat /\ y \in Nat /\ Rank(x, A) \in 1 .. Cardinality(A)
    BY <1>0, <1>2
  <2>2. ~(x < y) /\ ~(y < x)
    BY <1>1, <1>3, <1>4, <2>1
  <2> QED
    BY <2>1, <2>2
<1> DEFINE f == [x \in A |-> Rank(x, A)]
<1>5. f \in Injection(A, 1 .. Cardinality(A))
  BY <1>2, <1>4 DEF Injection, IsInjective
<1>6. IsFiniteSet(1 .. Cardinality(A)) /\ Cardinality(1 .. Cardinality(A)) = Cardinality(A)
  BY <1>1, FS_Interval
<1>7. f \in Surjection(A, 1 .. Cardinality(A))
  <2> HIDE DEF f
  <2> QED
    BY <1>5, <1>6, FS_Injection
<1>8. ASSUME NEW k \in 1 .. Cardinality(A)
      PROVE  \E x \in A : Rank(x, A) = k
  BY <1>7 DEF Surjection
<1> QED
  BY <1>1, <1>2, <1>4, <1>8

(* The node of the i-th chunk is the available one in the i-th place,      *)
(* going round.                                                            *)
LEMMA TurnIs ==
  ASSUME NEW A \in SUBSET Nodes, A # {}, NEW i \in Int
  PROVE  /\ Turn(i, A) \in A
         /\ \A n \in A : Turn(i, A) = n <=> (i - 1) % Cardinality(A) = Rank(n, A) - 1
<1> DEFINE k == ((i - 1) % Cardinality(A)) + 1
<1>1. Cardinality(A) \in Nat \ {0}
  BY RanksAreTaken
<1>2. (i - 1) % Cardinality(A) \in 0 .. Cardinality(A) - 1
  BY <1>1, DivMod
<1>3. k \in 1 .. Cardinality(A) /\ k - 1 = (i - 1) % Cardinality(A)
  BY <1>1, <1>2
<1>4. Turn(i, A) = CHOOSE x \in A : Rank(x, A) = k
  BY DEF Turn, Rank
<1> HIDE DEF k
<1>5. \E x \in A : Rank(x, A) = k
  BY <1>3, RanksAreTaken
<1>6. Turn(i, A) \in A /\ Rank(Turn(i, A), A) = k
  BY <1>4, <1>5
<1>7. \A n \in A : Rank(n, A) \in 1 .. Cardinality(A)
  BY RanksAreTaken
<1>8. \A n \in A : Turn(i, A) = n <=> Rank(n, A) = k
  BY <1>6, RanksAreTaken
<1> QED
  BY <1>1, <1>3, <1>6, <1>7, <1>8

(* Dealing out N chunks in turn, no node gets two more than another.       *)
LEMMA TurnsAreFair ==
  ASSUME NEW A \in SUBSET Nodes, NEW m \in A, NEW n \in A, NEW N \in Nat
  PROVE  Cardinality({i \in 1 .. N : Turn(i, A) = m})
           <= Cardinality({i \in 1 .. N : Turn(i, A) = n}) + 1
<1> DEFINE c == Cardinality(A)
           rm == Rank(m, A)
           rn == Rank(n, A)
           S == {i \in 1 .. N : Turn(i, A) = m}
           T == {i \in 1 .. N : Turn(i, A) = n}
           g == [i \in S \ {rm} |-> i - c - rm + rn]
<1>1. c \in Nat \ {0} /\ rm \in 1 .. c /\ rn \in 1 .. c
  BY RanksAreTaken
<1>2. /\ \A i \in 1 .. N : i \in S <=> (i - 1) % c = rm - 1
      /\ \A i \in 1 .. N : i \in T <=> (i - 1) % c = rn - 1
  BY TurnIs
<1>3. S \subseteq 1 .. N /\ T \subseteq 1 .. N
  OBVIOUS
<1> HIDE DEF c, rm, rn, S, T
<1>4. ASSUME NEW i \in S \ {rm}
      PROVE  i - c - rm + rn \in T
  <2> DEFINE q == (i - 1) \div c
  <2>0. i \in 1 .. N /\ i \in Int /\ (i - 1) % c = rm - 1
    BY <1>2, <1>3
  <2>1. q \in Int /\ i - 1 = c * q + (rm - 1)
    BY <1>1, <2>0, DivMod, i - 1 \in Int
  <2> HIDE DEF q
  <2>2. q >= 1
    <3>1. c * q > c * (-1)
      BY <1>1, <2>0, <2>1
    <3>2. q > -1
      BY <1>1, <2>1, <3>1, TimesCancels
    <3>3. q # 0
      <4>1. c * 0 = 0
        BY <1>1
      <4> QED
        BY <1>1, <2>0, <2>1, <4>1
    <3> QED
      BY <2>1, <3>2, <3>3
  <2>3. c * 1 <= c * q /\ c * q \in Int /\ c * (q - 1) = c * q - c
    BY <1>1, <2>1, <2>2, TimesGrows
  <2>4. i - c - rm + rn \in 1 .. N
    BY <1>1, <2>0, <2>1, <2>3
  <2>5. (i - c - rm + rn) - 1 = c * (q - 1) + (rn - 1) /\ rn - 1 \in 0 .. c - 1
    BY <1>1, <2>0, <2>1, <2>3
  <2>6. ((i - c - rm + rn) - 1) % c = rn - 1
    <3>1. (i - c - rm + rn) - 1 \in Int /\ q - 1 \in Int
      BY <1>1, <2>0, <2>1
    <3> QED
      BY <1>1, <2>5, <3>1, DivModIs
  <2> QED
    BY <1>2, <2>4, <2>6
<1>5. g \in Injection(S \ {rm}, T)
  <2>1. g \in [S \ {rm} -> T]
    BY <1>4
  <2>2. \A i, j \in S \ {rm} : g[i] = g[j] => i = j
    BY <1>1, <1>3
  <2> QED
    BY <2>1, <2>2 DEF Injection, IsInjective
<1> HIDE DEF g
<1>6. IsFiniteSet(1 .. N)
  BY FS_Interval
<1>7. IsFiniteSet(S) /\ IsFiniteSet(T)
  BY <1>3, <1>6, FS_Subset
<1>8. Cardinality(S \ {rm}) <= Cardinality(T)
  BY <1>5, <1>7, FS_Injection
<1>9. /\ Cardinality(S) \in Nat /\ Cardinality(T) \in Nat
      /\ Cardinality(S \ {rm}) = IF rm \in S THEN Cardinality(S) - 1 ELSE Cardinality(S)
  BY <1>7, FS_RemoveElement, FS_CardinalityType
<1> QED
  BY <1>8, <1>9 DEF S, T

-----------------------------------------------------------------------------
(* The operators on chunks and connections.                                *)

(* Marking a chunk changes its status, and no other chunk.                 *)
LEMMA MarkEffect ==
  ASSUME chunks \in Seq(Chunk), at \in DOMAIN chunks,
         NEW s \in {"pending", "encoding", "failed"}, Mark(s)
  PROVE  /\ chunks' \in Seq(Chunk) /\ DOMAIN chunks' = DOMAIN chunks
         /\ \A i \in DOMAIN chunks :
              /\ chunks'[i].start = chunks[i].start
              /\ chunks'[i].end = chunks[i].end
              /\ chunks'[i].node = chunks[i].node
              /\ [chunks'[i] EXCEPT !.status = "pending"] = [chunks[i] EXCEPT !.status = "pending"]
              /\ chunks'[i].status = IF i = at THEN s ELSE chunks[i].status
<1> DEFINE c == [chunks[at] EXCEPT !.status = s]
<1>1. chunks' = [chunks EXCEPT ![at] = c]
  BY DEF Mark
<1>2. chunks[at] \in Chunk
  OBVIOUS
<1>3. /\ c \in Chunk /\ c.start = chunks[at].start /\ c.end = chunks[at].end
      /\ c.node = chunks[at].node /\ c.status = s
  BY <1>2 DEF Chunk
<1>4. [c EXCEPT !.status = "pending"] = [chunks[at] EXCEPT !.status = "pending"]
  BY <1>2, <1>3 DEF Chunk
<1> HIDE DEF c
<1>5. chunks' \in Seq(Chunk) /\ DOMAIN chunks' = DOMAIN chunks
  BY <1>1, <1>3, ExceptSeq, DOMAIN chunks = 1 .. Len(chunks)
<1>6. chunks'[at] = c /\ \A i \in DOMAIN chunks : i # at => chunks'[i] = chunks[i]
  BY <1>1
<1> QED
  BY <1>3, <1>4, <1>5, <1>6

(* What the division makes are pending chunks on available nodes.          *)
LEMMA PlanType ==
  ASSUME NEW n \in 1 .. Word - 1, NEW s \in 1 .. Word - 1, NEW A \in SUBSET Nodes, A # {}
  PROVE  /\ Plan(n, s, A) \in Seq(Chunk)
         /\ DOMAIN Plan(n, s, A) = 1 .. ChunkCount(n, s)
         /\ \A i \in 1 .. ChunkCount(n, s) :
              /\ Plan(n, s, A)[i].start = First(i, s)
              /\ Plan(n, s, A)[i].end = Last(i, n, s)
              /\ Plan(n, s, A)[i].node = Turn(i, A)
              /\ Plan(n, s, A)[i].status = "pending"
<1>1. ChunkCount(n, s) \in Nat
  BY ChunkCountIs
<1>2. ASSUME NEW i \in 1 .. ChunkCount(n, s)
      PROVE  [start |-> First(i, s), end |-> Last(i, n, s), node |-> Turn(i, A),
              status |-> "pending"] \in Chunk
  <2>1. i \in Int /\ s \in Int
    BY <1>1, MultiNodeAssumption DEF MultiNodeAssumption
  <2>2. First(i, s) \in Frame /\ Last(i, n, s) \in Frame /\ Turn(i, A) \in Nodes
    BY <2>1, FirstType, LastType, TurnIs
  <2> QED
    BY <2>2 DEF Chunk
<1>3. Plan(n, s, A) \in [1 .. ChunkCount(n, s) -> Chunk]
  BY <1>2 DEF Plan
<1>4. Plan(n, s, A) \in Seq(Chunk)
  BY <1>1, <1>3, SeqDef
<1> QED
  BY <1>3, <1>4 DEF Plan

LEMMA PlanPending ==
  ASSUME NEW n \in 1 .. Word - 1, NEW s \in 1 .. Word - 1, NEW A \in SUBSET Nodes, A # {}
  PROVE  /\ Plan(n, s, A) \in Seq(Chunk)
         /\ \A i \in DOMAIN Plan(n, s, A) : Plan(n, s, A)[i].status = "pending"
<1> DEFINE p == Plan(n, s, A)
<1>1. /\ p \in Seq(Chunk) /\ DOMAIN p = 1 .. ChunkCount(n, s)
      /\ \A i \in 1 .. ChunkCount(n, s) : p[i].status = "pending"
  BY PlanType
<1> HIDE DEF p
<1>2. \A i \in DOMAIN p : p[i].status = "pending"
  BY <1>1
<1> QED
  BY <1>1, <1>2 DEF p

(* The chunks of a coordinator that has divided the frames.                *)
LEMMA PlannedChunks ==
  ASSUME TypeOK, Planned
  PROVE  /\ frames \in 1 .. Word - 1 /\ size \in 1 .. Word - 1
         /\ DOMAIN chunks = 1 .. ChunkCount(frames, size)
         /\ \A i \in DOMAIN chunks :
              /\ chunks[i].start = First(i, size)
              /\ chunks[i].end = Last(i, frames, size)
              /\ chunks[i].node = Turn(i, avail)
<1>1. frames \in 1 .. Word - 1 /\ size \in 1 .. Word - 1
  BY MultiNodeAssumption DEF MultiNodeAssumption, TypeOK, Planned
<1> DEFINE p == Plan(frames, size, avail)
           q == [i \in DOMAIN chunks |-> [chunks[i] EXCEPT !.status = "pending"]]
<1>2. /\ DOMAIN p = 1 .. ChunkCount(frames, size)
      /\ \A i \in 1 .. ChunkCount(frames, size) :
           /\ p[i].start = First(i, size)
           /\ p[i].end = Last(i, frames, size)
           /\ p[i].node = Turn(i, avail)
  BY <1>1, PlanType DEF TypeOK, Planned
<1>3. p = q
  BY DEF Planned
<1> HIDE DEF p
<1>4. DOMAIN chunks = DOMAIN p
  BY <1>3
<1>5. \A i \in DOMAIN chunks : chunks[i] \in Chunk
  BY DEF TypeOK
<1>6. \A i \in DOMAIN chunks : p[i].start = chunks[i].start /\ p[i].end = chunks[i].end
                             /\ p[i].node = chunks[i].node
  BY <1>3, <1>5 DEF Chunk
<1> QED
  BY <1>1, <1>2, <1>4, <1>6

(* What the queue of a worker holds after it gained or lost a connection.  *)
LEMMA BacklogEffect ==
  ASSUME NEW T, NEW q \in Seq(T), NEW x \in T
  PROVE  /\ Append(q, x) \in Seq(T)
         /\ DOMAIN Append(q, x) = DOMAIN q \cup {Len(q) + 1}
         /\ \A k \in DOMAIN q : Append(q, x)[k] = q[k]
         /\ Append(q, x)[Len(q) + 1] = x
         /\ Len(q) \in Nat /\ DOMAIN q = 1 .. Len(q)
         /\ q # <<>> => /\ Tail(q) \in Seq(T) /\ Head(q) = q[1] /\ 1 \in DOMAIN q
                        /\ \A k \in DOMAIN Tail(q) : k + 1 \in DOMAIN q /\ Tail(q)[k] = q[k + 1]
                        /\ \A k \in DOMAIN Tail(q) : k \in Nat \ {0}
<1>1. /\ Append(q, x) \in Seq(T)
      /\ DOMAIN Append(q, x) = 1 .. Len(q) + 1
      /\ Len(q) \in Nat /\ DOMAIN q = 1 .. Len(q)
      /\ \A k \in 1 .. Len(q) : Append(q, x)[k] = q[k]
      /\ Append(q, x)[Len(q) + 1] = x
  BY AppendProperties
<1>2. DOMAIN Append(q, x) = DOMAIN q \cup {Len(q) + 1}
  BY <1>1
<1>3. ASSUME q # <<>>
      PROVE  /\ Tail(q) \in Seq(T) /\ Head(q) = q[1] /\ 1 \in DOMAIN q
             /\ \A k \in DOMAIN Tail(q) : k + 1 \in DOMAIN q /\ Tail(q)[k] = q[k + 1]
             /\ \A k \in DOMAIN Tail(q) : k \in Nat \ {0}
  <2>1. /\ Tail(q) \in Seq(T) /\ Len(Tail(q)) = Len(q) - 1
        /\ \A k \in 1 .. Len(Tail(q)) : Tail(q)[k] = q[k + 1]
    BY <1>3, HeadTailProperties
  <2>2. DOMAIN Tail(q) = 1 .. Len(q) - 1
    BY <2>1
  <2>3. Len(q) # 0
    BY <1>3, EmptySeq
  <2> QED
    BY <1>1, <1>3, <2>1, <2>2, <2>3
<1> QED
  BY <1>1, <1>2, <1>3

-----------------------------------------------------------------------------
(* The invariant at the start.                                             *)

LEMMA InvInit == Init => IInv
<1> SUFFICES ASSUME Init
             PROVE  IInv
  OBVIOUS
<1> USE MultiNodeAssumption DEF MultiNodeAssumption, Init
<1>1. DOMAIN chunks = {} /\ <<>> \in Seq(Chunk) /\ <<>> \in Seq({"coordinator", "silent"})
  BY EmptySeq
<1>2. TypeOK
  <2>1. chunks \in Seq(Chunk) /\ backlog \in [Nodes -> Seq({"coordinator", "silent"})]
    BY <1>1
  <2>2. encoded \in Frame /\ exit \in {-1, 0, 1} /\ at \in Nat
    BY DEF Frame
  <2> QED
    BY <2>1, <2>2 DEF TypeOK
<1>3. PlanInv
  BY DEF PlanInv
<1>4. ProgressInv
  BY DEF ProgressInv
<1>5. ConnectionInv
  BY DEF ConnectionInv
<1>6. CountInv
  BY <1>1 DEF CountInv
<1>7. FramesAreAcknowledged
  <2>1. UNION {Covers(i) : i \in {k \in DOMAIN chunks : chunks[k].status = "encoding"}} = {}
    BY <1>1
  <2> QED
    BY <2>1, FS_EmptySet DEF FramesAreAcknowledged
<1> QED
  BY <1>2, <1>3, <1>4, <1>5, <1>6, <1>7 DEF IInv

-----------------------------------------------------------------------------
(* Facts about a reachable state.                                          *)

(* A coordinator that waits for nobody has no connection.                  *)
LEMMA NoConnection ==
  ASSUME IInv, pc # "wait" \/ ~Asked
  PROVE  \A n \in Nodes : \A k \in DOMAIN backlog[n] : backlog[n][k] # "coordinator"
<1> SUFFICES ASSUME NEW n \in Nodes, NEW k \in DOMAIN backlog[n], backlog[n][k] = "coordinator"
             PROVE  FALSE
  OBVIOUS
<1>1. pc = "wait" /\ chunks[at].node = n
  BY DEF IInv, ConnectionInv
<1>2. Asked
  BY <1>1 DEF Asked
<1> QED
  BY <1>1, <1>2

(* The command a worker answers is the one the coordinator waits for, and  *)
(* its chunk has not been asked for before.                                *)
LEMMA AnswersTheCoordinator ==
  ASSUME IInv, NEW n \in Nodes, Acknowledge(n)
  PROVE  /\ pc = "wait" /\ chunks[at].node = n /\ at \in DOMAIN chunks /\ Planned
         /\ chunks[at].status = "pending"
         /\ \A k \in DOMAIN backlog[n] : backlog[n][k] = "coordinator" => k = 1
<1>1. backlog[n] \in Seq({"coordinator", "silent"}) /\ backlog[n] # <<>>
      /\ Head(backlog[n]) = "coordinator"
  BY DEF IInv, TypeOK, Acknowledge
<1>2. 1 \in DOMAIN backlog[n] /\ backlog[n][1] = "coordinator"
  BY <1>1, BacklogEffect
<1>3. /\ pc = "wait" /\ chunks[at].node = n
      /\ \A k \in DOMAIN backlog[n] : backlog[n][k] = "coordinator" => k = 1
  BY <1>2 DEF IInv, ConnectionInv
<1>4. at \in DOMAIN chunks /\ Planned /\ chunks[at].status = "pending"
  BY <1>3 DEF IInv, TypeOK, PlanInv, ProgressInv
<1> QED
  BY <1>3, <1>4

(* Asking for a chunk finds it pending.                                    *)
LEMMA SendsAPendingChunk ==
  ASSUME IInv, pc \in {"send", "wait"}, at \in DOMAIN chunks
  PROVE  chunks[at].status = "pending" /\ Planned
BY DEF IInv, TypeOK, PlanInv, ProgressInv

-----------------------------------------------------------------------------
(* Every step keeps the types.                                             *)

LEMMA LengthType ==
  ASSUME NEW c
  PROVE  \A e \in Frame : c.end - c.start + 1 \in Int => (e + Length(c)) % Word \in Frame
<1>1. Word \in Nat \ {0}
  BY MultiNodeAssumption DEF MultiNodeAssumption
<1>2. ASSUME NEW e \in Frame, c.end - c.start + 1 \in Int
      PROVE  (e + Length(c)) % Word \in Frame
  <2>1. Length(c) \in Int /\ e \in Int
    BY <1>1, <1>2, DivMod DEF Length, Frame
  <2>2. e + Length(c) \in Int
    BY <2>1
  <2> QED
    BY <1>1, <2>2, DivMod DEF Frame
<1> QED
  BY <1>2

LEMMA TypeCoordinator ==
  ASSUME IInv, Coordinate
  PROVE  TypeOK'
<1> USE DEF TypeOK
<1>0. TypeOK /\ NumNodes \in Nat
  BY MultiNodeAssumption DEF IInv, MultiNodeAssumption
<1>1. CASE CountFrames \/ Discovered \/ Finish
  <2>1. UNCHANGED <<frames, size, at, avail, chunks, encoded, workers>>
        /\ pc' \in {"done", "ping", "plan"}
        /\ exit' \in {-1, 0, 1}
    BY <1>0, <1>1 DEF CountFrames, Discovered, Finish, Fails
  <2> QED
    BY <1>0, <2>1 DEF workers
<1>2. CASE Ping
  <2>1. UNCHANGED <<frames, size, pc, chunks, encoded, exit, workers>> /\ pc = "ping"
        /\ at' = at + 1 /\ at \in Nodes /\ avail' \subseteq avail \cup {at}
    BY <1>0, <1>2 DEF Ping, Nodes, IInv, ProgressInv
  <2> QED
    BY <1>0, <2>1 DEF workers
<1>3. CASE Divide
  <2>1. UNCHANGED <<frames, size, avail, encoded, exit, workers>> /\ pc = "plan"
        /\ \/ pc' = "killed" /\ UNCHANGED <<at, chunks>>
           \/ size # 0 /\ pc' = "send" /\ at' = 1 /\ chunks' = Plan(frames, size, avail)
    BY <1>3 DEF Divide
  <2>2. ASSUME size # 0
        PROVE  Plan(frames, size, avail) \in Seq(Chunk)
    <3>1. frames \in 1 .. Word - 1 /\ size \in 1 .. Word - 1 /\ avail # {} /\ avail \subseteq Nodes
      BY <2>1, <2>2, MultiNodeAssumption DEF MultiNodeAssumption, IInv, PlanInv
    <3> QED
      BY <3>1, PlanType
  <2> QED
    BY <1>0, <2>1, <2>2 DEF workers
<1>4. CASE Unreachable \/ Broken
  <2>1. at \in DOMAIN chunks
    BY <1>0, <1>4 DEF Unreachable, Broken
  <2>2. UNCHANGED <<frames, size, avail, encoded, exit, workers>>
        /\ \/ pc' = "send" /\ at' = at + 1 /\ Mark("failed")
           \/ pc' = "killed" /\ UNCHANGED <<at, chunks>>
    BY <1>4 DEF Unreachable, Broken
  <2>3. chunks' \in Seq(Chunk)
    BY <1>0, <2>1, <2>2, MarkEffect
  <2> QED
    BY <1>0, <2>2, <2>3 DEF workers
<1>5. CASE Connect
  <2>1. chunks[at].node \in Nodes
    BY <1>0, <1>5 DEF Connect
  <2>2. Append(backlog[chunks[at].node], "coordinator") \in Seq({"coordinator", "silent"})
    BY <1>0, <2>1, BacklogEffect
  <2> QED
    BY <1>0, <1>5, <2>1, <2>2 DEF Connect
<1> QED
  BY <1>1, <1>2, <1>3, <1>4, <1>5 DEF Coordinate

LEMMA TypeWorkers ==
  ASSUME IInv, NEW n \in Nodes,
         Acknowledge(n) \/ SilentArrives(n) \/ SilentLeaves(n) \/ WorkerDies(n) \/ WorkerStarts(n)
  PROVE  TypeOK'
<1> USE DEF TypeOK
<1>0. TypeOK
  BY DEF IInv
<1>1. /\ Append(backlog[n], "silent") \in Seq({"coordinator", "silent"})
      /\ backlog[n] # <<>> => Tail(backlog[n]) \in Seq({"coordinator", "silent"})
      /\ <<>> \in Seq({"coordinator", "silent"})
  BY <1>0, BacklogEffect, EmptySeq
<1>2. CASE Acknowledge(n)
  <2>1. at \in DOMAIN chunks
    BY <1>2, AnswersTheCoordinator
  <2>2. chunks' \in Seq(Chunk) /\ DOMAIN chunks' = DOMAIN chunks
    BY <1>0, <1>2, <2>1, MarkEffect DEF Acknowledge
  <2>3. encoded' \in Frame
    <3>1. chunks[at] \in Chunk
      BY <1>0, <2>1
    <3>2. chunks[at].end - chunks[at].start + 1 \in Int
      BY <3>1, MultiNodeAssumption DEF Chunk, Frame, MultiNodeAssumption
    <3> QED
      BY <1>0, <1>2, <3>2, LengthType DEF Acknowledge
  <2> QED
    BY <1>0, <1>1, <1>2, <2>2, <2>3 DEF Acknowledge
<1>3. CASE SilentArrives(n)
  BY <1>0, <1>1, <1>3, MultiNodeAssumption DEF SilentArrives, coordinator, MultiNodeAssumption
<1>4. CASE SilentLeaves(n)
  BY <1>0, <1>1, <1>4 DEF SilentLeaves, coordinator
<1>5. CASE WorkerDies(n)
  BY <1>0, <1>1, <1>5, MultiNodeAssumption DEF WorkerDies, coordinator, MultiNodeAssumption
<1>6. CASE WorkerStarts(n)
  BY <1>0, <1>6 DEF WorkerStarts, coordinator
<1> QED
  BY <1>2, <1>3, <1>4, <1>5, <1>6

LEMMA TypeStep == IInv /\ [Next]_vars => TypeOK'
<1> SUFFICES ASSUME IInv, [Next]_vars
             PROVE  TypeOK'
  OBVIOUS
<1>1. CASE UNCHANGED vars
  BY <1>1 DEF vars, coordinator, workers, IInv, TypeOK
<1> QED
  BY <1>1, TypeCoordinator, TypeWorkers DEF Next

-----------------------------------------------------------------------------
(* The chunks stay those of the plan.                                      *)

(* A step that marks a chunk, or changes nothing of the plan.              *)
LEMMA PlannedStays ==
  ASSUME IInv, Planned, UNCHANGED <<frames, size, avail>>,
         UNCHANGED chunks \/ (at \in DOMAIN chunks
                              /\ \E s \in {"pending", "encoding", "failed"} : Mark(s))
  PROVE  Planned'
<1>1. CASE UNCHANGED chunks
  BY <1>1 DEF Planned
<1>2. CASE at \in DOMAIN chunks /\ \E s \in {"pending", "encoding", "failed"} : Mark(s)
  <2>1. /\ DOMAIN chunks' = DOMAIN chunks
        /\ \A i \in DOMAIN chunks :
             [chunks'[i] EXCEPT !.status = "pending"] = [chunks[i] EXCEPT !.status = "pending"]
    BY <1>2, MarkEffect DEF IInv, TypeOK
  <2>2. [i \in DOMAIN chunks' |-> [chunks'[i] EXCEPT !.status = "pending"]]
          = [i \in DOMAIN chunks |-> [chunks[i] EXCEPT !.status = "pending"]]
    BY <2>1
  <2> QED
    BY <2>2 DEF Planned
<1> QED
  BY <1>1, <1>2

LEMMA PlanStep == IInv /\ [Next]_vars => PlanInv'
<1> SUFFICES ASSUME IInv, [Next]_vars
             PROVE  PlanInv'
  OBVIOUS
<1> USE DEF PlanInv
<1>0. PlanInv
  BY DEF IInv
<1>1. CASE CountFrames \/ Discovered \/ Finish
  <2>1. /\ UNCHANGED <<frames, size, avail, chunks>>
        /\ pc' \in {"done", "ping", "plan"}
        /\ pc' \in {"ping", "plan"} => frames # 0 /\ chunks = <<>>
        /\ pc' = "plan" => avail # {}
    BY <1>0, <1>1 DEF CountFrames, Discovered, Finish, Fails
  <2>2. chunks # <<>> => Planned'
    BY <1>0, <2>1, PlannedStays
  <2> QED
    BY <2>1, <2>2
<1>2. CASE Ping
  BY <1>0, <1>2 DEF Ping
<1>3. CASE Divide
  <2>1. UNCHANGED <<frames, size, avail>> /\ pc = "plan" /\ frames # 0 /\ avail # {}
        /\ chunks = <<>>
    BY <1>0, <1>3 DEF Divide
  <2>2. CASE size = 0
    BY <1>0, <1>3, <2>1, <2>2 DEF Divide
  <2>3. CASE size # 0
    <3>1. pc' = "send" /\ chunks' = Plan(frames, size, avail)
      BY <1>3, <2>3 DEF Divide
    <3>2. frames \in 1 .. Word - 1 /\ size \in 1 .. Word - 1 /\ avail \in SUBSET Nodes
      BY <2>1, <2>3, MultiNodeAssumption DEF MultiNodeAssumption, IInv, TypeOK
    <3> DEFINE p == Plan(frames, size, avail)
    <3>3. p \in Seq(Chunk) /\ \A i \in DOMAIN p : p[i].status = "pending"
      BY <2>1, <3>2, PlanPending
    <3> HIDE DEF p
    <3>4. \A i \in DOMAIN p : [p[i] EXCEPT !.status = "pending"] = p[i]
      <4>1. \A i \in DOMAIN p : p[i] \in Chunk
        BY <3>3
      <4> QED
        BY <3>3, <4>1 DEF Chunk
    <3>5. [i \in DOMAIN p |-> [p[i] EXCEPT !.status = "pending"]] = p
      <4>1. p = [i \in DOMAIN p |-> p[i]]
        BY <3>3
      <4> QED
        BY <3>4, <4>1
    <3>6. chunks' = p
      BY <3>1 DEF p
    <3>7. Planned'
      <4>1. [i \in DOMAIN chunks' |-> [chunks'[i] EXCEPT !.status = "pending"]] = p
        BY <3>5, <3>6
      <4>2. Plan(frames', size', avail') = p
        BY <2>1 DEF p
      <4> QED
        BY <2>1, <2>3, <4>1, <4>2 DEF Planned
    <3> QED
      BY <3>1, <3>7
  <2> QED
    BY <2>2, <2>3
<1>4. CASE Unreachable \/ Connect \/ Broken
  <2>1. /\ UNCHANGED <<frames, size, avail>> /\ pc' \in {"send", "wait", "killed"}
        /\ UNCHANGED chunks \/ Mark("failed")
        /\ at \in DOMAIN chunks /\ pc \in {"send", "wait"}
    BY <1>4 DEF Unreachable, Connect, Broken, IInv, TypeOK
  <2>2. Planned'
    BY <1>0, <2>1, PlannedStays
  <2> QED
    BY <2>1, <2>2
<1>5. ASSUME NEW n \in Nodes, Acknowledge(n)
      PROVE  PlanInv'
  <2>1. UNCHANGED <<frames, size, avail>> /\ pc' = "send" /\ Mark("encoding")
    BY <1>5 DEF Acknowledge
  <2>2. Planned'
    BY <1>5, <2>1, AnswersTheCoordinator, PlannedStays
  <2> QED
    BY <2>1, <2>2
<1>6. CASE UNCHANGED <<frames, size, coordinator>>
  BY <1>0, <1>6 DEF coordinator, Planned
<1> QED
  BY <1>1, <1>2, <1>3, <1>4, <1>5, <1>6
  DEF Next, Coordinate, SilentArrives, SilentLeaves, WorkerDies, WorkerStarts, vars

-----------------------------------------------------------------------------
(* The chunks are asked for one after the other.                           *)

LEMMA ProgressStep == IInv /\ [Next]_vars => ProgressInv'
<1> SUFFICES ASSUME IInv, [Next]_vars
             PROVE  ProgressInv'
  OBVIOUS
<1> USE DEF ProgressInv
<1>0. ProgressInv /\ at \in Nat /\ chunks \in Seq(Chunk) /\ DOMAIN chunks \subseteq Nat
  <2>1. chunks \in Seq(Chunk)
    BY DEF IInv, TypeOK
  <2> QED
    BY <2>1 DEF IInv, TypeOK
<1>1. CASE CountFrames \/ Discovered \/ Finish \/ Ping
  BY <1>0, <1>1 DEF CountFrames, Discovered, Finish, Fails, Ping
<1>2. CASE Divide
  <2>1. CASE size = 0
    BY <1>0, <1>2, <2>1 DEF Divide
  <2>2. CASE size # 0
    <3>1. frames \in 1 .. Word - 1 /\ size \in 1 .. Word - 1 /\ avail \in SUBSET Nodes /\ avail # {}
      BY <1>2, <2>2, MultiNodeAssumption DEF Divide, MultiNodeAssumption, IInv, TypeOK, PlanInv
    <3>2. \A i \in DOMAIN Plan(frames, size, avail) : Plan(frames, size, avail)[i].status = "pending"
      BY <3>1, PlanPending
    <3> QED
      BY <1>2, <2>2, <3>2 DEF Divide
  <2> QED
    BY <2>1, <2>2
<1>3. ASSUME at \in DOMAIN chunks, pc \in {"send", "wait"}, at' = at + 1,
             NEW s \in {"pending", "encoding", "failed"}, Mark(s)
      PROVE  ProgressInv'
  <2>1. /\ DOMAIN chunks' = DOMAIN chunks
        /\ \A i \in DOMAIN chunks : i # at => chunks'[i].status = chunks[i].status
    BY <1>0, <1>3, MarkEffect
  <2>2. \A i \in DOMAIN chunks : i >= at' => i >= at /\ i # at
    BY <1>0, <1>3
  <2> QED
    BY <1>0, <1>3, <2>1, <2>2
<1>4. CASE Unreachable \/ Broken
  <2>1. at \in DOMAIN chunks /\ pc \in {"send", "wait"}
    BY <1>4 DEF Unreachable, Broken, IInv, TypeOK
  <2>2. (at' = at + 1 /\ Mark("failed")) \/ (pc' = "killed" /\ at' = at)
    BY <1>4 DEF Unreachable, Broken
  <2> QED
    BY <1>0, <1>3, <2>1, <2>2
<1>5. CASE Connect
  BY <1>0, <1>5 DEF Connect
<1>6. ASSUME NEW n \in Nodes, Acknowledge(n)
      PROVE  ProgressInv'
  BY <1>3, <1>6, AnswersTheCoordinator DEF Acknowledge
<1>7. CASE UNCHANGED coordinator
  BY <1>0, <1>7 DEF coordinator
<1> QED
  BY <1>1, <1>2, <1>4, <1>5, <1>6, <1>7
  DEF Next, Coordinate, SilentArrives, SilentLeaves, WorkerDies, WorkerStarts, vars

-----------------------------------------------------------------------------
(* One connection at most.                                                 *)

LEMMA ConnectionStep == IInv /\ [Next]_vars => ConnectionInv'
<1> SUFFICES ASSUME IInv, [Next]_vars
             PROVE  ConnectionInv'
  OBVIOUS
<1> USE DEF ConnectionInv
<1>0. ConnectionInv /\ backlog \in [Nodes -> Seq({"coordinator", "silent"})]
  BY DEF IInv, TypeOK
<1>1. ASSUME pc # "wait" \/ ~Asked, UNCHANGED backlog
      PROVE  ConnectionInv'
  BY <1>1, NoConnection
<1>2. CASE CountFrames \/ Discovered \/ Finish \/ Ping \/ Divide \/ Unreachable \/ Broken
  BY <1>1, <1>2 DEF CountFrames, Discovered, Finish, Ping, Divide, Unreachable, Broken, workers
<1>3. CASE Connect
  <2> DEFINE m == chunks[at].node
  <2>1. /\ m \in Nodes /\ UNCHANGED <<at, chunks>> /\ pc' = "wait" /\ pc = "send"
        /\ backlog' = [backlog EXCEPT ![m] = Append(backlog[m], "coordinator")]
    <3>1. chunks[at] \in Chunk
      BY <1>3 DEF Connect, IInv, TypeOK
    <3> QED
      BY <1>3, <3>1 DEF Connect, Chunk
  <2>2. \A n \in Nodes : \A k \in DOMAIN backlog[n] : backlog[n][k] # "coordinator"
    BY <2>1, NoConnection
  <2> HIDE DEF m
  <2>3. \A k \in DOMAIN backlog'[m] : backlog'[m][k] = "coordinator" => k = Len(backlog[m]) + 1
    <3>1. backlog'[m] = Append(backlog[m], "coordinator") /\ backlog[m] \in Seq({"coordinator", "silent"})
      BY <1>0, <2>1
    <3>2. /\ DOMAIN backlog'[m] = DOMAIN backlog[m] \cup {Len(backlog[m]) + 1}
          /\ \A k \in DOMAIN backlog[m] : backlog'[m][k] = backlog[m][k]
      BY <3>1, BacklogEffect
    <3> QED
      BY <2>1, <2>2, <3>2
  <2>4. \A n \in Nodes \ {m} : backlog'[n] = backlog[n]
    BY <1>0, <2>1
  <2> QED
    BY <2>1, <2>2, <2>3, <2>4 DEF m
<1>4. ASSUME NEW n \in Nodes, Acknowledge(n)
      PROVE  ConnectionInv'
  <2>1. /\ chunks[at].node = n
        /\ \A k \in DOMAIN backlog[n] : backlog[n][k] = "coordinator" => k = 1
    BY <1>4, AnswersTheCoordinator
  <2>2. backlog' = [backlog EXCEPT ![n] = Tail(backlog[n])] /\ backlog[n] # <<>>
    BY <1>4 DEF Acknowledge
  <2>3. \A k \in DOMAIN backlog'[n] : backlog'[n][k] # "coordinator"
    <3>1. /\ \A k \in DOMAIN backlog'[n] : k + 1 \in DOMAIN backlog[n]
                                           /\ backlog'[n][k] = backlog[n][k + 1]
          /\ \A k \in DOMAIN backlog'[n] : k \in Nat \ {0}
      BY <1>0, <2>2, BacklogEffect
    <3> QED
      BY <2>1, <3>1
  <2>4. \A m \in Nodes \ {n} :
          backlog'[m] = backlog[m] /\ \A k \in DOMAIN backlog[m] : backlog[m][k] # "coordinator"
    BY <1>0, <2>1, <2>2
  <2> QED
    BY <2>3, <2>4
<1>5. ASSUME NEW n \in Nodes, SilentArrives(n)
      PROVE  ConnectionInv'
  <2>1. /\ DOMAIN backlog'[n] = DOMAIN backlog[n] \cup {Len(backlog[n]) + 1}
        /\ \A k \in DOMAIN backlog[n] : backlog'[n][k] = backlog[n][k]
        /\ backlog'[n][Len(backlog[n]) + 1] = "silent"
    BY <1>0, <1>5, BacklogEffect DEF SilentArrives
  <2>2. \A m \in Nodes \ {n} : backlog'[m] = backlog[m]
    BY <1>0, <1>5 DEF SilentArrives
  <2>3. UNCHANGED <<pc, at, chunks>>
    BY <1>5 DEF SilentArrives, coordinator
  <2> QED
    BY <1>0, <2>1, <2>2, <2>3
<1>6. ASSUME NEW n \in Nodes, SilentLeaves(n)
      PROVE  ConnectionInv'
  <2>1. /\ \A k \in DOMAIN backlog'[n] : k + 1 \in DOMAIN backlog[n]
                                         /\ backlog'[n][k] = backlog[n][k + 1]
        /\ \A k \in DOMAIN backlog'[n] : k \in Nat \ {0}
    BY <1>0, <1>6, BacklogEffect DEF SilentLeaves
  <2>2. \A m \in Nodes \ {n} : backlog'[m] = backlog[m]
    BY <1>0, <1>6 DEF SilentLeaves
  <2>3. UNCHANGED <<pc, at, chunks>>
    BY <1>6 DEF SilentLeaves, coordinator
  <2>4. ASSUME NEW k \in DOMAIN backlog'[n], backlog'[n][k] = "coordinator"
        PROVE  /\ pc = "wait" /\ chunks[at].node = n
               /\ \A l \in DOMAIN backlog'[n] : backlog'[n][l] = "coordinator" => l = k
    <3>1. /\ pc = "wait" /\ chunks[at].node = n
          /\ \A l \in DOMAIN backlog[n] : backlog[n][l] = "coordinator" => l = k + 1
      BY <1>0, <2>1, <2>4
    <3>2. \A l \in DOMAIN backlog'[n] : backlog'[n][l] = "coordinator" => l + 1 = k + 1
      BY <2>1, <3>1
    <3> QED
      BY <2>1, <3>1, <3>2
  <2> QED
    BY <1>0, <2>2, <2>3, <2>4
<1>7. ASSUME NEW n \in Nodes, WorkerDies(n)
      PROVE  ConnectionInv'
  <2>1. DOMAIN backlog'[n] = {} /\ UNCHANGED <<pc, at, chunks>>
    BY <1>0, <1>7 DEF WorkerDies, coordinator
  <2>2. \A m \in Nodes \ {n} : backlog'[m] = backlog[m]
    BY <1>0, <1>7 DEF WorkerDies
  <2> QED
    BY <1>0, <2>1, <2>2
<1>8. CASE UNCHANGED <<coordinator, backlog>>
  BY <1>0, <1>8 DEF coordinator
<1> QED
  BY <1>2, <1>3, <1>4, <1>5, <1>6, <1>7, <1>8 DEF Next, Coordinate, WorkerStarts, vars, workers

-----------------------------------------------------------------------------
(* What is counted.                                                        *)

EncodedChunks == {k \in DOMAIN chunks : chunks[k].status = "encoding"}
EncodedFrames == UNION {Covers(i) : i \in EncodedChunks}

(* A planned chunk is a non-empty stretch of the frames, no two overlap,   *)
(* and its length fits the word.                                           *)
LEMMA PlannedCovers ==
  ASSUME TypeOK, Planned
  PROVE  /\ \A i \in DOMAIN chunks :
              /\ chunks[i].start \in 0 .. frames - 1 /\ chunks[i].end \in 0 .. frames - 1
              /\ chunks[i].start <= chunks[i].end
              /\ Length(chunks[i]) = chunks[i].end - chunks[i].start + 1
         /\ \A i, j \in DOMAIN chunks : i # j => Covers(i) \cap Covers(j) = {}
         /\ frames + size - 1 < Word => UNION {Covers(i) : i \in DOMAIN chunks} = 0 .. frames - 1
         /\ chunks # <<>> => frames + size - 1 < Word
<1> DEFINE N == ChunkCount(frames, size)
<1>0. /\ frames \in 1 .. Word - 1 /\ size \in 1 .. Word - 1 /\ Word \in Nat \ {0} /\ N \in Nat
      /\ DOMAIN chunks = 1 .. N
      /\ \A i \in DOMAIN chunks : Covers(i) = First(i, size) .. Last(i, frames, size)
      /\ \A i \in DOMAIN chunks : /\ chunks[i].start = First(i, size)
                                 /\ chunks[i].end = Last(i, frames, size)
  BY PlannedChunks, ChunkCountIs, MultiNodeAssumption DEF MultiNodeAssumption, Covers
<1>1. frames + size - 1 >= Word => N = 0
  BY <1>0, ChunkCountIs
<1>2. DOMAIN chunks # {} => frames + size - 1 < Word
  BY <1>0, <1>1
<1>3. chunks # <<>> => DOMAIN chunks # {}
  <2>1. chunks \in Seq(Chunk)
    BY DEF TypeOK
  <2>2. DOMAIN chunks = 1 .. Len(chunks) /\ Len(chunks) \in Nat
    BY <2>1, LenProperties
  <2>3. Len(chunks) = 0 => chunks = <<>>
    BY <2>1, EmptySeq
  <2> QED
    BY <2>2, <2>3
<1> HIDE DEF N
<1>4. ASSUME NEW i \in DOMAIN chunks
      PROVE  /\ chunks[i].start \in 0 .. frames - 1 /\ chunks[i].end \in 0 .. frames - 1
             /\ chunks[i].start <= chunks[i].end
             /\ chunks[i].end - chunks[i].start + 1 \in 1 .. size
  <2> DEFINE a == First(i, size)
             b == Last(i, frames, size)
  <2>1. frames + size - 1 < Word /\ i \in 1 .. ChunkCount(frames, size)
    BY <1>0, <1>2, <1>4 DEF N
  <2>2. /\ a \in 0 .. frames - 1 /\ a <= b /\ b - a < size
        /\ b = (IF size * i <= frames THEN size * i - 1 ELSE frames - 1)
    BY <1>0, <2>1, BoundsOfChunk
  <2>3. size * i \in Int
    BY <1>0, <2>1
  <2> HIDE DEF a, b
  <2>4. b \in 0 .. frames - 1 /\ b - a + 1 \in 1 .. size
    <3> DEFINE x == size * i
    <3>1. b = (IF x <= frames THEN x - 1 ELSE frames - 1) /\ x \in Int
      BY <2>2, <2>3
    <3> HIDE DEF x
    <3>2. frames \in Nat /\ size \in Nat /\ a \in Nat /\ b \in Int /\ b <= frames - 1
      BY <1>0, <2>2, <3>1
    <3> QED
      BY <2>2, <3>2
  <2> QED
    BY <1>0, <2>2, <2>4 DEF a, b
<1>5. ASSUME NEW i \in DOMAIN chunks
      PROVE  Length(chunks[i]) = chunks[i].end - chunks[i].start + 1
  <2> DEFINE d == chunks[i].end - chunks[i].start + 1
  <2>1. d \in 1 .. size
    BY <1>4
  <2> HIDE DEF d
  <2>2. d = Word * 0 + d /\ d \in 0 .. Word - 1 /\ d \in Int
    BY <1>0, <2>1
  <2>3. d % Word = d
    BY <1>0, <2>2, DivModIs
  <2> QED
    BY <2>3 DEF Length, d
<1>6. ASSUME frames + size - 1 < Word
      PROVE  /\ UNION {Covers(i) : i \in DOMAIN chunks} = 0 .. frames - 1
             /\ \A i, j \in DOMAIN chunks : i # j => Covers(i) \cap Covers(j) = {}
  <2>1. /\ UNION {First(i, size) .. Last(i, frames, size) : i \in 1 .. N} = 0 .. frames - 1
        /\ \A i, j \in 1 .. N :
             i # j => (First(i, size) .. Last(i, frames, size))
                        \cap (First(j, size) .. Last(j, frames, size)) = {}
    BY <1>0, <1>6, ChunksCover DEF N
  <2>2. {Covers(i) : i \in DOMAIN chunks}
          = {First(i, size) .. Last(i, frames, size) : i \in 1 .. N}
    BY <1>0
  <2>3. \A i, j \in DOMAIN chunks : i # j => Covers(i) \cap Covers(j) = {}
    BY <1>0, <2>1
  <2> QED
    BY <2>1, <2>2, <2>3
<1>7. ASSUME NEW i \in DOMAIN chunks, NEW j \in DOMAIN chunks, i # j
      PROVE  Covers(i) \cap Covers(j) = {}
  BY <1>2, <1>6, <1>7
<1> QED
  BY <1>2, <1>3, <1>4, <1>5, <1>6, <1>7

LEMMA PlannedFrames ==
  ASSUME TypeOK, Planned
  PROVE  \A i \in DOMAIN chunks : Covers(i) \subseteq 0 .. frames - 1 /\ chunks[i].start \in Covers(i)
<1>1. frames \in 1 .. Word - 1 /\ Word \in Nat
  BY PlannedChunks, MultiNodeAssumption DEF MultiNodeAssumption
<1> QED
  BY <1>1, PlannedCovers DEF Covers

(* The frames of the acknowledged chunks are some of the frames.           *)
LEMMA EncodedFramesType ==
  ASSUME TypeOK, Planned
  PROVE  /\ IsFiniteSet(EncodedFrames) /\ Cardinality(EncodedFrames) \in 0 .. frames
         /\ \A i \in EncodedChunks : EncodedFrames # {}
<1>0. frames \in 1 .. Word - 1 /\ Word \in Nat
  BY PlannedChunks, MultiNodeAssumption DEF MultiNodeAssumption
<1>1. \A i \in DOMAIN chunks : Covers(i) \subseteq 0 .. frames - 1 /\ chunks[i].start \in Covers(i)
  BY PlannedFrames
<1>2. EncodedFrames \subseteq 0 .. frames - 1
  BY <1>1 DEF EncodedFrames, EncodedChunks
<1>3. IsFiniteSet(0 .. frames - 1) /\ Cardinality(0 .. frames - 1) = frames
  BY <1>0, FS_Interval
<1>4. IsFiniteSet(EncodedFrames) /\ Cardinality(EncodedFrames) <= frames
      /\ Cardinality(EncodedFrames) \in Nat
  BY <1>2, <1>3, FS_Subset, FS_CardinalityType
<1>5. \A i \in EncodedChunks : EncodedFrames # {}
  BY <1>1 DEF EncodedFrames, EncodedChunks
<1> QED
  BY <1>0, <1>4, <1>5

(* An acknowledgement adds the frames of a chunk that was not counted yet. *)
LEMMA AcknowledgeCounts ==
  ASSUME IInv, NEW n \in Nodes, Acknowledge(n)
  PROVE  encoded' = Cardinality(EncodedFrames)' /\ encoded' # 0 /\ at \in EncodedChunks'
<1>1. /\ at \in DOMAIN chunks /\ Planned /\ chunks[at].status = "pending" /\ TypeOK
      /\ Mark("encoding") /\ chunks \in Seq(Chunk) /\ UNCHANGED <<frames, size, avail>>
      /\ encoded' = (encoded + Length(chunks[at])) % Word
  BY AnswersTheCoordinator DEF Acknowledge, IInv, TypeOK
<1>2. /\ DOMAIN chunks' = DOMAIN chunks
      /\ \A i \in DOMAIN chunks : chunks'[i].start = chunks[i].start /\ chunks'[i].end = chunks[i].end
      /\ \A i \in DOMAIN chunks :
           chunks'[i].status = IF i = at THEN "encoding" ELSE chunks[i].status
  BY <1>1, MarkEffect
<1>3. EncodedChunks' = EncodedChunks \cup {at} /\ at \notin EncodedChunks
  BY <1>1, <1>2 DEF EncodedChunks
<1>4. \A i \in DOMAIN chunks : Covers(i)' = Covers(i)
  BY <1>2 DEF Covers
<1>5. EncodedFrames' = EncodedFrames \cup Covers(at)
  <2>1. EncodedChunks \subseteq DOMAIN chunks
    BY DEF EncodedChunks
  <2>2. EncodedFrames' = UNION {Covers(i)' : i \in EncodedChunks'}
    BY DEF EncodedFrames
  <2>3. {Covers(i)' : i \in EncodedChunks'} = {Covers(i) : i \in EncodedChunks'}
    BY <1>1, <1>3, <1>4, <2>1
  <2> QED
    BY <1>3, <2>2, <2>3 DEF EncodedFrames
<1>6. EncodedFrames \cap Covers(at) = {}
  BY <1>1, <1>3, PlannedCovers DEF EncodedFrames, EncodedChunks
<1>7. /\ IsFiniteSet(Covers(at)) /\ Cardinality(Covers(at)) = Length(chunks[at])
      /\ Length(chunks[at]) \in Nat \ {0}
  <2>1. /\ chunks[at].start \in Nat /\ chunks[at].end \in Nat /\ chunks[at].start <= chunks[at].end
        /\ Length(chunks[at]) = chunks[at].end - chunks[at].start + 1
    <3>1. chunks[at].start \in 0 .. frames - 1 /\ chunks[at].end \in 0 .. frames - 1
      BY <1>1, PlannedCovers
    <3> QED
      BY <1>1, <3>1, PlannedCovers
  <2>2. Covers(at) = chunks[at].start .. chunks[at].end
    BY DEF Covers
  <2>3. /\ IsFiniteSet(chunks[at].start .. chunks[at].end)
        /\ Cardinality(chunks[at].start .. chunks[at].end) = chunks[at].end - chunks[at].start + 1
    <3> DEFINE a == chunks[at].start
               b == chunks[at].end
    <3>1. a \in Int /\ b \in Int /\ ~(a > b)
      BY <2>1
    <3> HIDE DEF a, b
    <3>2. IsFiniteSet(a .. b) /\ Cardinality(a .. b) = b - a + 1
      BY <3>1, FS_Interval
    <3> QED
      BY <3>2 DEF a, b
  <2> QED
    BY <2>1, <2>2, <2>3
<1>8. encoded = Cardinality(EncodedFrames) /\ frames + size - 1 < Word
  <2>1. frames + size - 1 < Word
    BY <1>1, PlannedCovers
  <2> QED
    BY <2>1 DEF IInv, FramesAreAcknowledged, EncodedFrames, EncodedChunks
<1>9. Cardinality(EncodedFrames') = encoded + Length(chunks[at])
  <2>1. IsFiniteSet(EncodedFrames) /\ Cardinality(EncodedFrames) \in 0 .. frames
    BY <1>1, EncodedFramesType
  <2>2. Cardinality(EncodedFrames \cup Covers(at))
          = Cardinality(EncodedFrames) + Cardinality(Covers(at)) - Cardinality(EncodedFrames \cap Covers(at))
    BY <1>7, <2>1, FS_Union
  <2>3. Cardinality(EncodedFrames \cap Covers(at)) = 0
    BY <1>6, FS_EmptySet
  <2>4. Cardinality(EncodedFrames) \in Int
    BY <2>1
  <2> QED
    BY <1>5, <1>7, <1>8, <2>2, <2>3, <2>4
<1>10. Cardinality(EncodedFrames') \in 0 .. frames /\ frames \in 1 .. Word - 1
  <2>1. frames \in 1 .. Word - 1
    BY <1>1, PlannedChunks
  <2>2. EncodedFrames \subseteq 0 .. frames - 1 /\ Covers(at) \subseteq 0 .. frames - 1
    BY <1>1, PlannedFrames DEF EncodedFrames, EncodedChunks
  <2>3. /\ IsFiniteSet(0 .. frames - 1) /\ Cardinality(0 .. frames - 1) = frames
        /\ frames \in Nat
    BY <2>1, FS_Interval, MultiNodeAssumption DEF MultiNodeAssumption
  <2>4. EncodedFrames' \in SUBSET (0 .. frames - 1)
    BY <1>5, <2>2
  <2>5. /\ Cardinality(EncodedFrames') <= frames /\ IsFiniteSet(EncodedFrames')
        /\ Cardinality(EncodedFrames') \in Nat
    BY <2>3, <2>4, FS_Subset, FS_CardinalityType
  <2> QED
    BY <2>1, <2>3, <2>5
<1>11. encoded' = encoded + Length(chunks[at])
  <2> DEFINE e == encoded + Length(chunks[at])
  <2>1. e = Word * 0 + e /\ e \in 0 .. Word - 1 /\ Word \in Nat \ {0} /\ e \in Int
    BY <1>9, <1>10, MultiNodeAssumption DEF MultiNodeAssumption
  <2> HIDE DEF e
  <2>2. e % Word = e
    BY <2>1, DivModIs
  <2> QED
    BY <1>1, <2>2 DEF e
<1>12. encoded \in Nat
  BY MultiNodeAssumption DEF MultiNodeAssumption, IInv, TypeOK, Frame
<1> QED
  BY <1>3, <1>7, <1>9, <1>11, <1>12

(* A step that counts nothing, and marks no chunk as acknowledged.         *)
LEMMA NothingCounted ==
  ASSUME IInv, UNCHANGED <<frames, size, encoded>>,
         \/ UNCHANGED chunks
         \/ at \in DOMAIN chunks /\ pc \in {"send", "wait"} /\ Mark("failed")
  PROVE  EncodedChunks' = EncodedChunks /\ EncodedFrames' = EncodedFrames
<1>1. CASE UNCHANGED chunks
  BY <1>1 DEF EncodedChunks, EncodedFrames, Covers
<1>2. CASE at \in DOMAIN chunks /\ pc \in {"send", "wait"} /\ Mark("failed")
  <2>1. /\ DOMAIN chunks' = DOMAIN chunks
        /\ \A i \in DOMAIN chunks : chunks'[i].start = chunks[i].start /\ chunks'[i].end = chunks[i].end
        /\ \A i \in DOMAIN chunks :
             chunks'[i].status = IF i = at THEN "failed" ELSE chunks[i].status
    BY <1>2, MarkEffect DEF IInv, TypeOK
  <2>2. chunks[at].status = "pending"
    BY <1>2, SendsAPendingChunk
  <2>3. EncodedChunks' = EncodedChunks
    BY <2>1, <2>2 DEF EncodedChunks
  <2>4. \A i \in EncodedChunks : Covers(i)' = Covers(i)
    BY <2>1 DEF Covers, EncodedChunks
  <2>5. {Covers(i)' : i \in EncodedChunks'} = {Covers(i) : i \in EncodedChunks}
    BY <2>3, <2>4
  <2> QED
    BY <2>3, <2>5 DEF EncodedFrames
<1> QED
  BY <1>1, <1>2

LEMMA CountStep == IInv /\ [Next]_vars => CountInv' /\ FramesAreAcknowledged'
<1> SUFFICES ASSUME IInv, [Next]_vars
             PROVE  CountInv' /\ FramesAreAcknowledged'
  OBVIOUS
<1>a. /\ CountInv <=> /\ encoded # 0 <=> EncodedChunks # {}
                      /\ pc # "done" => exit = -1
      /\ FramesAreAcknowledged <=>
           /\ frames + size - 1 < Word => encoded = Cardinality(EncodedFrames)
           /\ exit = 0 <=> pc = "done" /\ EncodedChunks # {}
  BY DEF CountInv, FramesAreAcknowledged, EncodedChunks, EncodedFrames
<1>b. /\ CountInv' <=> /\ encoded' # 0 <=> EncodedChunks' # {}
                       /\ pc' # "done" => exit' = -1
      /\ FramesAreAcknowledged' <=>
           /\ frames' + size' - 1 < Word => encoded' = Cardinality(EncodedFrames')
           /\ exit' = 0 <=> pc' = "done" /\ EncodedChunks' # {}
  BY DEF CountInv, FramesAreAcknowledged, EncodedChunks, EncodedFrames
<1>0. /\ encoded # 0 <=> EncodedChunks # {}
      /\ pc # "done" => exit = -1
      /\ frames + size - 1 < Word => encoded = Cardinality(EncodedFrames)
      /\ exit = 0 <=> pc = "done" /\ EncodedChunks # {}
      /\ encoded \in Nat
  BY <1>a, MultiNodeAssumption DEF MultiNodeAssumption, IInv, TypeOK, Frame
<1>1. ASSUME UNCHANGED <<frames, size, encoded>>,
             \/ UNCHANGED chunks
             \/ at \in DOMAIN chunks /\ pc \in {"send", "wait"} /\ Mark("failed"),
             pc # "done", pc' # "done", UNCHANGED exit
      PROVE  CountInv' /\ FramesAreAcknowledged'
  <2>1. EncodedChunks' = EncodedChunks /\ EncodedFrames' = EncodedFrames
    BY <1>1, NothingCounted
  <2>2. exit' = -1
    BY <1>0, <1>1
  <2> QED
    BY <1>0, <1>1, <1>b, <2>1, <2>2
<1>2. CASE CountFrames \/ Discovered
  <2>1. UNCHANGED <<frames, size, encoded, chunks>> /\ chunks = <<>> /\ pc # "done"
    BY <1>2 DEF CountFrames, Discovered, IInv, PlanInv
  <2>2. CASE pc' # "done"
    BY <1>1, <1>2, <2>1, <2>2 DEF CountFrames, Discovered, Fails
  <2>3. CASE pc' = "done" /\ exit' = 1
    <3>1. EncodedChunks' = EncodedChunks /\ EncodedFrames' = EncodedFrames
      BY <2>1, NothingCounted
    <3>2. EncodedChunks = {}
      BY <2>1 DEF EncodedChunks
    <3> QED
      BY <1>0, <1>b, <2>1, <2>3, <3>1, <3>2
  <2> QED
    BY <1>2, <2>2, <2>3 DEF CountFrames, Discovered, Fails
<1>3. CASE Ping \/ Connect
  BY <1>1, <1>3 DEF Ping, Connect
<1>4. CASE Divide
  <2>1. /\ UNCHANGED <<frames, size, encoded, exit>> /\ pc = "plan" /\ pc' \in {"killed", "send"}
        /\ frames # 0 /\ avail # {} /\ chunks = <<>>
    BY <1>4 DEF Divide, IInv, PlanInv
  <2>2. CASE size = 0
    BY <1>1, <1>4, <2>1, <2>2 DEF Divide
  <2>3. CASE size # 0
    <3>1. frames \in 1 .. Word - 1 /\ size \in 1 .. Word - 1 /\ avail \in SUBSET Nodes
      BY <2>1, <2>3, MultiNodeAssumption DEF MultiNodeAssumption, IInv, TypeOK
    <3>2. \A i \in DOMAIN chunks' : chunks'[i].status = "pending"
      BY <1>4, <2>1, <2>3, <3>1, PlanPending DEF Divide
    <3>3. EncodedChunks' = {} /\ EncodedChunks = {}
      BY <2>1, <3>2 DEF EncodedChunks
    <3>4. EncodedFrames' = {} /\ EncodedFrames = {}
      BY <3>3 DEF EncodedFrames
    <3>5. exit' = -1
      BY <1>0, <2>1
    <3> QED
      BY <1>0, <1>b, <2>1, <3>3, <3>4, <3>5
  <2> QED
    BY <2>2, <2>3
<1>5. CASE Unreachable \/ Broken
  <2>1. /\ UNCHANGED <<frames, size, encoded, exit>> /\ at \in DOMAIN chunks
        /\ pc \in {"send", "wait"} /\ pc' \in {"send", "killed"}
        /\ UNCHANGED chunks \/ Mark("failed")
    BY <1>5 DEF Unreachable, Broken, IInv, TypeOK
  <2> QED
    BY <1>1, <2>1
<1>6. CASE Finish
  <2>1. /\ UNCHANGED <<frames, size, encoded, chunks>> /\ pc' = "done"
        /\ exit' = IF encoded > 0 THEN 0 ELSE 1
    BY <1>6 DEF Finish
  <2>2. EncodedChunks' = EncodedChunks /\ EncodedFrames' = EncodedFrames
    BY <2>1, NothingCounted
  <2>3. exit' = 0 <=> EncodedChunks # {}
    BY <1>0, <2>1
  <2> QED
    BY <1>0, <1>b, <2>1, <2>2, <2>3
<1>7. ASSUME NEW n \in Nodes, Acknowledge(n)
      PROVE  CountInv' /\ FramesAreAcknowledged'
  <2>1. encoded' = Cardinality(EncodedFrames)' /\ encoded' # 0 /\ EncodedChunks' # {}
    BY <1>7, AcknowledgeCounts
  <2>2. pc = "wait" /\ pc' = "send" /\ UNCHANGED exit
    BY <1>7, AnswersTheCoordinator DEF Acknowledge
  <2>3. exit' = -1
    BY <1>0, <2>2
  <2> QED
    BY <1>b, <2>1, <2>2, <2>3
<1>8. CASE UNCHANGED <<frames, size, coordinator>>
  <2>1. UNCHANGED <<frames, size, encoded, chunks, pc, exit>>
    BY <1>8 DEF coordinator
  <2>2. EncodedChunks' = EncodedChunks /\ EncodedFrames' = EncodedFrames
    BY <2>1, NothingCounted
  <2> QED
    BY <1>0, <1>b, <2>1, <2>2
<1> QED
  BY <1>2, <1>3, <1>4, <1>5, <1>6, <1>7, <1>8
  DEF Next, Coordinate, SilentArrives, SilentLeaves, WorkerDies, WorkerStarts, vars

-----------------------------------------------------------------------------
(* The invariants of the run.                                              *)

LEMMA Invariance == Spec => []IInv
<1>1. IInv /\ [Next]_vars => IInv'
  BY TypeStep, PlanStep, ProgressStep, ConnectionStep, CountStep DEF IInv
<1> QED
  BY <1>1, InvInit, PTL DEF Spec

(* Every variable keeps its type: the chunks lie within the word and go to *)
(* nodes of the list, and a coordinator that waits does so for a chunk.    *)
THEOREM TypeCorrect == Spec => []TypeOK
<1>1. IInv => TypeOK
  BY DEF IInv
<1> QED
  BY <1>1, Invariance, PTL

(* The division of uint32_t numbers puts every frame into exactly one      *)
(* chunk, for all frame counts and chunk sizes whose sum fits the word.    *)
THEOREM EveryFrameInOneChunk == Spec => []ChunksPartition
<1>1. IInv => ChunksPartition
  BY PlannedCovers DEF IInv, PlanInv, ChunksPartition
<1> QED
  BY <1>1, Invariance, PTL

(* Whichever nodes answered the ping, only they are given chunks, and none *)
(* two more than another.                                                  *)
THEOREM WorkIsDealtOutEvenly == Spec => []WorkIsBalanced
<1>1. ASSUME IInv
      PROVE  WorkIsBalanced
  <2> DEFINE Load(n) == Cardinality({i \in DOMAIN chunks : chunks[i].node = n})
  <2>1. CASE chunks = <<>>
    <3>1. DOMAIN chunks = {}
      BY <2>1
    <3>2. \A n : {i \in DOMAIN chunks : chunks[i].node = n} = {}
      BY <3>1
    <3>3. \A n : Load(n) = 0
      BY <3>2, FS_EmptySet
    <3> QED
      BY <3>1, <3>3 DEF WorkIsBalanced
  <2>2. CASE chunks # <<>>
    <3> DEFINE N == ChunkCount(frames, size)
    <3>1. TypeOK /\ Planned
      BY <1>1, <2>2 DEF IInv, PlanInv
    <3>2. /\ avail \in SUBSET Nodes /\ avail # {} /\ DOMAIN chunks = 1 .. N /\ N \in Nat
          /\ \A i \in DOMAIN chunks : chunks[i].node = Turn(i, avail)
      BY <3>1, PlannedChunks, ChunkCountIs DEF TypeOK, Planned
    <3> HIDE DEF N
    <3>3. \A i \in DOMAIN chunks : chunks[i].node \in avail
      <4>1. \A i \in 1 .. N : i \in Int
        BY <3>2
      <4> QED
        BY <3>2, <4>1, TurnIs
    <3>4. \A n : {i \in DOMAIN chunks : chunks[i].node = n} = {i \in 1 .. N : Turn(i, avail) = n}
      BY <3>2
    <3>5. ASSUME NEW m \in avail, NEW n \in avail
          PROVE  Load(m) <= Load(n) + 1
      <4>1. Cardinality({i \in 1 .. N : Turn(i, avail) = m})
              <= Cardinality({i \in 1 .. N : Turn(i, avail) = n}) + 1
        BY <3>2, TurnsAreFair
      <4>2. /\ {i \in DOMAIN chunks : chunks[i].node = m} = {i \in 1 .. N : Turn(i, avail) = m}
            /\ {i \in DOMAIN chunks : chunks[i].node = n} = {i \in 1 .. N : Turn(i, avail) = n}
        BY <3>4
      <4> QED
        BY <4>1, <4>2
    <3> QED
      BY <3>3, <3>5 DEF WorkIsBalanced
  <2> QED
    BY <2>1, <2>2
<1> QED
  BY <1>1, Invariance, PTL

(* frames_encoded is the number of frames in the chunks that were          *)
(* acknowledged, each counted once, and the exit code says whether there   *)
(* was one.                                                                *)
THEOREM ReportedFramesAreAcknowledged == Spec => []FramesAreAcknowledged
<1>1. IInv => FramesAreAcknowledged
  BY DEF IInv
<1> QED
  BY <1>1, Invariance, PTL
=============================================================================
