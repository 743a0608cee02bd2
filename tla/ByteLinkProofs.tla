--------------------------- MODULE ByteLinkProofs ---------------------------
(***************************************************************************)
(* TLAPS proofs about FrameCodec and ByteLink, for payloads of any size    *)
(* and bytes, any number of frames and any number of damaged ones: what    *)
(* one try_parse() does to a frame, that while (try_parse(cb)) {} ends     *)
(* with nothing left to parse, that the rest it leaves is less than a      *)
(* frame, that a frame the line did not spoil is never lost, and that the  *)
(* callback is handed written messages only, in their order, each once.    *)
(***************************************************************************)
EXTENDS ByteLink, WellFoundedInduction, FiniteSetTheorems, SequenceTheorems, TLAPS

(***************************************************************************)
(* Numbers, and the fold of Parsed as a chain of rounds.                   *)
(***************************************************************************)
\* Library theorem WFMin for the numbers, in the form the provers can instantiate.
LEMMA LeastElement ==
    ASSUME NEW R, IsWellFoundedOn(R, Nat), NEW S, S \subseteq Nat, S # {}
    PROVE  \E m \in S : \A n \in S : ~ (<<n, m>> \in R)
BY WFMin, Zenon

\* An order that contains < gives every nonempty set of numbers a least one.
LEMMA LeastInOrder ==
    ASSUME NEW R, IsWellFoundedOn(R, Nat), \A x, y \in Nat : x < y => <<x, y>> \in R,
           NEW S \in SUBSET Nat, S # {}
    PROVE  \E m \in S : \A n \in S : m <= n
<1>1. PICK m \in S : \A n \in S : ~ (<<n, m>> \in R)
  <2>1. S \subseteq Nat
    OBVIOUS
  <2>2. QED  BY <2>1, LeastElement
<1>2. ASSUME NEW n \in S PROVE m <= n
  <2>1. m \in Nat /\ n \in Nat
    OBVIOUS
  <2>2. ~ (n < m)
    BY <1>1, <2>1
  <2>3. QED  BY <2>1, <2>2
<1>3. QED  BY <1>2

\* Every nonempty set of numbers has a least one.
LEMMA LeastNumber ==
    ASSUME NEW S \in SUBSET Nat, S # {}
    PROVE  \E m \in S : \A n \in S : m <= n
<1>1. \A x, y \in Nat : x < y => <<x, y>> \in OpToRel(<, Nat)
  BY DEF OpToRel
<1>2. QED  BY <1>1, NatLessThanWellFounded, LeastInOrder, Zenon

\* Induction for a set of numbers: the library's theorem takes an operator as
\* its parameter, which the provers do not instantiate.
LEMMA EveryNumber ==
    ASSUME NEW S \in SUBSET Nat, 0 \in S, \A n \in S : n + 1 \in S
    PROVE  S = Nat
<1>1. SUFFICES ASSUME Nat \ S # {} PROVE FALSE
  OBVIOUS
<1>2. PICK m \in Nat \ S : \A n \in Nat \ S : m <= n
  BY <1>1, LeastNumber
<1>3. m - 1 \in Nat /\ m - 1 \notin S
  BY <1>2
<1>4. QED  BY <1>2, <1>3

\* Max, which FoldLeft chooses by, is the greatest of some of the first n.
LEMMA GreatestNumber ==
    ASSUME NEW n \in Nat, NEW S \in SUBSET (1..n), S # {}
    PROVE  Max(S) \in S /\ \A x \in S : Max(S) >= x
<1> DEFINE D == {n - x : x \in S}
<1>1. D \in SUBSET Nat
  <2>1. ASSUME NEW x \in S PROVE n - x \in Nat
    <3>1. x \in 1..n
      OBVIOUS
    <3>2. QED  BY <3>1
  <2>2. QED  BY <2>1
<1>2. D # {}
  OBVIOUS
<1>3. PICK d \in D : \A e \in D : d <= e
  <2> HIDE DEF D
  <2>1. QED  BY <1>1, <1>2, LeastNumber
<1>4. PICK x \in S : d = n - x
  OBVIOUS
<1>5. ASSUME NEW y \in S PROVE x >= y
  <2>1. n - y \in D
    OBVIOUS
  <2>2. n - x <= n - y
    BY <1>3, <1>4, <2>1
  <2>3. x \in 1..n /\ y \in 1..n
    OBVIOUS
  <2>4. QED  BY <2>2, <2>3
<1>6. QED  BY <1>5 DEF Max

\* Min, which Synced cuts at, is the least number of a set.
LEMMA LeastOfSet ==
    ASSUME NEW S \in SUBSET Nat, S # {}
    PROVE  Min(S) \in S /\ \A x \in S : Min(S) <= x
BY LeastNumber DEF Min

\* r[0], ..., r[n] are the states after each of n rounds of try_parse() from s.
Chain(k, s, n, r) == r[0] = s /\ \A i \in 0..(n - 1) : r[i + 1] = TryParse(k, r[i])

\* The rounds of try_parse() can be laid out, as many as one likes.
LEMMA ChainExists ==
    ASSUME NEW k, NEW s, NEW n \in Nat
    PROVE  \E r : Chain(k, s, n, r)
<1> DEFINE A == {m \in Nat : \E r : Chain(k, s, m, r)}
<1>1. 0 \in A
  <2>1. Chain(k, s, 0, [i \in {0} |-> s])
    BY DEF Chain
  <2>2. QED  BY <2>1
<1>2. ASSUME NEW m \in A PROVE m + 1 \in A
  <2>1. PICK r : Chain(k, s, m, r)
    OBVIOUS
  <2> DEFINE q == [i \in 0..(m + 1) |-> IF i = m + 1 THEN TryParse(k, r[m]) ELSE r[i]]
  <2>2. q[0] = s
    BY <2>1 DEF Chain
  <2>3. ASSUME NEW i \in 0..m PROVE q[i + 1] = TryParse(k, q[i])
    <3>1. CASE i = m
      BY <3>1
    <3>2. CASE i < m
      <4>1. i \in 0..(m - 1)
        BY <3>2
      <4>2. q[i] = r[i] /\ q[i + 1] = r[i + 1]
        BY <3>2
      <4>3. QED  BY <4>1, <4>2, <2>1 DEF Chain
    <3>3. QED  BY <3>1, <3>2
  <2>4. Chain(k, s, m + 1, q)
    <3> HIDE DEF q
    <3>1. (m + 1) - 1 = m
      OBVIOUS
    <3>2. QED BY <2>2, <2>3, <3>1 DEF Chain
  <2>5. QED  BY <2>4
<1>3. A = Nat
  <2> HIDE DEF A
  <2>1. A \in SUBSET Nat  BY DEF A
  <2>2. QED  BY <1>1, <1>2, <2>1, EveryNumber
<1>4. QED  BY <1>3

\* The fold in Parsed is the last of Len(b) + 1 rounds of try_parse(): FoldLeft
\* walks down the sets 1..n, whose rounds are r[0], ..., r[n].
LEMMA ParsedByRounds ==
    ASSUME NEW k, NEW C, NEW b \in Seq(C)
    PROVE  \E r : /\ Chain(k, [rest |-> b, got |-> <<>>], Len(b) + 1, r)
                  /\ Parsed(k, b) = r[Len(b) + 1]
<1> DEFINE q == <<0>> \o b
           s == [rest |-> b, got |-> <<>>]
           n == Len(b) + 1
           it[u \in SUBSET (DOMAIN q)] == IF u = {} THEN s ELSE TryParse(k, it[u \ {Max(u)}])
           Step(g) == [u \in SUBSET (1..n) |-> IF u = {} THEN s ELSE TryParse(k, g[u \ {Max(u)}])]
<1>1. Parsed(k, b) = it[DOMAIN q]
  BY DEF Parsed, FoldLeft, MapThenFoldSet
<1>2. DOMAIN q = 1..n /\ n \in Nat
  OBVIOUS
<1>3. PICK r : Chain(k, s, n, r)
  BY <1>2, ChainExists
<1>4. \E g : g = Step(g)
  <2> DEFINE g == [u \in SUBSET (1..n) |-> r[Cardinality(u)]]
  <2>1. ASSUME NEW u \in SUBSET (1..n)
        PROVE  g[u] = IF u = {} THEN s ELSE TryParse(k, g[u \ {Max(u)}])
    <3>1. CASE u = {}
      BY <3>1, <1>3, FS_EmptySet DEF Chain
    <3>2. CASE u # {}
      <4>1. Max(u) \in u
        BY <1>2, <3>2, GreatestNumber
      <4>2. IsFiniteSet(1..n) /\ Cardinality(1..n) = n
        BY <1>2, FS_Interval
      <4>3. IsFiniteSet(u) /\ Cardinality(u) <= n
        BY <4>2, FS_Subset
      <4>4. Cardinality(u) \in Nat /\ Cardinality(u \ {Max(u)}) = Cardinality(u) - 1
        BY <4>1, <4>3, FS_CardinalityType, FS_RemoveElement
      <4>5. Cardinality(u) # 0
        BY <3>2, <4>3, FS_EmptySet
      <4>6. Cardinality(u) - 1 \in 0..(n - 1) /\ (Cardinality(u) - 1) + 1 = Cardinality(u)
        BY <4>3, <4>4, <4>5, <1>2
      <4>7. r[Cardinality(u)] = TryParse(k, r[Cardinality(u) - 1])
        BY <4>6, <1>3 DEF Chain
      <4>8. g[u] = r[Cardinality(u)] /\ g[u \ {Max(u)}] = r[Cardinality(u) - 1]
        BY <4>4
      <4>9. QED  BY <3>2, <4>7, <4>8
    <3>3. QED  BY <3>1, <3>2
  <2>2. g = Step(g)
    BY <2>1
  <2>3. QED  BY <2>2
<1>5. it = [u \in SUBSET (DOMAIN q) |-> IF u = {} THEN s ELSE TryParse(k, it[u \ {Max(u)}])]
  BY <1>2, <1>4
<1> HIDE DEF it, q
<1>6. \A u \in SUBSET (1..n) : it[u] = IF u = {} THEN s ELSE TryParse(k, it[u \ {Max(u)}])
  BY <1>2, <1>5
<1> DEFINE p == [i \in 0..n |-> it[1..i]]
<1>7. p[0] = s
  <2>1. it[{}] = s
    BY <1>6
  <2>2. 1..0 = {} /\ 0 \in 0..n
    BY <1>2
  <2>3. QED  BY <2>1, <2>2
<1>8. ASSUME NEW i \in 0..(n - 1) PROVE p[i + 1] = TryParse(k, p[i])
  <2>1. i \in Nat /\ n \in Nat /\ i + 1 \in 1..n
    BY <1>2
  <2>2. 1..(i + 1) \in SUBSET (1..n) /\ i + 1 \in 1..(i + 1)
    BY <2>1
  <2>3. Max(1..(i + 1)) = i + 1
    <3> DEFINE S == 1..(i + 1)
    <3>1. S \in SUBSET (1..n) /\ S # {}
      BY <2>2
    <3>2. Max(S) \in S /\ \A x \in S : Max(S) >= x
      <4> HIDE DEF S
      <4>1. QED  BY <2>1, <3>1, GreatestNumber
    <3>3. QED  BY <2>1, <2>2, <3>2
  <2>4. (1..(i + 1)) \ {i + 1} = 1..i
    BY <2>1
  <2>5. it[1..(i + 1)] = TryParse(k, it[1..i])
    BY <2>1, <2>2, <2>3, <2>4, <1>6
  <2>6. i \in 0..n /\ i + 1 \in 0..n
    BY <1>2
  <2>7. QED  BY <2>5, <2>6
<1>9. p[n] = it[DOMAIN q]
  BY <1>2
<1> HIDE DEF p
<1>10. Chain(k, s, n, p)
  BY <1>7, <1>8 DEF Chain
<1>11. QED  BY <1>1, <1>9, <1>10
-----------------------------------------------------------------------------
(***************************************************************************)
(* One round of try_parse().                                               *)
(***************************************************************************)
\* The values of the model: bytes, cells, what the callback is handed, and the
\* states a parse goes through.
Codecs == {Daemon, Driver}
Cell == Byte \cup {c \in Seq(Byte) : Len(c) >= 2}
Values == Nat \cup Byte
States == [rest : Seq(Cell), got : Seq(Values)]

\* A byte is a cell of length one; any other cell is a CRC of bytes.
LEMMA CellFacts ==
    /\ \A n \in Nat : <<n>> \in Byte
    /\ Sync0 \in Byte /\ Sync1 \in Byte /\ Sync0 # Sync1
    /\ \A c \in Byte : Len(c) = 1 /\ c[1] \in Nat
    /\ \A c \in Cell : c[1] \in Values /\ (Len(c) = 1 => c[1] \in Nat)
    /\ \A c \in Cell : Len(c) # 1 => c \in Seq(Byte) /\ Len(c) >= 2
    /\ \A c \in Seq(Byte) : Len(c) >= 2 => c \in Cell
    /\ Byte \subseteq Cell
<1>1. \A n \in Nat : <<n>> \in Byte
  BY DEF Byte
<1>2. \A c \in Byte : Len(c) = 1 /\ c[1] \in Nat
  <2>1. ASSUME NEW c \in Byte PROVE Len(c) = 1 /\ c[1] \in Nat
    <3>1. {1} = 1..1
      OBVIOUS
    <3>2. c \in [1..1 -> Nat]
      BY <3>1 DEF Byte
    <3>3. c \in Seq(Nat)
      <4>1. c \in UNION {[1..n -> Nat] : n \in Nat}
        BY <3>2
      <4>2. QED  BY <4>1, SeqDef
    <3>4. DOMAIN c = 1..1 /\ DOMAIN c = 1..Len(c) /\ Len(c) \in Nat
      BY <3>2, <3>3, LenProperties
    <3>5. Len(c) = 1
      BY <3>4
    <3>6. QED  BY <3>2, <3>5
  <2>2. QED  BY <2>1
<1>3. Sync0 \in Byte /\ Sync1 \in Byte /\ Sync0 # Sync1
  BY <1>1 DEF Sync0, Sync1
<1>4. ASSUME NEW c \in Seq(Byte), Len(c) >= 2
      PROVE  c[1] \in Byte /\ Len(c) # 1
  <2>1. Len(c) \in Nat /\ 1 \in 1..Len(c)
    BY <1>4, LenProperties
  <2>2. QED  BY <1>4, <2>1, ElementOfSeq
<1>5. QED  BY <1>1, <1>2, <1>3, <1>4 DEF Cell, Values

\* What tells the two codecs apart, and the sizes they share.
LEMMA CodecFacts ==
    ASSUME NEW k \in Codecs
    PROVE  /\ k.crcFrom \in {1, 3} /\ k.need \in {4, 5} /\ k.skip \in {1, 2}
           /\ k = Daemon => k.crcFrom = 1 /\ k.need = 5 /\ k.skip = 2
           /\ k # Daemon => k.crcFrom = 3 /\ k.need = 4 /\ k.skip = 1
           /\ MaxFrame = MaxPayload + 5 /\ MaxFrame \in Nat /\ BufCap = 2 * MaxFrame
BY CodecConstants DEF Codecs, Daemon, Driver, HeaderTot, CrcSz, MaxFrame, BufCap

\* Erasing the first n cells of a buffer.
LEMMA Dropped ==
    ASSUME NEW C, NEW b \in Seq(C), NEW n \in 0..Len(b)
    PROVE  /\ DropFirst(b, n) \in Seq(C)
           /\ Len(DropFirst(b, n)) = Len(b) - n
           /\ \A i \in 1..(Len(b) - n) : DropFirst(b, n)[i] = b[i + n]
<1>1. Len(b) \in Nat /\ n + 1 \in Int /\ Len(b) \in Int
  OBVIOUS
<1>2. \A i \in (n + 1)..Len(b) : b[i] \in C
  BY ElementOfSeq
<1>3. /\ SubSeq(b, n + 1, Len(b)) \in Seq(C)
      /\ Len(SubSeq(b, n + 1, Len(b))) = IF n + 1 <= Len(b) THEN Len(b) - (n + 1) + 1 ELSE 0
      /\ \A i \in 1..(Len(b) - (n + 1) + 1) : SubSeq(b, n + 1, Len(b))[i] = b[(n + 1) + i - 1]
  BY <1>1, <1>2, SubSeqProperties
<1>4. QED  BY <1>1, <1>3 DEF DropFirst

\* The search for the sync bytes passes no pair of them and stops in front of one.
LEMMA SyncedDrops ==
    ASSUME NEW b \in Seq(Cell)
    PROVE  \E m \in 0..Len(b) :
             /\ Synced(b) = DropFirst(b, m)
             /\ \A i \in 1..m : i < Len(b) /\ ~ (b[i] = Sync0 /\ b[i + 1] = Sync1)
             /\ Len(b) - m >= 2 => b[m + 1] = Sync0 /\ b[m + 2] = Sync1
<1> DEFINE at == {i \in 1..(Len(b) - 1) : b[i] = Sync0 /\ b[i + 1] = Sync1}
           m == IF at # {} THEN Min(at) - 1 ELSE IF b = <<>> THEN 0 ELSE Len(b) - 1
<1>1. Len(b) \in Nat /\ (b = <<>> <=> Len(b) = 0)
  BY EmptySeq
<1>2. Synced(b) = DropFirst(b, m)
  BY DEF Synced
<1>3. CASE at # {}
  <2>1. at \in SUBSET Nat
    OBVIOUS
  <2>2. Min(at) \in at /\ \A i \in at : Min(at) <= i
    <3> HIDE DEF at
    <3>1. QED  BY <1>3, <2>1, LeastOfSet
  <2>3. m = Min(at) - 1
    BY <1>3
  <2>4. Min(at) \in 1..(Len(b) - 1) /\ b[Min(at)] = Sync0 /\ b[Min(at) + 1] = Sync1
    BY <2>2
  <2>5. m \in 0..Len(b) /\ m + 1 = Min(at) /\ m + 2 = Min(at) + 1 /\ m < Len(b) - 1
    <3> HIDE DEF m, at
    <3>1. QED  BY <1>1, <2>3, <2>4
  <2>6. ASSUME NEW i \in 1..m PROVE i < Len(b) /\ ~ (b[i] = Sync0 /\ b[i + 1] = Sync1)
    <3>1. i \in 1..(Len(b) - 1) /\ ~ (Min(at) <= i)
      <4> HIDE DEF m, at
      <4>1. QED  BY <1>1, <2>5
    <3>2. i \notin at
      <4> HIDE DEF at
      <4>1. QED  BY <2>2, <3>1
    <3>3. QED  BY <1>1, <3>1, <3>2
  <2>7. QED
    <3> HIDE DEF m, at
    <3>1. QED  BY <1>2, <2>4, <2>5, <2>6
<1>4. CASE at = {} /\ b # <<>>
  <2>1. m = Len(b) - 1 /\ m \in 0..Len(b) /\ ~ (Len(b) - m >= 2)
    BY <1>1, <1>4
  <2>2. ASSUME NEW i \in 1..m PROVE i < Len(b) /\ ~ (b[i] = Sync0 /\ b[i + 1] = Sync1)
    <3>1. i \in 1..(Len(b) - 1)
      BY <2>1
    <3>2. i \notin at
      BY <1>4
    <3>3. QED  BY <1>1, <3>1, <3>2
  <2>3. QED
    <3> HIDE DEF m, at
    <3>1. QED  BY <1>2, <2>1, <2>2
<1>5. CASE at = {} /\ b = <<>>
  <2>1. m = 0 /\ Len(b) = 0
    BY <1>1, <1>5
  <2>2. QED
    <3> HIDE DEF m, at
    <3>1. QED  BY <1>2, <2>1
<1>6. QED  BY <1>3, <1>4, <1>5

\* The same of what try_parse() does first, whichever program it is.
LEMMA ScannedDrops ==
    ASSUME NEW k \in Codecs, NEW b \in Seq(Cell)
    PROVE  \E m \in 0..Len(b) :
             /\ Scanned(k, b) = DropFirst(b, m)
             /\ \A i \in 1..m : i < Len(b) /\ ~ (b[i] = Sync0 /\ b[i + 1] = Sync1)
             /\ Len(b) - m >= k.need => b[m + 1] = Sync0 /\ b[m + 2] = Sync1
<1>1. Len(b) \in Nat /\ k.need \in {4, 5}
  BY CodecFacts
<1>2. CASE k = Daemon /\ Len(b) < k.need
  <2>1. Scanned(k, b) = b
    BY <1>2 DEF Scanned
  <2>2. DropFirst(b, 0) = b
    BY SubSeqFull DEF DropFirst
  <2>3. 0 \in 0..Len(b) /\ ~ (Len(b) - 0 >= k.need)
    BY <1>1, <1>2
  <2>4. QED  BY <2>1, <2>2, <2>3
<1>3. CASE ~ (k = Daemon /\ Len(b) < k.need)
  <2>1. Scanned(k, b) = Synced(b)
    BY <1>3 DEF Scanned
  <2>2. PICK m \in 0..Len(b) :
             /\ Synced(b) = DropFirst(b, m)
             /\ \A i \in 1..m : i < Len(b) /\ ~ (b[i] = Sync0 /\ b[i + 1] = Sync1)
             /\ Len(b) - m >= 2 => b[m + 1] = Sync0 /\ b[m + 2] = Sync1
    BY SyncedDrops
  <2>3. Len(b) - m >= k.need => Len(b) - m >= 2
    BY <1>1
  <2>4. QED  BY <2>1, <2>2, <2>3
<1>4. QED  BY <1>2, <1>3

\* What a header claims is a number, and a valid frame lies in the buffer.
LEMMA ClaimedIsNumber ==
    ASSUME NEW k \in Codecs, NEW b \in Seq(Cell), Len(b) >= k.need
    PROVE  /\ Claimed(b) \in Nat /\ Total(b) = Claimed(b) + 5 /\ Total(b) \in Nat
           /\ ~ Short(k, b) /\ Claimed(b) <= MaxPayload => Total(b) <= Len(b)
<1>1. Len(b) \in Nat /\ 4 \in 1..Len(b)
  BY CodecFacts
<1>2. b[4] \in Cell
  BY <1>1, ElementOfSeq
<1>3. Claimed(b) \in Nat
  BY <1>2, CellFacts, CodecConstants DEF Claimed, HeaderTot
<1>4. QED  BY <1>1, <1>3 DEF Total, HeaderTot, CrcSz, Short

\* What try_parse() waits with is less than a frame.
LEMMA ShortIsSmall ==
    ASSUME NEW k \in Codecs, NEW b \in Seq(Cell), Short(k, b)
    PROVE  Len(b) < MaxFrame
<1>1. CASE Len(b) < k.need
  <2>1. Len(b) \in Nat /\ k.need \in {4, 5} /\ MaxFrame = MaxPayload + 5 /\ MaxPayload \in Nat
    BY CodecFacts, CodecConstants
  <2>2. QED  BY <1>1, <2>1
<1>2. CASE ~ (Len(b) < k.need)
  <2>1. Len(b) \in Nat /\ k.need \in {4, 5}
    BY CodecFacts
  <2>2. Len(b) >= k.need
    BY <1>2, <2>1
  <2>3. Claimed(b) \in Nat /\ Total(b) = Claimed(b) + 5
    BY <2>2, ClaimedIsNumber
  <2>4. Claimed(b) <= MaxPayload /\ Len(b) < Total(b)
    BY <1>2 DEF Short
  <2>5. QED  BY <2>1, <2>3, <2>4, CodecFacts, CodecConstants
<1>3. QED  BY <1>1, <1>2

\* An assignment to the rest of a state leaves what was handed over.
LEMMA SameRecord ==
    ASSUME NEW s \in States, NEW x
    PROVE  [s EXCEPT !.rest = x] = [rest |-> x, got |-> s.got]
BY DEF States

\* The three ways a round of try_parse() ends, and how much each consumes.
LEMMA RoundCases ==
    ASSUME NEW k \in Codecs, NEW s \in States
    PROVE  \E m \in 0..Len(s.rest) : \E b \in Seq(Cell) :
             /\ b = Scanned(k, s.rest) /\ b = DropFirst(s.rest, m) /\ Len(b) = Len(s.rest) - m
             /\ \A i \in 1..m :
                  i < Len(s.rest) /\ ~ (s.rest[i] = Sync0 /\ s.rest[i + 1] = Sync1)
             /\ \/ /\ Short(k, b)
                   /\ TryParse(k, s) = [rest |-> b, got |-> s.got]
                \/ /\ ~ Short(k, b) /\ Len(b) >= k.need
                   /\ b[1] = Sync0 /\ b[2] = Sync1
                   /\ \/ /\ Valid(k, b) /\ Total(b) \in 5..Len(b)
                         /\ TryParse(k, s) = [rest |-> DropFirst(b, Total(b)),
                                              got |-> Append(s.got, b[3][1])]
                      \/ /\ ~ Valid(k, b)
                         /\ TryParse(k, s) = [rest |-> DropFirst(b, k.skip), got |-> s.got]
<1>1. s.rest \in Seq(Cell) /\ Len(s.rest) \in Nat
  BY DEF States
<1>2. PICK m \in 0..Len(s.rest) :
             /\ Scanned(k, s.rest) = DropFirst(s.rest, m)
             /\ \A i \in 1..m :
                  i < Len(s.rest) /\ ~ (s.rest[i] = Sync0 /\ s.rest[i + 1] = Sync1)
             /\ Len(s.rest) - m >= k.need => s.rest[m + 1] = Sync0 /\ s.rest[m + 2] = Sync1
  BY <1>1, ScannedDrops
<1>3. PICK b : b = Scanned(k, s.rest)
  OBVIOUS
<1>4. /\ b = DropFirst(s.rest, m) /\ b \in Seq(Cell) /\ Len(b) = Len(s.rest) - m
      /\ \A i \in 1..(Len(s.rest) - m) : b[i] = s.rest[i + m]
  BY <1>1, <1>2, <1>3, Dropped
<1>5. TryParse(k, s) =
        IF Short(k, b) THEN [rest |-> b, got |-> s.got]
        ELSE IF Valid(k, b) THEN [rest |-> DropFirst(b, Total(b)), got |-> Append(s.got, b[3][1])]
        ELSE [rest |-> DropFirst(b, k.skip), got |-> s.got]
  BY <1>3, SameRecord DEF TryParse, Rejected
<1>6. CASE Short(k, b)
  BY <1>2, <1>3, <1>4, <1>5, <1>6
<1>7. CASE ~ Short(k, b)
  <2>1. Len(b) \in Nat /\ k.need \in {4, 5} /\ Len(b) >= k.need
    BY <1>4, <1>7, CodecFacts DEF Short
  <2>2. 1 \in 1..(Len(s.rest) - m) /\ 2 \in 1..(Len(s.rest) - m)
    BY <2>1, <1>4
  <2>3. b[1] = Sync0 /\ b[2] = Sync1
    BY <2>1, <2>2, <1>1, <1>2, <1>4
  <2>4. CASE Valid(k, b)
    <3>1. Total(b) \in 5..Len(b)
      BY <2>1, <2>4, <1>4, <1>7, ClaimedIsNumber DEF Valid
    <3>2. TryParse(k, s) = [rest |-> DropFirst(b, Total(b)), got |-> Append(s.got, b[3][1])]
      BY <2>4, <1>5, <1>7
    <3>3. QED  BY <2>1, <2>3, <2>4, <3>1, <3>2, <1>2, <1>3, <1>4, <1>7
  <2>5. CASE ~ Valid(k, b)
    <3>1. TryParse(k, s) = [rest |-> DropFirst(b, k.skip), got |-> s.got]
      BY <2>5, <1>5, <1>7
    <3>2. QED  BY <2>1, <2>3, <2>5, <3>1, <1>2, <1>3, <1>4, <1>7
  <2>6. QED  BY <2>4, <2>5
<1>8. QED  BY <1>6, <1>7

\* A round keeps the types, hands over one frame at most, and unless what it
\* leaves is too short to hold a frame it takes a cell at least.
LEMMA RoundShape ==
    ASSUME NEW k \in Codecs, NEW s \in States
    PROVE  /\ TryParse(k, s) \in States
           /\ \/ TryParse(k, s).got = s.got
              \/ \E v \in Values : TryParse(k, s).got = Append(s.got, v)
           /\ Len(TryParse(k, s).rest) <= Len(s.rest)
           /\ ~ Short(k, Scanned(k, s.rest)) => Len(TryParse(k, s).rest) < Len(s.rest)
           /\ Len(TryParse(k, s).rest) < MaxFrame \/ Len(TryParse(k, s).rest) < Len(s.rest)
<1>1. s.rest \in Seq(Cell) /\ Len(s.rest) \in Nat /\ s.got \in Seq(Values)
  BY DEF States
<1>2. PICK m \in 0..Len(s.rest), b \in Seq(Cell) :
             /\ b = Scanned(k, s.rest) /\ b = DropFirst(s.rest, m) /\ Len(b) = Len(s.rest) - m
             /\ \/ /\ Short(k, b)
                   /\ TryParse(k, s) = [rest |-> b, got |-> s.got]
                \/ /\ ~ Short(k, b) /\ Len(b) >= k.need
                   /\ \/ /\ Total(b) \in 5..Len(b)
                         /\ TryParse(k, s) = [rest |-> DropFirst(b, Total(b)),
                                              got |-> Append(s.got, b[3][1])]
                      \/ TryParse(k, s) = [rest |-> DropFirst(b, k.skip), got |-> s.got]
  BY RoundCases
<1>3. Len(b) \in Nat /\ k.need \in {4, 5} /\ k.skip \in {1, 2}
  BY CodecFacts
<1>4. CASE Short(k, b) /\ TryParse(k, s) = [rest |-> b, got |-> s.got]
  <2>1. Len(b) < MaxFrame
    BY <1>4, ShortIsSmall
  <2>2. QED  BY <2>1, <1>1, <1>2, <1>3, <1>4 DEF States
<1>5. CASE /\ Len(b) >= k.need /\ Total(b) \in 5..Len(b)
           /\ TryParse(k, s) = [rest |-> DropFirst(b, Total(b)), got |-> Append(s.got, b[3][1])]
  <2>1. DropFirst(b, Total(b)) \in Seq(Cell) /\ Len(DropFirst(b, Total(b))) = Len(b) - Total(b)
    <3>1. Total(b) \in 0..Len(b)
      BY <1>5
    <3>2. QED  BY <3>1, Dropped
  <2>2. b[3][1] \in Values
    <3>1. 3 \in 1..Len(b)
      BY <1>3, <1>5
    <3>2. QED  BY <3>1, ElementOfSeq, CellFacts
  <2>3. Len(TryParse(k, s).rest) < Len(s.rest)
    BY <2>1, <1>1, <1>2, <1>3, <1>5
  <2>4. TryParse(k, s) \in States
    BY <2>1, <2>2, <1>1, <1>5 DEF States
  <2>5. Len(TryParse(k, s).rest) \in Nat
    BY <2>4 DEF States
  <2>6. QED  BY <2>2, <2>3, <2>4, <2>5, <1>1, <1>5
<1>6. CASE /\ Len(b) >= k.need
           /\ TryParse(k, s) = [rest |-> DropFirst(b, k.skip), got |-> s.got]
  <2>1. DropFirst(b, k.skip) \in Seq(Cell) /\ Len(DropFirst(b, k.skip)) = Len(b) - k.skip
    <3>1. k.skip \in 0..Len(b)
      BY <1>3, <1>6
    <3>2. QED  BY <3>1, Dropped
  <2>2. Len(TryParse(k, s).rest) < Len(s.rest)
    BY <2>1, <1>1, <1>2, <1>3, <1>6
  <2>3. TryParse(k, s) \in States
    BY <2>1, <1>1, <1>6 DEF States
  <2>4. Len(TryParse(k, s).rest) \in Nat
    BY <2>3 DEF States
  <2>5. QED  BY <2>2, <2>3, <2>4, <1>1, <1>6
<1>7. QED  BY <1>2, <1>4, <1>5, <1>6

\* The rounds of a parse keep the types, never grow the rest, and get it below
\* a frame unless they still take a cell each.
LEMMA ChainTypes ==
    ASSUME NEW k \in Codecs, NEW b \in Seq(Cell), NEW r,
           Chain(k, [rest |-> b, got |-> <<>>], Len(b) + 1, r)
    PROVE  \A i \in 0..(Len(b) + 1) :
             /\ r[i] \in States
             /\ Len(r[i].rest) <= Len(b)
             /\ Len(r[i].rest) < MaxFrame \/ Len(r[i].rest) + i <= Len(b)
<1> DEFINE n == Len(b) + 1
           P(i) == /\ r[i] \in States
                   /\ Len(r[i].rest) <= Len(b)
                   /\ Len(r[i].rest) < MaxFrame \/ Len(r[i].rest) + i <= Len(b)
           A == {i \in Nat : i <= n => P(i)}
<1>1. n \in Nat /\ Len(b) \in Nat
  OBVIOUS
<1>2. 0 \in A
  <2>1. r[0] = [rest |-> b, got |-> <<>>]
    BY DEF Chain
  <2>2. r[0] \in States
    BY <2>1 DEF States
  <2>3. QED  BY <1>1, <2>1, <2>2
<1>3. ASSUME NEW i \in A PROVE i + 1 \in A
  <2>1. i \in Nat
    OBVIOUS
  <2>2. ASSUME i + 1 <= n PROVE P(i + 1)
    <3>1. i \in 0..(n - 1) /\ i <= n
      BY <1>1, <2>1, <2>2
    <3>2. P(i)
      BY <3>1
    <3>3. r[i + 1] = TryParse(k, r[i])
      BY <3>1 DEF Chain
    <3>4. /\ r[i + 1] \in States
          /\ Len(r[i + 1].rest) <= Len(r[i].rest)
          /\ Len(r[i + 1].rest) < MaxFrame \/ Len(r[i + 1].rest) < Len(r[i].rest)
      BY <3>2, <3>3, RoundShape
    <3>5. Len(r[i + 1].rest) \in Nat /\ Len(r[i].rest) \in Nat /\ MaxFrame \in Nat
      BY <3>2, <3>4, CodecFacts DEF States
    <3>6. Len(r[i + 1].rest) <= Len(b)
      BY <1>1, <3>2, <3>4, <3>5
    <3>7. Len(r[i + 1].rest) < MaxFrame \/ Len(r[i + 1].rest) + (i + 1) <= Len(b)
      <4>1. \A x, y, l, j, f \in Nat :
              (x < f \/ x < y) /\ x <= y /\ (y < f \/ y + j <= l) => (x < f \/ x + (j + 1) <= l)
        OBVIOUS
      <4>2. QED  BY <4>1, <1>1, <2>1, <3>2, <3>4, <3>5, Zenon
    <3>8. QED  BY <3>4, <3>6, <3>7
  <2>3. i + 1 \in Nat
    BY <2>1
  <2>4. QED
    <3> HIDE DEF P
    <3>1. QED  BY <2>2, <2>3
<1>4. A = Nat
  <2> HIDE DEF A
  <2>1. A \in SUBSET Nat  BY DEF A
  <2>2. QED  BY <1>2, <1>3, <2>1, EveryNumber
<1>5. QED  BY <1>1, <1>4

\* What while (try_parse(cb)) {} leaves is less than a frame.
LEMMA ParsedType ==
    ASSUME NEW k \in Codecs, NEW b \in Seq(Cell)
    PROVE  Parsed(k, b) \in States /\ Len(Parsed(k, b).rest) < MaxFrame
<1>1. PICK r : /\ Chain(k, [rest |-> b, got |-> <<>>], Len(b) + 1, r)
               /\ Parsed(k, b) = r[Len(b) + 1]
  BY ParsedByRounds
<1>2. Len(b) \in Nat /\ Len(b) + 1 \in 0..(Len(b) + 1)
  OBVIOUS
<1>3. /\ r[Len(b) + 1] \in States
      /\ \/ Len(r[Len(b) + 1].rest) < MaxFrame
         \/ Len(r[Len(b) + 1].rest) + (Len(b) + 1) <= Len(b)
  BY <1>1, <1>2, ChainTypes
<1>4. Len(r[Len(b) + 1].rest) \in Nat
  BY <1>3 DEF States
<1>5. ~ (Len(r[Len(b) + 1].rest) + (Len(b) + 1) <= Len(b))
  <2>1. \A x, y \in Nat : ~ (x + (y + 1) <= y)
    OBVIOUS
  <2>2. QED  BY <2>1, <1>2, <1>4, Zenon
<1>6. QED  BY <1>1, <1>3, <1>5
-----------------------------------------------------------------------------
(***************************************************************************)
(* Frames, and what a round does to one.                                   *)
(***************************************************************************)
\* The CRC cell is the covered cells, two at least.
LEMMA CrcShape ==
    ASSUME NEW k \in Codecs, NEW C, NEW c \in Seq(C), Len(c) >= 4
    PROVE  /\ Crc(k, c) \in Seq(C) /\ Len(Crc(k, c)) = Len(c) + 1 - k.crcFrom
           /\ Len(Crc(k, c)) >= 2
           /\ \A i \in k.crcFrom..Len(c) : Crc(k, c)[i + 1 - k.crcFrom] = c[i]
<1>1. k.crcFrom \in {1, 3} /\ Len(c) \in Nat
  BY CodecFacts
<1>2. \A i \in k.crcFrom..Len(c) : c[i] \in C
  BY <1>1, ElementOfSeq
<1>3. /\ SubSeq(c, k.crcFrom, Len(c)) \in Seq(C)
      /\ Len(SubSeq(c, k.crcFrom, Len(c)))
           = IF k.crcFrom <= Len(c) THEN Len(c) - k.crcFrom + 1 ELSE 0
      /\ \A i \in 1..(Len(c) - k.crcFrom + 1) :
           SubSeq(c, k.crcFrom, Len(c))[i] = c[k.crcFrom + i - 1]
  BY <1>1, <1>2, SubSeqProperties
<1>4. \A i \in k.crcFrom..Len(c) : /\ i + 1 - k.crcFrom \in 1..(Len(c) - k.crcFrom + 1)
                                   /\ k.crcFrom + (i + 1 - k.crcFrom) - 1 = i
  BY <1>1
<1>5. \A i \in k.crcFrom..Len(c) : Crc(k, c)[i + 1 - k.crcFrom] = c[i]
  BY <1>3, <1>4 DEF Crc
<1>6. k.crcFrom <= Len(c) /\ Len(c) - k.crcFrom + 1 = Len(c) + 1 - k.crcFrom
  BY <1>1
<1>7. Len(c) + 1 - k.crcFrom >= 2
  BY <1>1
<1>8. QED  BY <1>3, <1>5, <1>6, <1>7 DEF Crc

\* The header and the payload that encode() writes in front of the CRC.
LEMMA BodyShape ==
    ASSUME NEW id \in Nat, NEW p \in Seq(Byte)
    PROVE  /\ Body(id, p) \in Seq(Byte) /\ Len(Body(id, p)) = Len(p) + 4
           /\ Body(id, p)[1] = Sync0 /\ Body(id, p)[2] = Sync1
           /\ Body(id, p)[3] = <<id>> /\ Body(id, p)[4] = <<Len(p)>>
<1> DEFINE h == <<Sync0, Sync1, <<id>>, <<Len(p)>>>>
<1>1. Len(p) \in Nat
  OBVIOUS
<1>2. Sync0 \in Byte /\ Sync1 \in Byte /\ <<id>> \in Byte /\ <<Len(p)>> \in Byte
  BY <1>1, CellFacts
<1>3. /\ h \in Seq(Byte) /\ Len(h) = 4
      /\ h[1] = Sync0 /\ h[2] = Sync1 /\ h[3] = <<id>> /\ h[4] = <<Len(p)>>
  BY <1>2
<1> HIDE DEF h
<1>4. /\ h \o p \in Seq(Byte) /\ Len(h \o p) = Len(h) + Len(p)
      /\ \A i \in 1..(Len(h) + Len(p)) : (h \o p)[i] = IF i <= Len(h) THEN h[i] ELSE p[i - Len(h)]
  BY <1>3, ConcatProperties
<1>5. /\ 1 \in 1..(Len(h) + Len(p)) /\ 2 \in 1..(Len(h) + Len(p))
      /\ 3 \in 1..(Len(h) + Len(p)) /\ 4 \in 1..(Len(h) + Len(p))
  BY <1>1, <1>3
<1>6. (h \o p)[1] = h[1] /\ (h \o p)[2] = h[2] /\ (h \o p)[3] = h[3] /\ (h \o p)[4] = h[4]
  BY <1>3, <1>4, <1>5
<1>7. Body(id, p) = h \o p
  BY DEF Body, h
<1>8. QED  BY <1>1, <1>3, <1>4, <1>6, <1>7

\* f is what encode() of a program with codec k writes for the identity id.
IsFrame(k, id, f) ==
    \E p \in Seq(Byte) : Len(p) <= MaxPayload /\ f = Encode(k, id, p)

\* The cells of a frame: the header, bytes up to the CRC, and the CRC.
LEMMA FrameShape ==
    ASSUME NEW k \in Codecs, NEW id \in Nat, NEW f, IsFrame(k, id, f)
    PROVE  /\ f \in Seq(Cell) /\ Len(f) \in 5..MaxFrame
           /\ f[1] = Sync0 /\ f[2] = Sync1 /\ f[3] = <<id>> /\ f[4] = <<Len(f) - 5>>
           /\ \A i \in 1..(Len(f) - 1) : f[i] \in Byte
           /\ Len(f[Len(f)]) = Len(f) - k.crcFrom /\ Len(f[Len(f)]) >= 2
           /\ \E c \in Seq(Byte) : /\ Len(c) = Len(f) - 1 /\ f[Len(f)] = Crc(k, c)
                                   /\ \A i \in 1..(Len(f) - 1) : f[i] = c[i]
<1>1. PICK p \in Seq(Byte) : Len(p) <= MaxPayload /\ f = Encode(k, id, p)
  BY DEF IsFrame
<1>2. PICK c : c = Body(id, p)
  OBVIOUS
<1>3. /\ c \in Seq(Byte) /\ Len(c) = Len(p) + 4 /\ Len(p) \in Nat
      /\ c[1] = Sync0 /\ c[2] = Sync1 /\ c[3] = <<id>> /\ c[4] = <<Len(p)>>
  <2>1. Len(p) \in Nat
    OBVIOUS
  <2>2. QED  BY <2>1, <1>2, BodyShape
<1>4. Crc(k, c) \in Seq(Byte) /\ Len(Crc(k, c)) = Len(c) + 1 - k.crcFrom /\ Len(Crc(k, c)) >= 2
  <2>1. Len(c) >= 4
    BY <1>3
  <2>2. QED  BY <2>1, <1>3, CrcShape
<1>5. f = Append(c, Crc(k, c))
  BY <1>1, <1>2 DEF Encode
<1>6. c \in Seq(Cell) /\ Crc(k, c) \in Cell
  BY <1>3, <1>4, CellFacts, SeqMonotonic
<1>7. /\ f \in Seq(Cell) /\ Len(f) = Len(c) + 1 /\ f[Len(c) + 1] = Crc(k, c)
      /\ \A i \in 1..Len(c) : f[i] = c[i]
  BY <1>5, <1>6, AppendProperties
<1>8. Len(f) = Len(p) + 5 /\ Len(f) - 1 = Len(c) /\ Len(c) + 1 = Len(f) /\ Len(f) - 5 = Len(p)
  BY <1>3, <1>7
<1>9. Len(f) \in 5..MaxFrame
  BY <1>1, <1>3, <1>8, CodecFacts, CodecConstants
<1>10. f[1] = Sync0 /\ f[2] = Sync1 /\ f[3] = <<id>> /\ f[4] = <<Len(f) - 5>>
  <2>1. 1 \in 1..Len(c) /\ 2 \in 1..Len(c) /\ 3 \in 1..Len(c) /\ 4 \in 1..Len(c)
    BY <1>3
  <2>2. QED  BY <2>1, <1>3, <1>7, <1>8
<1>11. \A i \in 1..(Len(f) - 1) : f[i] \in Byte
  BY <1>3, <1>7, <1>8, ElementOfSeq
<1>12. f[Len(f)] = Crc(k, c) /\ Len(f[Len(f)]) = Len(f) - k.crcFrom
  <2>1. f[Len(f)] = Crc(k, c)
    BY <1>7, <1>8
  <2>2. Len(Crc(k, c)) = Len(f) - k.crcFrom
    <3>1. Len(c) + 1 = Len(f)
      BY <1>7
    <3>2. Len(c) \in Nat /\ k.crcFrom \in {1, 3}
      BY <1>3, CodecFacts
    <3>3. QED  BY <3>1, <3>2, <1>4
  <2>3. QED  BY <2>1, <2>2
<1>13. QED  BY <1>3, <1>4, <1>7, <1>8, <1>9, <1>10, <1>11, <1>12

\* The CRC cell of a valid frame holds the cells it covers, which are bytes.
LEMMA ValidShape ==
    ASSUME NEW k \in Codecs, NEW b \in Seq(Cell), Valid(k, b), Total(b) \in 5..Len(b)
    PROVE  /\ Len(b[Total(b)]) = Total(b) - k.crcFrom /\ Len(b[Total(b)]) >= 2
           /\ \A i \in k.crcFrom..(Total(b) - 1) : b[i] \in Byte
<1>1. Len(b) \in Nat /\ Total(b) \in Nat /\ k.crcFrom \in {1, 3}
  BY CodecFacts
<1>2. PICK c : c = SubSeq(b, 1, Total(b) - 1)
  OBVIOUS
<1>3. /\ c \in Seq(Cell) /\ Len(c) = Total(b) - 1
      /\ \A i \in 1..(Total(b) - 1) : c[i] = b[i]
  <2>1. \A i \in 1..(Total(b) - 1) : b[i] \in Cell
    BY <1>1, ElementOfSeq
  <2>2. 1 \in Int /\ Total(b) - 1 \in Int
    BY <1>1
  <2>3. /\ c \in Seq(Cell)
        /\ Len(c) = IF 1 <= Total(b) - 1 THEN (Total(b) - 1) - 1 + 1 ELSE 0
        /\ \A i \in 1..((Total(b) - 1) - 1 + 1) : c[i] = b[1 + i - 1]
    BY <1>2, <2>1, <2>2, SubSeqProperties
  <2>4. QED  BY <1>1, <2>3
<1>4. /\ Len(Crc(k, c)) = Len(c) + 1 - k.crcFrom /\ Len(Crc(k, c)) >= 2
      /\ \A i \in k.crcFrom..Len(c) : Crc(k, c)[i + 1 - k.crcFrom] = c[i]
  <2>1. Len(c) >= 4
    BY <1>1, <1>3
  <2>2. QED  BY <2>1, <1>3, CrcShape
<1>5. b[Total(b)] = Crc(k, c)
  BY <1>2 DEF Valid
<1>6. b[Total(b)] \in Cell
  <2>1. Total(b) \in 1..Len(b)
    BY <1>1
  <2>2. QED  BY <2>1, ElementOfSeq
<1>7. Crc(k, c) \in Seq(Byte)
  <2>1. Crc(k, c) \in Cell /\ Len(Crc(k, c)) # 1
    <3>1. Len(c) + 1 - k.crcFrom \in Int
      BY <1>1, <1>3
    <3>2. QED  BY <3>1, <1>4, <1>5, <1>6
  <2>2. QED  BY <2>1, CellFacts
<1>8. ASSUME NEW i \in k.crcFrom..(Total(b) - 1) PROVE b[i] \in Byte
  <2>1. /\ i \in k.crcFrom..Len(c) /\ i \in 1..(Total(b) - 1)
        /\ i + 1 - k.crcFrom \in 1..(Len(c) + 1 - k.crcFrom)
    BY <1>1, <1>3
  <2>2. i + 1 - k.crcFrom \in 1..Len(Crc(k, c))
    BY <2>1, <1>4
  <2>3. Crc(k, c)[i + 1 - k.crcFrom] \in Byte
    BY <2>2, <1>7, ElementOfSeq
  <2>4. QED  BY <2>1, <2>3, <1>3, <1>4
<1>9. QED  BY <1>1, <1>3, <1>4, <1>5, <1>8

\* Within, cell by cell.
LEMMA WithinAt ==
    ASSUME NEW f \in Seq(Cell), NEW s \in Seq(Cell), Len(f) >= 1
    PROVE  Within(f, s) <=> \E i \in 0..(Len(s) - Len(f)) : \A q \in 1..Len(f) : s[i + q] = f[q]
<1>1. Len(f) \in Nat /\ Len(s) \in Nat
  OBVIOUS
<1>2. ASSUME NEW i \in 0..(Len(s) - Len(f))
      PROVE  SubSeq(s, i + 1, i + Len(f)) = f <=> \A q \in 1..Len(f) : s[i + q] = f[q]
  <2>1. PICK u : u = SubSeq(s, i + 1, i + Len(f))
    OBVIOUS
  <2>2. \A j \in (i + 1)..(i + Len(f)) : s[j] \in Cell
    BY <1>1, ElementOfSeq
  <2>3. i + 1 \in Int /\ i + Len(f) \in Int
    BY <1>1
  <2>4. /\ u \in Seq(Cell)
        /\ Len(u) = IF i + 1 <= i + Len(f) THEN (i + Len(f)) - (i + 1) + 1 ELSE 0
        /\ \A q \in 1..((i + Len(f)) - (i + 1) + 1) : u[q] = s[(i + 1) + q - 1]
    BY <2>1, <2>2, <2>3, SubSeqProperties
  <2>5. Len(u) = Len(f) /\ \A q \in 1..Len(f) : u[q] = s[i + q]
    BY <1>1, <2>4
  <2>6. u = f <=> \A q \in 1..Len(f) : u[q] = f[q]
    BY <2>4, <2>5, SeqEqual
  <2>7. QED  BY <2>1, <2>5, <2>6
<1>3. QED  BY <1>2 DEF Within

\* f lies in s from cell i + 1 on.
At(f, s, i) == i \in 0..(Len(s) - Len(f)) /\ \A q \in 1..Len(f) : s[i + q] = f[q]

\* A frame lies within a sequence when it lies there from some cell on.
LEMMA WithinIsAt ==
    ASSUME NEW k \in Codecs, NEW id \in Nat, NEW f, IsFrame(k, id, f), NEW s \in Seq(Cell)
    PROVE  Within(f, s) <=> \E i \in Nat : At(f, s, i)
<1>1. f \in Seq(Cell) /\ Len(f) \in Nat /\ Len(f) >= 1 /\ Len(s) \in Nat
  BY FrameShape
<1>2. Within(f, s) <=> \E i \in 0..(Len(s) - Len(f)) : \A q \in 1..Len(f) : s[i + q] = f[q]
  BY <1>1, WithinAt
<1>3. \A i \in 0..(Len(s) - Len(f)) : i \in Nat
  OBVIOUS
<1>4. QED  BY <1>2, <1>3 DEF At

\* Cells taken off the front leave what begins behind them.
LEMMA AtDropped ==
    ASSUME NEW k \in Codecs, NEW id \in Nat, NEW f, IsFrame(k, id, f),
           NEW b \in Seq(Cell), NEW w \in Seq(Cell), NEW n \in 0..Len(b), NEW i \in Nat,
           At(f, b \o w, i), n <= i
    PROVE  At(f, DropFirst(b, n) \o w, i - n)
<1>1. f \in Seq(Cell) /\ Len(f) \in Nat /\ Len(f) >= 1
  BY FrameShape
<1>2. PICK d : d = DropFirst(b, n)
  OBVIOUS
<1>3. d \in Seq(Cell) /\ Len(d) = Len(b) - n /\ Len(b) \in Nat /\ Len(w) \in Nat
  BY <1>2, Dropped
<1>4. Len(b \o w) = Len(b) + Len(w) /\ Len(d \o w) = Len(b) - n + Len(w)
  BY <1>3, ConcatProperties
<1>5. i <= Len(b) + Len(w) - Len(f) /\ i - n \in 0..(Len(b) - n + Len(w) - Len(f))
  BY <1>1, <1>3, <1>4 DEF At
<1>6. ASSUME NEW q \in 1..Len(f)
      PROVE  (d \o w)[(i - n) + q] = f[q]
  <2>1. (i - n) + q \in 1..(Len(b) - n + Len(w)) /\ ((i - n) + q) + n = i + q
    BY <1>1, <1>3, <1>5
  <2>2. (d \o w)[(i - n) + q] = (b \o w)[i + q]
    <3>1. PICK x : x = (i - n) + q
      OBVIOUS
    <3>2. x \in 1..(Len(b) - n + Len(w)) /\ x + n = i + q
      BY <2>1, <3>1
    <3>3. CASE x <= Len(d)
      <4>1. x \in 1..Len(d) + Len(w) /\ x + n \in 1..Len(b) + Len(w) /\ x + n <= Len(b)
        BY <1>3, <3>2, <3>3
      <4>2. (d \o w)[x] = d[x] /\ (b \o w)[x + n] = b[x + n]
        BY <1>3, <3>3, <4>1, ConcatProperties
      <4>3. d[x] = b[x + n]
        <5>1. x \in 1..(Len(b) - n)
          BY <1>3, <3>2, <3>3
        <5>2. QED  BY <5>1, <1>2, Dropped
      <4>4. QED  BY <3>1, <3>2, <4>2, <4>3
    <3>4. CASE x > Len(d)
      <4>1. /\ x \in 1..Len(d) + Len(w) /\ x + n \in 1..Len(b) + Len(w)
            /\ ~ (x + n <= Len(b)) /\ ~ (x <= Len(d)) /\ x - Len(d) = (x + n) - Len(b)
        BY <1>3, <3>2, <3>4
      <4>2. (d \o w)[x] = w[x - Len(d)] /\ (b \o w)[x + n] = w[(x + n) - Len(b)]
        BY <1>3, <4>1, ConcatProperties
      <4>3. QED  BY <3>1, <3>2, <4>1, <4>2
    <3>5. x <= Len(d) \/ x > Len(d)
      BY <1>3, <3>2
    <3>6. QED  BY <3>3, <3>4, <3>5
  <2>3. QED  BY <2>2 DEF At
<1>7. At(f, d \o w, i - n)
  <2>1. i - n \in 0..(Len(d \o w) - Len(f))
    BY <1>4, <1>5
  <2>2. QED  BY <2>1, <1>6 DEF At
<1>8. QED  BY <1>2, <1>7

\* A frame that begins in b lies there cell by cell, as far as b reaches.
LEMMA AtCells ==
    ASSUME NEW k \in Codecs, NEW id \in Nat, NEW f, IsFrame(k, id, f),
           NEW b \in Seq(Cell), NEW w \in Seq(Cell), NEW j \in Nat, At(f, b \o w, j)
    PROVE  \A i \in 1..Len(b) : j < i /\ i <= j + Len(f) => b[i] = f[i - j]
<1>1. Len(f) \in Nat /\ Len(b) \in Nat /\ Len(w) \in Nat
  BY FrameShape
<1>2. ASSUME NEW i \in 1..Len(b), j < i, i <= j + Len(f) PROVE b[i] = f[i - j]
  <2>1. i \in 1..(Len(b) + Len(w)) /\ i <= Len(b)
    BY <1>1
  <2>2. (b \o w)[i] = b[i]
    BY <2>1, ConcatProperties
  <2>3. i - j \in 1..Len(f) /\ j + (i - j) = i
    BY <1>1, <1>2
  <2>4. (b \o w)[j + (i - j)] = f[i - j]
    BY <2>3 DEF At
  <2>5. QED  BY <2>2, <2>3, <2>4
<1>3. QED  BY <1>2

\* Searching for the sync bytes does not run into a frame.
LEMMA ScanStopsAtFrame ==
    ASSUME NEW k \in Codecs, NEW id \in Nat, NEW f, IsFrame(k, id, f),
           NEW b \in Seq(Cell), NEW w \in Seq(Cell), NEW j \in Nat, At(f, b \o w, j),
           NEW m \in 0..Len(b),
           \A i \in 1..m : i < Len(b) /\ ~ (b[i] = Sync0 /\ b[i + 1] = Sync1)
    PROVE  m <= j
<1>1. Len(f) \in Nat /\ Len(f) >= 5 /\ Len(b) \in Nat /\ f[1] = Sync0 /\ f[2] = Sync1
  BY FrameShape
<1>2. SUFFICES ASSUME j < m PROVE FALSE
  BY <1>1
<1>3. j + 1 \in 1..m
  BY <1>1, <1>2
<1>4. j + 1 < Len(b) /\ j + 1 \in 1..Len(b) /\ (j + 1) + 1 \in 1..Len(b)
  BY <1>1, <1>3
<1>5. /\ j < j + 1 /\ j + 1 <= j + Len(f) /\ (j + 1) - j = 1
      /\ j < (j + 1) + 1 /\ (j + 1) + 1 <= j + Len(f) /\ ((j + 1) + 1) - j = 2
  BY <1>1
<1>6. b[j + 1] = f[1] /\ b[(j + 1) + 1] = f[2]
  BY <1>4, <1>5, AtCells
<1>7. QED  BY <1>1, <1>3, <1>6

\* A valid frame overlaps no frame of the same coding but itself: the cell at
\* its end is a CRC, and the cells before it are bytes.
LEMMA ValidIsTheFrame ==
    ASSUME NEW k \in Codecs, NEW id \in Nat, NEW f, IsFrame(k, id, f),
           NEW b \in Seq(Cell), NEW w \in Seq(Cell), NEW j \in Nat, At(f, b \o w, j),
           Valid(k, b), Total(b) \in 5..Len(b), j < Total(b)
    PROVE  j = 0 /\ b[3] = <<id>>
<1>1. /\ Len(f) \in Nat /\ Len(f) >= 5 /\ Len(b) \in Nat /\ Total(b) \in Nat /\ k.crcFrom \in {1, 3}
      /\ f[3] = <<id>> /\ Len(f[Len(f)]) = Len(f) - k.crcFrom /\ Len(f[Len(f)]) >= 2
      /\ \A i \in 1..(Len(f) - 1) : f[i] \in Byte
  <2>1. Len(b) \in Nat /\ Total(b) \in Nat /\ k.crcFrom \in {1, 3}
    BY CodecFacts
  <2>2. Len(f) \in Nat /\ Len(f) >= 5
    BY FrameShape
  <2>3. /\ f[3] = <<id>> /\ Len(f[Len(f)]) = Len(f) - k.crcFrom /\ Len(f[Len(f)]) >= 2
        /\ \A i \in 1..(Len(f) - 1) : f[i] \in Byte
    BY FrameShape
  <2>4. QED  BY <2>1, <2>2, <2>3
<1>2. /\ Len(b[Total(b)]) = Total(b) - k.crcFrom /\ Len(b[Total(b)]) >= 2
      /\ \A i \in k.crcFrom..(Total(b) - 1) : b[i] \in Byte
  BY ValidShape
<1>3. ~ (j + Len(f) < Total(b))
  <2>1. SUFFICES ASSUME j + Len(f) < Total(b) PROVE FALSE
    OBVIOUS
  <2>2. /\ j + Len(f) \in k.crcFrom..(Total(b) - 1) /\ j + Len(f) \in 1..Len(b)
        /\ j < j + Len(f) /\ j + Len(f) <= j + Len(f) /\ (j + Len(f)) - j = Len(f)
    BY <1>1, <2>1
  <2>3. b[j + Len(f)] \in Byte /\ b[j + Len(f)] = f[Len(f)]
    BY <2>2, <1>2, AtCells
  <2>4. Len(f[Len(f)]) = 1
    BY <2>3, CellFacts
  <2>5. QED  BY <2>4, <1>1
<1>4. ~ (Total(b) < j + Len(f))
  <2>1. SUFFICES ASSUME Total(b) < j + Len(f) PROVE FALSE
    OBVIOUS
  <2>2. /\ Total(b) \in 1..Len(b) /\ Total(b) <= j + Len(f)
        /\ Total(b) - j \in 1..(Len(f) - 1)
    BY <1>1, <2>1
  <2>3. b[Total(b)] = f[Total(b) - j] /\ f[Total(b) - j] \in Byte
    BY <2>2, <1>1, AtCells
  <2>4. Len(b[Total(b)]) = 1
    BY <2>3, CellFacts
  <2>5. QED  BY <2>4, <1>2
<1>5. Total(b) = j + Len(f)
  <2>1. \A x, y \in Nat : ~ (x < y) /\ ~ (y < x) => x = y
    OBVIOUS
  <2>2. j + Len(f) \in Nat
    BY <1>1
  <2>3. QED  BY <2>1, <2>2, <1>1, <1>3, <1>4, Zenon
<1>6. /\ Total(b) \in 1..Len(b) /\ Total(b) <= j + Len(f) /\ Total(b) - j = Len(f)
  BY <1>1, <1>5
<1>7. b[Total(b)] = f[Len(f)]
  BY <1>6, AtCells
<1>8. Total(b) - k.crcFrom = Len(f) - k.crcFrom
  BY <1>1, <1>2, <1>7
<1>9. j = 0
  BY <1>1, <1>5, <1>8
<1>10. 3 \in 1..Len(b) /\ j < 3 /\ 3 <= j + Len(f) /\ 3 - j = 3
  BY <1>1, <1>9
<1>11. b[3] = f[3]
  BY <1>10, AtCells
<1>12. QED  BY <1>1, <1>9, <1>11

\* A frame at the front that has come whole is valid.
LEMMA WholeFrameIsValid ==
    ASSUME NEW k \in Codecs, NEW id \in Nat, NEW f, IsFrame(k, id, f),
           NEW b \in Seq(Cell), NEW w \in Seq(Cell), At(f, b \o w, 0),
           ~ Short(k, b), Len(b) >= k.need
    PROVE  Valid(k, b) /\ Total(b) = Len(f)
<1>1. /\ Len(f) \in 5..MaxFrame /\ Len(b) \in Nat /\ k.need \in {4, 5} /\ Len(f) \in Nat
      /\ f[4] = <<Len(f) - 5>> /\ MaxFrame = MaxPayload + 5 /\ MaxPayload \in Nat
  BY FrameShape, CodecFacts, CodecConstants
<1>2. \A i \in 1..Len(b) : i <= Len(f) => b[i] = f[i]
  <2>1. ASSUME NEW i \in 1..Len(b), i <= Len(f) PROVE b[i] = f[i]
    <3>1. 0 < i /\ i <= 0 + Len(f) /\ i - 0 = i
      BY <1>1, <2>1
    <3>2. QED  BY <3>1, AtCells
  <2>2. QED  BY <2>1
<1>3. b[4] = <<Len(f) - 5>>
  <2>1. 4 \in 1..Len(b) /\ 4 <= Len(f)
    BY <1>1
  <2>2. QED  BY <2>1, <1>1, <1>2
<1>4. Claimed(b) = Len(f) - 5 /\ Len(f) - 5 <= MaxPayload
  <2>1. Len(<<Len(f) - 5>>) = 1 /\ <<Len(f) - 5>>[1] = Len(f) - 5
    OBVIOUS
  <2>2. QED  BY <2>1, <1>1, <1>3 DEF Claimed, HeaderTot
<1>5. Total(b) = Len(f)
  BY <1>1, <1>4 DEF Total, HeaderTot, CrcSz
<1>6. Len(f) <= Len(b)
  BY <1>1, <1>4, <1>5 DEF Short
<1>7. PICK c \in Seq(Byte) : /\ Len(c) = Len(f) - 1 /\ f[Len(f)] = Crc(k, c)
                             /\ \A i \in 1..(Len(f) - 1) : f[i] = c[i]
  BY FrameShape
<1>8. PICK d : d = SubSeq(b, 1, Len(f) - 1)
  OBVIOUS
<1>9. /\ d \in Seq(Cell) /\ Len(d) = Len(f) - 1
      /\ \A i \in 1..(Len(f) - 1) : d[i] = b[i]
  <2>1. \A i \in 1..(Len(f) - 1) : b[i] \in Cell
    BY <1>1, <1>6, ElementOfSeq
  <2>2. 1 \in Int /\ Len(f) - 1 \in Int
    BY <1>1
  <2>3. /\ d \in Seq(Cell)
        /\ Len(d) = IF 1 <= Len(f) - 1 THEN (Len(f) - 1) - 1 + 1 ELSE 0
        /\ \A i \in 1..((Len(f) - 1) - 1 + 1) : d[i] = b[1 + i - 1]
    BY <1>8, <2>1, <2>2, SubSeqProperties
  <2>4. QED  BY <1>1, <2>3
<1>10. d = c
  <2>1. c \in Seq(Cell)
    BY CellFacts, SeqMonotonic
  <2>2. \A i \in 1..(Len(f) - 1) : i \in 1..Len(b) /\ i <= Len(f)
    BY <1>1, <1>6
  <2>3. Len(d) = Len(c) /\ \A i \in 1..Len(d) : d[i] = c[i]
    BY <2>2, <1>2, <1>7, <1>9
  <2>4. QED  BY <2>1, <2>3, <1>9, SeqEqual
<1>11. b[Len(f)] = f[Len(f)]
  <2>1. Len(f) \in 1..Len(b) /\ Len(f) <= Len(f)
    BY <1>1, <1>6
  <2>2. QED  BY <2>1, <1>2
<1>12. QED  BY <1>4, <1>5, <1>7, <1>8, <1>10, <1>11 DEF Valid

\* One round of try_parse() delivers a frame or leaves it where it is.
LEMMA RoundKeepsFrame ==
    ASSUME NEW k \in Codecs, NEW id \in Nat, NEW f, IsFrame(k, id, f),
           NEW s \in States, NEW w \in Seq(Cell), Within(f, s.rest \o w)
    PROVE  \/ Within(f, TryParse(k, s).rest \o w)
           \/ TryParse(k, s).got = Append(s.got, id)
<1> DEFINE t == TryParse(k, s)
<1>1. s.rest \in Seq(Cell) /\ Len(s.rest) \in Nat /\ s.rest \o w \in Seq(Cell)
  BY ConcatProperties DEF States
<1>2. t \in States /\ t.rest \in Seq(Cell) /\ t.rest \o w \in Seq(Cell)
  <2>1. t \in States
    BY RoundShape
  <2>2. t.rest \in Seq(Cell)
    BY <2>1 DEF States
  <2>3. QED  BY <2>1, <2>2, ConcatProperties
<1>3. PICK i \in Nat : At(f, s.rest \o w, i)
  BY <1>1, WithinIsAt
<1>4. SUFFICES ASSUME ~ (t.got = Append(s.got, id))
               PROVE  \E j \in Nat : At(f, t.rest \o w, j)
  BY <1>2, WithinIsAt
<1>5. PICK m \in 0..Len(s.rest) : \E b \in Seq(Cell) :
             /\ b = Scanned(k, s.rest) /\ b = DropFirst(s.rest, m) /\ Len(b) = Len(s.rest) - m
             /\ \A x \in 1..m :
                  x < Len(s.rest) /\ ~ (s.rest[x] = Sync0 /\ s.rest[x + 1] = Sync1)
             /\ \/ /\ Short(k, b)
                   /\ t = [rest |-> b, got |-> s.got]
                \/ /\ ~ Short(k, b) /\ Len(b) >= k.need
                   /\ b[1] = Sync0 /\ b[2] = Sync1
                   /\ \/ /\ Valid(k, b) /\ Total(b) \in 5..Len(b)
                         /\ t = [rest |-> DropFirst(b, Total(b)),
                                 got |-> Append(s.got, b[3][1])]
                      \/ /\ ~ Valid(k, b)
                         /\ t = [rest |-> DropFirst(b, k.skip), got |-> s.got]
  BY RoundCases
<1>6. PICK b \in Seq(Cell) :
             /\ b = Scanned(k, s.rest) /\ b = DropFirst(s.rest, m) /\ Len(b) = Len(s.rest) - m
             /\ \A x \in 1..m :
                  x < Len(s.rest) /\ ~ (s.rest[x] = Sync0 /\ s.rest[x + 1] = Sync1)
             /\ \/ /\ Short(k, b)
                   /\ t = [rest |-> b, got |-> s.got]
                \/ /\ ~ Short(k, b) /\ Len(b) >= k.need
                   /\ b[1] = Sync0 /\ b[2] = Sync1
                   /\ \/ /\ Valid(k, b) /\ Total(b) \in 5..Len(b)
                         /\ t = [rest |-> DropFirst(b, Total(b)),
                                 got |-> Append(s.got, b[3][1])]
                      \/ /\ ~ Valid(k, b)
                         /\ t = [rest |-> DropFirst(b, k.skip), got |-> s.got]
  BY <1>5
<1> HIDE DEF t
<1>7. m <= i
  BY <1>1, <1>3, <1>6, ScanStopsAtFrame
<1>8. PICK j : j = i - m
  OBVIOUS
<1>9. j \in Nat /\ At(f, b \o w, j)
  <2>1. At(f, DropFirst(s.rest, m) \o w, i - m)
    BY <1>1, <1>3, <1>7, AtDropped
  <2>2. j \in Nat
    BY <1>7, <1>8
  <2>3. QED  BY <2>1, <2>2, <1>6, <1>8
<1>10. CASE t = [rest |-> b, got |-> s.got]
  BY <1>9, <1>10
<1>11. CASE /\ Valid(k, b) /\ Total(b) \in 5..Len(b)
            /\ t = [rest |-> DropFirst(b, Total(b)), got |-> Append(s.got, b[3][1])]
  <2>1. Total(b) \in 0..Len(b) /\ Total(b) \in Nat
    BY <1>11
  <2>2. CASE Total(b) <= j
    <3>1. At(f, DropFirst(b, Total(b)) \o w, j - Total(b)) /\ j - Total(b) \in Nat
      BY <1>9, <2>1, <2>2, AtDropped
    <3>2. QED  BY <3>1, <1>11
  <2>3. CASE j < Total(b)
    <3>1. b[3] = <<id>>
      BY <1>9, <1>11, <2>3, ValidIsTheFrame
    <3>2. b[3][1] = id
      BY <3>1
    <3>3. QED  BY <3>2, <1>4, <1>11
  <2>4. QED  BY <1>9, <2>1, <2>2, <2>3
<1>12. CASE /\ ~ Short(k, b) /\ Len(b) >= k.need /\ b[1] = Sync0 /\ b[2] = Sync1
            /\ ~ Valid(k, b)
            /\ t = [rest |-> DropFirst(b, k.skip), got |-> s.got]
  <2>1. /\ k.skip \in {1, 2} /\ k.need \in {4, 5} /\ Len(b) \in Nat /\ k.skip \in 0..Len(b)
        /\ Len(f) \in Nat /\ Len(f) >= 5 /\ f[1] = Sync0
    <3>1. k.skip \in {1, 2} /\ k.need \in {4, 5} /\ Len(b) \in Nat
      BY CodecFacts
    <3>2. k.skip \in 0..Len(b)
      BY <3>1, <1>12
    <3>3. Len(f) \in Nat /\ Len(f) >= 5 /\ f[1] = Sync0
      BY FrameShape
    <3>4. QED  BY <3>1, <3>2, <3>3
  <2>2. j # 0
    BY <1>9, <1>12, WholeFrameIsValid
  <2>3. j # 1
    <3>1. SUFFICES ASSUME j = 1 PROVE FALSE
      OBVIOUS
    <3>2. 2 \in 1..Len(b) /\ j < 2 /\ 2 <= j + Len(f) /\ 2 - j = 1
      BY <2>1, <3>1, <1>12
    <3>3. b[2] = f[1]
      BY <3>2, <1>9, AtCells
    <3>4. QED  BY <3>3, <2>1, <1>12, CellFacts
  <2>4. k.skip <= j
    BY <1>9, <2>1, <2>2, <2>3
  <2>5. At(f, DropFirst(b, k.skip) \o w, j - k.skip) /\ j - k.skip \in Nat
    BY <1>9, <2>1, <2>4, AtDropped
  <2>6. QED  BY <2>5, <1>12
<1>13. QED  BY <1>6, <1>10, <1>11, <1>12

\* So does the whole while (try_parse(cb)) {}.
LEMMA ParsedKeepsFrame ==
    ASSUME NEW k \in Codecs, NEW id \in Nat, NEW f, IsFrame(k, id, f),
           NEW b \in Seq(Cell), NEW w \in Seq(Cell), Within(f, b \o w)
    PROVE  \/ Within(f, Parsed(k, b).rest \o w)
           \/ \E x \in DOMAIN Parsed(k, b).got : Parsed(k, b).got[x] = id
<1> DEFINE n == Len(b) + 1
<1>1. PICK r : /\ Chain(k, [rest |-> b, got |-> <<>>], n, r)
               /\ Parsed(k, b) = r[n]
  BY ParsedByRounds
<1>2. n \in Nat /\ n \in 0..n
  OBVIOUS
<1>3. \A i \in 0..n : r[i] \in States
  BY <1>1, ChainTypes
<1> DEFINE P(i) == \/ Within(f, r[i].rest \o w)
                   \/ \E x \in DOMAIN r[i].got : r[i].got[x] = id
           A == {i \in Nat : i <= n => P(i)}
<1>4. 0 \in A
  <2>1. r[0] = [rest |-> b, got |-> <<>>]
    BY <1>1 DEF Chain
  <2>2. r[0].rest = b
    BY <2>1
  <2>3. QED  BY <2>2
<1>5. ASSUME NEW i \in A PROVE i + 1 \in A
  <2>1. i \in Nat /\ i + 1 \in Nat
    OBVIOUS
  <2>2. ASSUME i + 1 <= n PROVE P(i + 1)
    <3>1. i \in 0..(n - 1) /\ i <= n /\ i \in 0..n
      BY <1>2, <2>1, <2>2
    <3>2. P(i)
      BY <3>1
    <3>3. r[i + 1] = TryParse(k, r[i]) /\ r[i] \in States
      BY <3>1, <1>1, <1>3 DEF Chain
    <3>4. PICK g : g = r[i].got
      OBVIOUS
    <3>5. g \in Seq(Values)
      BY <3>3, <3>4 DEF States
    <3>6. \/ r[i + 1].got = g
          \/ \E v \in Values : r[i + 1].got = Append(g, v)
      BY <3>3, <3>4, RoundShape
    <3>7. CASE \E x \in DOMAIN g : g[x] = id
      <4>1. PICK x \in DOMAIN g : g[x] = id
        BY <3>7
      <4>2. x \in 1..Len(g)
        BY <4>1, <3>5, LenProperties
      <4>3. CASE r[i + 1].got = g
        BY <4>1, <4>3
      <4>4. CASE \E v \in Values : r[i + 1].got = Append(g, v)
        <5>1. PICK v \in Values : r[i + 1].got = Append(g, v)
          BY <4>4
        <5>2. Append(g, v)[x] = g[x] /\ x \in DOMAIN Append(g, v)
          BY <4>2, <3>5
        <5>3. QED  BY <5>1, <5>2, <4>1
      <4>5. QED  BY <3>6, <4>3, <4>4
    <3>8. CASE Within(f, r[i].rest \o w)
      <4>1. \/ Within(f, r[i + 1].rest \o w)
            \/ r[i + 1].got = Append(g, id)
        BY <3>3, <3>4, <3>8, RoundKeepsFrame
      <4>2. CASE r[i + 1].got = Append(g, id)
        <5>1. Append(g, id)[Len(g) + 1] = id /\ Len(g) + 1 \in DOMAIN Append(g, id)
          BY <3>5
        <5>2. QED  BY <5>1, <4>2
      <4>3. QED  BY <4>1, <4>2
    <3>9. QED  BY <3>2, <3>4, <3>7, <3>8
  <2>3. QED
    <3> HIDE DEF P
    <3>1. QED  BY <2>1, <2>2
<1>6. A = Nat
  <2> HIDE DEF A
  <2>1. A \in SUBSET Nat  BY DEF A
  <2>2. QED  BY <1>4, <1>5, <2>1, EveryNumber
<1>7. P(n)
  <2> HIDE DEF P
  <2>1. QED  BY <1>2, <1>6
<1>8. QED  BY <1>1, <1>7

\* A buffer that begins with the sync bytes, or is too short to, is left alone.
LEMMA SyncedStays ==
    ASSUME NEW b \in Seq(Cell), Len(b) >= 2 => b[1] = Sync0 /\ b[2] = Sync1
    PROVE  Synced(b) = b
<1>1. Len(b) \in Nat
  OBVIOUS
<1>2. PICK m \in 0..Len(b) :
             /\ Synced(b) = DropFirst(b, m)
             /\ \A i \in 1..m : i < Len(b) /\ ~ (b[i] = Sync0 /\ b[i + 1] = Sync1)
  BY SyncedDrops
<1>3. m = 0
  <2>1. SUFFICES ASSUME m >= 1 PROVE FALSE
    BY <1>1
  <2>2. 1 \in 1..m
    BY <1>1, <2>1
  <2>3. 1 < Len(b) /\ ~ (b[1] = Sync0 /\ b[1 + 1] = Sync1)
    BY <1>2, <2>2
  <2>4. 1 + 1 = 2 /\ Len(b) >= 2
    BY <1>1, <2>3
  <2>5. QED  BY <2>3, <2>4
<1>4. DropFirst(b, 0) = b
  BY SubSeqFull DEF DropFirst
<1>5. QED  BY <1>2, <1>3, <1>4

\* A second search finds what the first one left.
LEMMA ScannedStays ==
    ASSUME NEW k \in Codecs, NEW c \in Seq(Cell)
    PROVE  Scanned(k, Scanned(k, c)) = Scanned(k, c)
<1>1. CASE k = Daemon /\ Len(c) < k.need
  BY <1>1 DEF Scanned
<1>2. CASE ~ (k = Daemon /\ Len(c) < k.need)
  <2>1. PICK b : b = Synced(c)
    OBVIOUS
  <2>2. PICK m \in 0..Len(c) :
             /\ b = DropFirst(c, m)
             /\ Len(c) - m >= 2 => c[m + 1] = Sync0 /\ c[m + 2] = Sync1
    BY <2>1, SyncedDrops
  <2>3. /\ b \in Seq(Cell) /\ Len(b) = Len(c) - m /\ Len(c) \in Nat
        /\ \A i \in 1..(Len(c) - m) : b[i] = c[i + m]
    <3>1. Len(c) \in Nat
      OBVIOUS
    <3>2. /\ DropFirst(c, m) \in Seq(Cell) /\ Len(DropFirst(c, m)) = Len(c) - m
          /\ \A i \in 1..(Len(c) - m) : DropFirst(c, m)[i] = c[i + m]
      BY Dropped
    <3>3. QED  BY <2>2, <3>1, <3>2
  <2>4. ASSUME Len(b) >= 2 PROVE b[1] = Sync0 /\ b[2] = Sync1
    <3>1. 1 \in 1..(Len(c) - m) /\ 2 \in 1..(Len(c) - m) /\ 1 + m = m + 1 /\ 2 + m = m + 2
      BY <2>3, <2>4
    <3>2. b[1] = c[1 + m] /\ b[2] = c[2 + m]
      BY <2>3, <3>1
    <3>3. QED  BY <2>2, <2>3, <2>4, <3>1, <3>2
  <2>5. Synced(b) = b
    BY <2>3, <2>4, SyncedStays
  <2>6. Scanned(k, c) = b
    BY <1>2, <2>1 DEF Scanned
  <2>7. Scanned(k, b) = b
    BY <2>5 DEF Scanned
  <2>8. QED  BY <2>6, <2>7
<1>3. QED  BY <1>1, <1>2

\* try_parse() waits, and would wait again.
Settled(k, s) == Short(k, s.rest) /\ TryParse(k, s) = s

\* Once try_parse() waits, calling it again changes nothing.
LEMMA ShortSettles ==
    ASSUME NEW k \in Codecs, NEW s \in States, Short(k, Scanned(k, s.rest))
    PROVE  Settled(k, TryParse(k, s))
<1>1. PICK b : b = Scanned(k, s.rest)
  OBVIOUS
<1>2. PICK t : t = [rest |-> b, got |-> s.got]
  OBVIOUS
<1>3. TryParse(k, s) = t
  BY <1>1, <1>2, SameRecord DEF TryParse
<1>4. t \in States /\ t.rest = b /\ t.got = s.got
  BY <1>2, <1>3, RoundShape
<1>5. Scanned(k, t.rest) = b
  BY <1>1, <1>4, ScannedStays DEF States
<1>6. TryParse(k, t) = [rest |-> b, got |-> t.got]
  BY <1>1, <1>4, <1>5, SameRecord DEF TryParse
<1>7. QED  BY <1>1, <1>2, <1>3, <1>4, <1>6 DEF Settled

\* Parsed's rounds are enough: what while (try_parse(cb)) {} leaves is too
\* short for a frame, and one more try_parse() would change nothing.
THEOREM ParsedIsDone ==
    ASSUME NEW k \in Codecs, NEW b \in Seq(Cell)
    PROVE  /\ Short(k, Parsed(k, b).rest)
           /\ TryParse(k, Parsed(k, b)) = Parsed(k, b)
<1> DEFINE n == Len(b) + 1
<1>1. PICK r : /\ Chain(k, [rest |-> b, got |-> <<>>], n, r)
               /\ Parsed(k, b) = r[n]
  BY ParsedByRounds
<1>2. n \in Nat /\ Len(b) \in Nat
  OBVIOUS
<1>3. \A i \in 0..n : r[i] \in States
  BY <1>1, ChainTypes
<1> DEFINE P(i) == Settled(k, r[i]) \/ Len(r[i].rest) + i <= Len(b)
           A == {i \in Nat : i <= n => P(i)}
<1>4. 0 \in A
  <2>1. r[0] = [rest |-> b, got |-> <<>>]
    BY <1>1 DEF Chain
  <2>2. r[0].rest = b
    BY <2>1
  <2>3. QED  BY <1>2, <2>2
<1>5. ASSUME NEW i \in A PROVE i + 1 \in A
  <2>1. i \in Nat /\ i + 1 \in Nat
    OBVIOUS
  <2>2. ASSUME i + 1 <= n PROVE P(i + 1)
    <3>1. i \in 0..(n - 1) /\ i <= n /\ i \in 0..n /\ i + 1 \in 0..n
      BY <1>2, <2>1, <2>2
    <3>2. P(i)
      BY <3>1
    <3>3. r[i + 1] = TryParse(k, r[i]) /\ r[i] \in States /\ r[i + 1] \in States
      BY <3>1, <1>1, <1>3 DEF Chain
    <3>4. CASE Settled(k, r[i])
      BY <3>3, <3>4 DEF Settled
    <3>5. CASE Short(k, Scanned(k, r[i].rest))
      BY <3>3, <3>5, ShortSettles
    <3>6. CASE Len(r[i].rest) + i <= Len(b) /\ ~ Short(k, Scanned(k, r[i].rest))
      <4>1. Len(r[i + 1].rest) < Len(r[i].rest)
        BY <3>3, <3>6, RoundShape
      <4>2. Len(r[i + 1].rest) \in Nat /\ Len(r[i].rest) \in Nat
        BY <3>3 DEF States
      <4>3. \A x, y, l, j \in Nat : x < y /\ y + j <= l => x + (j + 1) <= l
        OBVIOUS
      <4>4. QED  BY <4>1, <4>2, <4>3, <1>2, <2>1, <3>6, Zenon
    <3>7. QED  BY <3>2, <3>4, <3>5, <3>6
  <2>3. QED
    <3> HIDE DEF P
    <3>1. QED  BY <2>1, <2>2
<1>6. A = Nat
  <2> HIDE DEF A
  <2>1. A \in SUBSET Nat  BY DEF A
  <2>2. QED  BY <1>4, <1>5, <2>1, EveryNumber
<1>7. P(n)
  <2> HIDE DEF P
  <2>1. QED  BY <1>2, <1>6
<1>8. ~ (Len(r[n].rest) + n <= Len(b))
  <2>1. n \in 0..n
    BY <1>2
  <2>2. Len(r[n].rest) \in Nat
    BY <2>1, <1>3 DEF States
  <2>3. \A x, y \in Nat : ~ (x + (y + 1) <= y)
    OBVIOUS
  <2>4. QED  BY <2>2, <2>3, <1>2, Zenon
<1>9. QED  BY <1>1, <1>7, <1>8 DEF Settled

\* What a header of a frame claims is what the frame holds.
LEMMA FrameInFront ==
    ASSUME NEW k \in Codecs, NEW id \in Nat, NEW f, IsFrame(k, id, f), NEW w \in Seq(Cell)
    PROVE  /\ f \o w \in Seq(Cell) /\ Len(f \o w) >= Len(f) /\ At(f, f \o w, 0)
           /\ At(f, (f \o w) \o <<>>, 0)
           /\ Claimed(f \o w) = Len(f) - 5 /\ Claimed(f \o w) <= MaxPayload
           /\ Total(f \o w) = Len(f)
           /\ \A i \in 1..Len(f) : (f \o w)[i] = f[i]
<1>1. /\ f \in Seq(Cell) /\ Len(f) \in 5..MaxFrame /\ Len(f) \in Nat /\ Len(w) \in Nat
      /\ f[4] = <<Len(f) - 5>> /\ MaxFrame = MaxPayload + 5 /\ MaxPayload \in Nat
  BY FrameShape, CodecFacts, CodecConstants
<1>2. /\ f \o w \in Seq(Cell) /\ Len(f \o w) = Len(f) + Len(w)
      /\ \A i \in 1..(Len(f) + Len(w)) : (f \o w)[i] = IF i <= Len(f) THEN f[i] ELSE w[i - Len(f)]
  BY <1>1, ConcatProperties
<1>3. \A i \in 1..Len(f) : i \in 1..(Len(f) + Len(w)) /\ i <= Len(f)
  BY <1>1
<1>4. \A i \in 1..Len(f) : (f \o w)[i] = f[i]
  BY <1>2, <1>3
<1>5. At(f, f \o w, 0)
  <2>1. 0 \in 0..(Len(f \o w) - Len(f)) /\ \A q \in 1..Len(f) : 0 + q = q
    BY <1>1, <1>2
  <2>2. QED  BY <2>1, <1>4 DEF At
<1>6. (f \o w) \o <<>> = f \o w
  BY <1>2, ConcatEmptySeq
<1>7. (f \o w)[4] = <<Len(f) - 5>>
  <2>1. 4 \in 1..Len(f)
    BY <1>1
  <2>2. QED  BY <2>1, <1>1, <1>4
<1>8. Claimed(f \o w) = Len(f) - 5
  <2>1. Len(<<Len(f) - 5>>) = 1 /\ <<Len(f) - 5>>[1] = Len(f) - 5
    OBVIOUS
  <2>2. QED  BY <2>1, <1>7 DEF Claimed, HeaderTot
<1>9. Total(f \o w) = Len(f) /\ Claimed(f \o w) <= MaxPayload
  BY <1>1, <1>8 DEF Total, HeaderTot, CrcSz
<1>10. Len(f \o w) >= Len(f)
  BY <1>1, <1>2
<1>11. QED  BY <1>2, <1>4, <1>5, <1>6, <1>8, <1>9, <1>10

\* Round trip: a frame of the program's own encode() in front of any other
\* cells is handed over by the first try_parse(), and nothing else is taken.
THEOREM FrameRoundTrip ==
    ASSUME NEW k \in Codecs, NEW id \in Nat, NEW f, IsFrame(k, id, f),
           NEW w \in Seq(Cell), NEW g \in Seq(Values)
    PROVE  TryParse(k, [rest |-> f \o w, got |-> g]) = [rest |-> w, got |-> Append(g, id)]
<1>1. PICK c : c = f \o w
  OBVIOUS
<1>2. PICK s : s = [rest |-> c, got |-> g]
  OBVIOUS
<1>3. /\ c \in Seq(Cell) /\ Len(c) >= Len(f) /\ At(f, c \o <<>>, 0)
      /\ Claimed(c) <= MaxPayload /\ Total(c) = Len(f)
      /\ Len(f) >= 5 /\ Len(f) \in Nat /\ Len(c) \in Nat /\ f[3] = <<id>>
      /\ \A i \in 1..Len(f) : c[i] = f[i]
  <2>1. /\ c \in Seq(Cell) /\ Len(c) >= Len(f) /\ At(f, c \o <<>>, 0)
        /\ Claimed(c) <= MaxPayload /\ Total(c) = Len(f)
        /\ \A i \in 1..Len(f) : c[i] = f[i]
    BY <1>1, FrameInFront
  <2>2. Len(f) >= 5 /\ Len(f) \in Nat /\ f[3] = <<id>>
    BY FrameShape
  <2>3. Len(c) \in Nat
    BY <2>1
  <2>4. QED  BY <2>1, <2>2, <2>3
<1>4. s \in States /\ s.rest = c /\ s.got = g
  BY <1>2, <1>3 DEF States
<1>5. Scanned(k, c) = c
  <2>1. PICK m \in 0..Len(c) :
             /\ Scanned(k, c) = DropFirst(c, m)
             /\ \A i \in 1..m : i < Len(c) /\ ~ (c[i] = Sync0 /\ c[i + 1] = Sync1)
    BY <1>3, ScannedDrops
  <2>2. m <= 0
    <3>1. <<>> \in Seq(Cell) /\ 0 \in Nat
      BY EmptySeq
    <3>2. QED  BY <3>1, <2>1, <1>3, ScanStopsAtFrame
  <2>3. m = 0
    BY <1>3, <2>2
  <2>4. DropFirst(c, 0) = c
    BY <1>3, SubSeqFull DEF DropFirst
  <2>5. QED  BY <2>1, <2>3, <2>4
<1>6. ~ Short(k, c) /\ Len(c) >= k.need
  BY <1>3, CodecFacts DEF Short
<1>7. Valid(k, c)
  BY <1>3, <1>6, EmptySeq, WholeFrameIsValid
<1>8. TryParse(k, s) = [rest |-> DropFirst(c, Len(f)), got |-> Append(g, c[3][1])]
  BY <1>3, <1>4, <1>5, <1>6, <1>7 DEF TryParse
<1>9. c[3][1] = id
  <2>1. 3 \in 1..Len(f)
    BY <1>3
  <2>2. c[3] = <<id>>
    BY <2>1, <1>3
  <2>3. QED  BY <2>2
<1>10. DropFirst(c, Len(f)) = w
  <2>1. f \in Seq(Cell) /\ Len(c) = Len(f) + Len(w) /\ Len(w) \in Nat
    BY <1>1, FrameShape, ConcatProperties
  <2>2. Len(f) \in 0..Len(c)
    BY <1>3
  <2>3. PICK d : d = DropFirst(c, Len(f))
    OBVIOUS
  <2>4. /\ d \in Seq(Cell) /\ Len(d) = Len(c) - Len(f)
        /\ \A i \in 1..(Len(c) - Len(f)) : d[i] = c[i + Len(f)]
    BY <2>2, <2>3, <1>3, Dropped
  <2>5. Len(d) = Len(w)
    BY <2>1, <2>4, <1>3
  <2>6. ASSUME NEW i \in 1..Len(d) PROVE d[i] = w[i]
    <3>1. /\ i \in 1..(Len(c) - Len(f)) /\ i + Len(f) \in 1..(Len(f) + Len(w))
          /\ ~ (i + Len(f) <= Len(f)) /\ (i + Len(f)) - Len(f) = i
      BY <2>1, <2>4, <2>5, <1>3
    <3>2. c[i + Len(f)] = w[(i + Len(f)) - Len(f)]
      BY <3>1, <2>1, <1>1, ConcatProperties
    <3>3. QED  BY <3>1, <3>2, <2>4
  <2>7. d = w
    BY <2>4, <2>5, <2>6, SeqEqual
  <2>8. QED  BY <2>3, <2>7
<1>11. QED  BY <1>1, <1>2, <1>8, <1>9, <1>10

\* The two codecs do not understand each other: a frame of the other program's
\* encode(), whatever follows it, is not valid, for the CRC of one covers the
\* sync bytes and that of the other does not.
THEOREM OtherCodingIsInvalid ==
    ASSUME NEW k \in Codecs, NEW h \in Codecs, k # h,
           NEW id \in Nat, NEW f, IsFrame(h, id, f), NEW w \in Seq(Cell)
    PROVE  ~ Valid(k, f \o w)
<1>1. PICK c : c = f \o w
  OBVIOUS
<1>2. SUFFICES ASSUME Valid(k, c) PROVE FALSE
  BY <1>1
<1>3. /\ c \in Seq(Cell) /\ Len(c) >= Len(f) /\ Total(c) = Len(f)
      /\ Len(f) >= 5 /\ Len(f) \in Nat /\ Len(c) \in Nat
      /\ Len(f[Len(f)]) = Len(f) - h.crcFrom
      /\ \A i \in 1..Len(f) : c[i] = f[i]
  <2>1. /\ c \in Seq(Cell) /\ Len(c) >= Len(f) /\ Total(c) = Len(f)
        /\ \A i \in 1..Len(f) : c[i] = f[i]
    BY <1>1, FrameInFront
  <2>2. Len(f) >= 5 /\ Len(f) \in Nat /\ Len(f[Len(f)]) = Len(f) - h.crcFrom
    BY FrameShape
  <2>3. Len(c) \in Nat
    BY <2>1
  <2>4. QED  BY <2>1, <2>2, <2>3
<1>4. Total(c) \in 5..Len(c) /\ Len(f) \in 1..Len(f)
  BY <1>3
<1>5. Len(c[Len(f)]) = Len(f) - k.crcFrom
  BY <1>2, <1>3, <1>4, ValidShape
<1>6. Len(f) - k.crcFrom = Len(f) - h.crcFrom
  BY <1>3, <1>4, <1>5
<1>7. k.crcFrom \in {1, 3} /\ h.crcFrom \in {1, 3} /\ k.crcFrom # h.crcFrom
  BY DEF Codecs, Daemon, Driver
<1>8. QED  BY <1>3, <1>6, <1>7
-----------------------------------------------------------------------------
\* The codec of either program.
LEMMA CodecOf ==
    /\ Codec("daemon") = Daemon /\ Codec("driver") = Driver
    /\ \A sd \in Sides : Codec(sd) \in Codecs
BY DEF Codec, Codecs, Sides

\* feed() appends, parses, and trims: a buffer is cleared by the daemon only,
\* and what the driver parsed is never longer than its limit.
LEMMA FeedIsParsed ==
    ASSUME NEW sd \in Sides, NEW b \in Seq(Cell), NEW data \in Seq(Cell)
    PROVE  /\ Feed(sd, b, data) = Parsed(Codec(sd), IF sd = "daemon" /\ Overflows(b, data)
                                                    THEN data ELSE b \o data)
           /\ Feed(sd, b, data) \in States
           /\ Len(Feed(sd, b, data).rest) < MaxFrame
<1>1. b \o data \in Seq(Cell) /\ Daemon \in Codecs /\ Driver \in Codecs
  BY ConcatProperties DEF Codecs
<1>2. CASE sd = "daemon"
  <2>1. Feed(sd, b, data) = Parsed(Daemon, IF Overflows(b, data) THEN data ELSE b \o data)
    BY <1>2 DEF Feed, DaemonFeed
  <2>2. (IF Overflows(b, data) THEN data ELSE b \o data) \in Seq(Cell)
    BY <1>1
  <2>3. QED  BY <2>1, <2>2, <1>1, <1>2, ParsedType, CodecOf
<1>3. CASE sd = "driver"
  <2>1. PICK p : p = Parsed(Driver, b \o data)
    OBVIOUS
  <2>2. p \in States /\ Len(p.rest) < MaxFrame
    BY <2>1, <1>1, ParsedType
  <2>3. p.rest \in Seq(Cell) /\ Len(p.rest) \in Nat /\ MaxFrame \in Nat /\ BufCap = 2 * MaxFrame
    BY <2>2, <1>1, CodecFacts DEF States
  <2>4. ~ (Len(p.rest) > BufCap)
    BY <2>2, <2>3
  <2>5. DropFirst(p.rest, 0) = p.rest
    BY <2>3, SubSeqFull DEF DropFirst
  <2>6. Feed(sd, b, data) = [p EXCEPT !.rest = DropFirst(p.rest, 0)]
    BY <2>1, <2>4, <1>3 DEF Feed, DriverFeed
  <2>7. [p EXCEPT !.rest = DropFirst(p.rest, 0)] = [rest |-> p.rest, got |-> p.got]
    BY <2>2, <2>5, SameRecord
  <2>8. [rest |-> p.rest, got |-> p.got] = p
    BY <2>2 DEF States
  <2>9. Feed(sd, b, data) = p
    BY <2>6, <2>7, <2>8
  <2>10. QED  BY <2>1, <2>2, <2>9, <1>3, CodecOf
<1>4. QED  BY <1>2, <1>3 DEF Sides

\* What a read takes and what it leaves make up the wire.
LEMMA ReadSplits ==
    ASSUME NEW s \in Seq(Cell), NEW n \in 1..Len(s)
    PROVE  /\ SubSeq(s, 1, n) \in Seq(Cell) /\ Len(SubSeq(s, 1, n)) = n
           /\ DropFirst(s, n) \in Seq(Cell)
           /\ SubSeq(s, 1, n) \o DropFirst(s, n) = s
<1>1. Len(s) \in Nat /\ n \in 0..Len(s)
  OBVIOUS
<1>2. DropFirst(s, n) \in Seq(Cell)
  BY <1>1, Dropped
<1>3. SubSeq(s, 1, n) \in Seq(Cell) /\ Len(SubSeq(s, 1, n)) = n
  <2>1. \A i \in 1..n : s[i] \in Cell
    BY <1>1, ElementOfSeq
  <2>2. /\ SubSeq(s, 1, n) \in Seq(Cell)
        /\ Len(SubSeq(s, 1, n)) = IF 1 <= n THEN n - 1 + 1 ELSE 0
    BY <2>1, SubSeqProperties
  <2>3. QED  BY <2>2, <1>1
<1>4. SubSeq(s, 1, n) \o SubSeq(s, n + 1, Len(s)) = SubSeq(s, 1, Len(s))
  <2>1. 1 \in 1..(Len(s) + 1) /\ n \in (1 - 1)..Len(s) /\ Len(s) \in n..Len(s)
    BY <1>1
  <2>2. QED  BY <2>1, ConcatAdjacentSubSeq
<1>5. QED  BY <1>2, <1>3, <1>4, SubSeqFull DEF DropFirst

\* A damaged frame has lost a cell, or one is another byte.
LEMMA DamagedForms ==
    ASSUME NEW f, NEW d \in Damaged(f)
    PROVE  \/ \E i \in DOMAIN f : d = SubSeq(f, 1, i - 1) \o DropFirst(f, i)
           \/ /\ d # f
              /\ \E i \in DOMAIN f, c \in {Sync0, <<MaxPayload>>} : d = [f EXCEPT ![i] = c]
<1> DEFINE lost == {SubSeq(f, 1, i - 1) \o DropFirst(f, i) : i \in DOMAIN f}
           read == {[f EXCEPT ![i] = c] : i \in DOMAIN f, c \in {Sync0, <<MaxPayload>>}}
<1>1. d \in lost \/ (d # f /\ d \in read)
  <2>1. Damaged(f) = lost \cup (read \ {f})
    BY DEF Damaged
  <2> HIDE DEF lost, read
  <2>2. QED  BY <2>1
<1>2. ASSUME d \in lost PROVE \E i \in DOMAIN f : d = SubSeq(f, 1, i - 1) \o DropFirst(f, i)
  BY <1>2, Zenon
<1>3. ASSUME d \in read
      PROVE  \E i \in DOMAIN f, c \in {Sync0, <<MaxPayload>>} : d = [f EXCEPT ![i] = c]
  BY <1>3
<1>4. QED
  <2> HIDE DEF lost, read
  <2>1. QED  BY <1>1, <1>2, <1>3, Zenon

\* A frame without one of its cells.
LEMMA OneCellLost ==
    ASSUME NEW f \in Seq(Cell), NEW i \in 1..Len(f), NEW d,
           d = SubSeq(f, 1, i - 1) \o DropFirst(f, i)
    PROVE  /\ d \in Seq(Cell) /\ Len(d) = Len(f) - 1
           /\ \A x \in 1..(Len(f) - 1) : d[x] = IF x < i THEN f[x] ELSE f[x + 1]
<1>1. Len(f) \in Nat /\ i \in 0..Len(f) /\ i - 1 \in Nat
  <2>1. Len(f) \in Nat
    OBVIOUS
  <2>2. QED  BY <2>1
<1>2. PICK a : a = SubSeq(f, 1, i - 1)
  OBVIOUS
<1>3. a \in Seq(Cell) /\ Len(a) = i - 1 /\ \A x \in 1..(i - 1) : a[x] = f[x]
  <2>1. \A j \in 1..(i - 1) : f[j] \in Cell
    BY <1>1, ElementOfSeq
  <2>2. 1 \in Int /\ i - 1 \in Int
    BY <1>1
  <2>3. /\ a \in Seq(Cell)
        /\ Len(a) = IF 1 <= i - 1 THEN (i - 1) - 1 + 1 ELSE 0
        /\ \A x \in 1..((i - 1) - 1 + 1) : a[x] = f[1 + x - 1]
    BY <1>2, <2>1, <2>2, SubSeqProperties
  <2>4. (i - 1) - 1 + 1 = i - 1 /\ \A x \in 1..(i - 1) : 1 + x - 1 = x
    BY <1>1
  <2>5. (IF 1 <= i - 1 THEN i - 1 ELSE 0) = i - 1
    BY <1>1
  <2>6. QED  BY <2>3, <2>4, <2>5
<1>4. PICK z : z = DropFirst(f, i)
  OBVIOUS
<1>5. /\ z \in Seq(Cell) /\ Len(z) = Len(f) - i
      /\ \A x \in 1..(Len(f) - i) : z[x] = f[x + i]
  BY <1>1, <1>4, Dropped
<1>6. /\ d \in Seq(Cell) /\ Len(d) = Len(a) + Len(z)
      /\ \A x \in 1..(Len(a) + Len(z)) : d[x] = IF x <= Len(a) THEN a[x] ELSE z[x - Len(a)]
  <2>1. d = a \o z /\ a \in Seq(Cell) /\ z \in Seq(Cell)
    BY <1>2, <1>3, <1>4, <1>5
  <2>2. QED  BY <2>1, ConcatProperties
<1>7. Len(a) + Len(z) = Len(f) - 1
  BY <1>1, <1>3, <1>5
<1>8. ASSUME NEW x \in 1..(Len(f) - 1) PROVE d[x] = IF x < i THEN f[x] ELSE f[x + 1]
  <2>1. d[x] = IF x <= i - 1 THEN a[x] ELSE z[x - (i - 1)]
    BY <1>3, <1>6, <1>7
  <2>2. CASE x < i
    <3>1. x <= i - 1 /\ x \in 1..(i - 1)
      BY <1>1, <2>2
    <3>2. QED  BY <2>1, <2>2, <3>1, <1>3
  <2>3. CASE ~ (x < i)
    <3>1. ~ (x <= i - 1) /\ x - (i - 1) \in 1..(Len(f) - i) /\ (x - (i - 1)) + i = x + 1
      BY <1>1, <2>3
    <3>2. z[x - (i - 1)] = f[x + 1]
      BY <3>1, <1>5
    <3>3. QED  BY <2>1, <2>3, <3>1, <3>2
  <2>4. QED  BY <2>2, <2>3
<1>9. QED  BY <1>6, <1>7, <1>8

\* A damaged frame is still made of cells.
LEMMA DamagedCells ==
    ASSUME NEW f \in Seq(Cell), NEW d \in Damaged(f)
    PROVE  d \in Seq(Cell)
<1>1. DOMAIN f = 1..Len(f)
  BY LenProperties
<1>2. CASE \E i \in DOMAIN f : d = SubSeq(f, 1, i - 1) \o DropFirst(f, i)
  BY <1>1, <1>2, OneCellLost
<1>3. CASE \E i \in DOMAIN f, c \in {Sync0, <<MaxPayload>>} : d = [f EXCEPT ![i] = c]
  <2>1. PICK i \in DOMAIN f, c \in {Sync0, <<MaxPayload>>} : d = [f EXCEPT ![i] = c]
    BY <1>3
  <2>2. c \in Cell
    BY CellFacts, CodecConstants
  <2>3. QED  BY <1>1, <2>1, <2>2, ExceptSeq
<1>4. QED  BY <1>2, <1>3, DamagedForms

\* It holds no CRC but that of the frame, which is its last cell.
LEMMA DamagedShape ==
    ASSUME NEW k \in Codecs, NEW id \in Nat, NEW f, IsFrame(k, id, f), NEW d \in Damaged(f)
    PROVE  /\ d # f /\ (Len(d) = Len(f) \/ Len(d) = Len(f) - 1)
           /\ \A x \in 1..Len(d) : d[x] \in Byte \/ (x = Len(d) /\ d[x] = f[Len(f)])
<1>1. /\ f \in Seq(Cell) /\ Len(f) \in Nat /\ Len(f) >= 5
      /\ \A x \in 1..(Len(f) - 1) : f[x] \in Byte
  <2>1. f \in Seq(Cell) /\ Len(f) \in Nat /\ Len(f) >= 5
    BY FrameShape
  <2>2. \A x \in 1..(Len(f) - 1) : f[x] \in Byte
    BY FrameShape
  <2>3. QED  BY <2>1, <2>2
<1>2. DOMAIN f = 1..Len(f)
  BY <1>1, LenProperties
<1>3. CASE \E i \in DOMAIN f : d = SubSeq(f, 1, i - 1) \o DropFirst(f, i)
  <2>1. PICK i \in 1..Len(f) : d = SubSeq(f, 1, i - 1) \o DropFirst(f, i)
    BY <1>2, <1>3
  <2>2. /\ Len(d) = Len(f) - 1
        /\ \A x \in 1..(Len(f) - 1) : d[x] = IF x < i THEN f[x] ELSE f[x + 1]
    BY <2>1, <1>1, OneCellLost
  <2>3. d # f
    BY <2>2, <1>1
  <2>4. ASSUME NEW x \in 1..Len(d) PROVE d[x] \in Byte \/ (x = Len(d) /\ d[x] = f[Len(f)])
    <3>1. x \in 1..(Len(f) - 1)
      BY <2>2
    <3>2. d[x] = f[x] \/ d[x] = f[x + 1]
      BY <2>2, <3>1
    <3>3. x + 1 \in 1..(Len(f) - 1) \/ (x = Len(d) /\ x + 1 = Len(f))
      BY <2>2, <3>1, <1>1
    <3>4. f[x] \in Byte
      BY <3>1, <1>1
    <3>5. CASE x + 1 \in 1..(Len(f) - 1)
      BY <3>2, <3>4, <3>5, <1>1
    <3>6. CASE x = Len(d) /\ x + 1 = Len(f)
      BY <3>2, <3>4, <3>6
    <3>7. QED  BY <3>3, <3>5, <3>6
  <2>5. QED  BY <2>2, <2>3, <2>4
<1>4. CASE /\ d # f
           /\ \E i \in DOMAIN f, c \in {Sync0, <<MaxPayload>>} : d = [f EXCEPT ![i] = c]
  <2>1. PICK i \in 1..Len(f), c \in {Sync0, <<MaxPayload>>} : d = [f EXCEPT ![i] = c]
    BY <1>2, <1>4
  <2>2. c \in Byte /\ c \in Cell
    BY CellFacts, CodecConstants
  <2>3. Len(d) = Len(f) /\ \A x \in 1..Len(f) : d[x] = IF x = i THEN c ELSE f[x]
    BY <2>1, <2>2, <1>1, ExceptSeq
  <2>4. ASSUME NEW x \in 1..Len(d) PROVE d[x] \in Byte \/ (x = Len(d) /\ d[x] = f[Len(f)])
    <3>1. x \in 1..Len(f) /\ (x \in 1..(Len(f) - 1) \/ x = Len(f))
      BY <2>3, <1>1
    <3>2. d[x] = c \/ d[x] = f[x]
      BY <2>3, <3>1
    <3>3. CASE x \in 1..(Len(f) - 1)
      BY <3>2, <3>3, <2>2, <1>1
    <3>4. CASE x = Len(f)
      BY <3>2, <3>4, <2>2, <2>3
    <3>5. QED  BY <3>1, <3>3, <3>4
  <2>5. QED  BY <2>3, <2>4, <1>4
<1>5. QED  BY <1>3, <1>4, DamagedForms
-----------------------------------------------------------------------------
(***************************************************************************)
(* The link.                                                               *)
(***************************************************************************)
\* Types, and that what was written undamaged is a frame.
LinkType ==
    /\ side \in Sides /\ link \in {"uart", "tcp"}
    /\ rx \in {"off", "run", "ended"} /\ plugged \in BOOLEAN /\ tried \in BOOLEAN
    /\ buf \in Seq(Cell) /\ wire \in Seq(Cell) /\ delivered \in Seq(Values)
    /\ written \in Nat /\ cleared \in BOOLEAN
    /\ \A f \in intact :
         f.id \in Nat /\ f.by \in Sides /\ IsFrame(Codec(f.by), f.id, f.cells)

LinkInv == LinkType /\ RestFits

\* The invariants hold when the programs start.
LEMMA LinkInit == Init => LinkInv /\ IntactFramesSurvive
<1> SUFFICES ASSUME Init PROVE LinkInv /\ IntactFramesSurvive
  OBVIOUS
<1>1. LinkType
  BY EmptySeq DEF Init, LinkType
<1>2. RestFits
  <2>1. MaxFrame = MaxPayload + 5 /\ MaxPayload \in Nat /\ Len(buf) = 0
    BY CodecConstants, EmptySeq DEF Init, MaxFrame, HeaderTot, CrcSz
  <2>2. Len(buf) < MaxFrame
    BY <2>1
  <2>3. QED  BY <2>2 DEF RestFits, Init
<1>3. QED  BY <1>1, <1>2 DEF LinkInv, IntactFramesSurvive, Init

\* What a Write puts on the wire is made of cells, damaged or not.
LEMMA WriteType ==
    ASSUME LinkInv, Write
    PROVE  /\ LinkInv'
           /\ \A f \in intact : f \in intact'
           /\ \E d \in Seq(Cell) :
                /\ wire' = wire \o d
                /\ \A f \in intact' : f \in intact \/ f.cells = d
<1>1. /\ written \in Nat /\ written' = written + 1 /\ written' \in Nat
      /\ UNCHANGED <<side, link, rx, plugged, tried, buf, delivered, cleared>>
  BY DEF LinkInv, LinkType, Write, config, port
<1>0. PICK n \in Nat : n = Identity(written')
  BY <1>1 DEF Identity, Sync0
<1>2. PICK p \in Payloads, by \in Sides :
         \/ /\ wire' = wire \o Encode(Codec(by), n, p)
            /\ intact' = intact \cup {[id |-> n, by |-> by, cells |-> Encode(Codec(by), n, p)]}
         \/ /\ \E d \in Damaged(Encode(Codec(by), n, p)) : wire' = wire \o d
            /\ intact' = intact
  BY <1>0 DEF Write
<1>3. PICK f : f = Encode(Codec(by), n, p)
  OBVIOUS
<1>4. p \in Seq(Byte) /\ Len(p) <= MaxPayload
  BY LinkSizes
<1>5. IsFrame(Codec(by), n, f) /\ Codec(by) \in Codecs
  BY <1>3, <1>4, CodecOf DEF IsFrame
<1>6. f \in Seq(Cell)
  BY <1>1, <1>5, FrameShape
<1>7. PICK d \in Seq(Cell) :
         /\ wire' = wire \o d
         /\ \/ d = f /\ intact' = intact \cup {[id |-> n, by |-> by, cells |-> f]}
            \/ intact' = intact
  <2>1. CASE /\ wire' = wire \o f
             /\ intact' = intact \cup {[id |-> n, by |-> by, cells |-> f]}
    BY <2>1, <1>6
  <2>2. CASE /\ \E d \in Damaged(f) : wire' = wire \o d
             /\ intact' = intact
    BY <2>2, <1>6, DamagedCells
  <2>3. QED  BY <1>2, <1>3, <2>1, <2>2
<1>8. wire' \in Seq(Cell)
  BY <1>7, ConcatProperties DEF LinkInv, LinkType
<1>9. \A g \in intact' : g.id \in Nat /\ g.by \in Sides /\ IsFrame(Codec(g.by), g.id, g.cells)
  BY <1>1, <1>5, <1>7 DEF LinkInv, LinkType
<1>10. LinkType'
  BY <1>1, <1>8, <1>9 DEF LinkInv, LinkType
<1>11. RestFits'
  BY <1>1 DEF LinkInv, RestFits
<1>12. (\A g \in intact : g \in intact') /\ \A g \in intact' : g \in intact \/ g.cells = d
  BY <1>7
<1>13. LinkInv'
  BY <1>10, <1>11 DEF LinkInv
<1>14. QED  BY <1>7, <1>12, <1>13

\* What a Read takes off the wire, and what feed() makes of it.
LEMMA ReadType ==
    ASSUME LinkInv, Read
    PROVE  /\ LinkInv'
           /\ UNCHANGED <<side, link, intact>>
           /\ \E data \in Seq(Cell) :
                /\ wire = data \o wire' /\ wire' \in Seq(Cell)
                /\ Feed(side, buf, data) \in States
                /\ buf' = Feed(side, buf, data).rest
                /\ delivered' = delivered \o Feed(side, buf, data).got
                /\ cleared' = (cleared \/ (side = "daemon" /\ buf # <<>> /\ Overflows(buf, data)))
<1>1. /\ UNCHANGED <<side, link, rx, plugged, tried, written, intact>>
      /\ buf \in Seq(Cell) /\ wire \in Seq(Cell) /\ delivered \in Seq(Values) /\ side \in Sides
      /\ Len(buf) \in Nat /\ Len(wire) \in Nat
  BY DEF LinkInv, LinkType, Read, config, port
<1>2. PICK n \in 1..ReadMax :
         /\ n <= Len(wire)
         /\ buf' = Feed(side, buf, SubSeq(wire, 1, n)).rest
         /\ delivered' = delivered \o Feed(side, buf, SubSeq(wire, 1, n)).got
         /\ wire' = DropFirst(wire, n)
         /\ cleared' = (cleared \/ (side = "daemon" /\ buf # <<>>
                                       /\ Overflows(buf, SubSeq(wire, 1, n))))
  BY DEF Read
<1>3. PICK data : data = SubSeq(wire, 1, n)
  OBVIOUS
<1>4. n \in 1..Len(wire) /\ n \in Nat
  BY <1>1, <1>2
<1>5. data \in Seq(Cell) /\ Len(data) = n /\ wire' \in Seq(Cell) /\ wire = data \o wire'
  BY <1>1, <1>2, <1>3, <1>4, ReadSplits
<1>6. Feed(side, buf, data) \in States /\ Len(Feed(side, buf, data).rest) < MaxFrame
  BY <1>1, <1>5, FeedIsParsed
<1>7. /\ buf' = Feed(side, buf, data).rest
      /\ delivered' = delivered \o Feed(side, buf, data).got
      /\ cleared' = (cleared \/ (side = "daemon" /\ buf # <<>> /\ Overflows(buf, data)))
  BY <1>2, <1>3
<1>8. LinkType'
  <2>1. buf' \in Seq(Cell) /\ Feed(side, buf, data).got \in Seq(Values)
    BY <1>6, <1>7 DEF States
  <2>2. delivered' \in Seq(Values)
    BY <2>1, <1>1, <1>7, ConcatProperties
  <2>3. cleared' \in BOOLEAN
    BY <1>7 DEF LinkInv, LinkType
  <2>4. QED  BY <2>1, <2>2, <2>3, <1>1, <1>5 DEF LinkInv, LinkType
<1>9. cleared' => link = "tcp"
  <2>1. SUFFICES ASSUME link # "tcp", Overflows(buf, data) PROVE FALSE
    BY <1>7 DEF LinkInv, RestFits
  <2>2. ReadMax = UartRead /\ UartRead \in 1..MaxFrame
    BY <2>1, LinkSizes DEF LinkInv, LinkType, ReadMax
  <2>3. n <= MaxFrame /\ Len(buf) < MaxFrame /\ BufCap = 2 * MaxFrame /\ MaxFrame \in Nat
    <3>1. BufCap = 2 * MaxFrame /\ MaxFrame \in Nat
      BY CodecOf, CodecFacts, <1>1
    <3>2. Len(buf) < MaxFrame
      BY DEF LinkInv, RestFits
    <3>3. n \in 1..UartRead
      BY <1>2, <2>2
    <3>4. QED  BY <2>2, <3>1, <3>2, <3>3
  <2>4. Len(buf) + n > BufCap
    BY <2>1, <1>5 DEF Overflows
  <2>5. QED  BY <2>3, <2>4, <1>1, <1>4
<1>10. RestFits'
  BY <1>1, <1>6, <1>7, <1>9 DEF RestFits
<1>11. QED  BY <1>1, <1>5, <1>6, <1>7, <1>8, <1>10 DEF LinkInv

\* No step of the link disturbs the types and the bound of the buffer.
LEMMA LinkStep == LinkInv /\ [Next]_linkVars => LinkInv'
<1> SUFFICES ASSUME LinkInv, [Next]_linkVars PROVE LinkInv'
  OBVIOUS
<1>1. CASE StartDaemon
  BY <1>1 DEF LinkInv, LinkType, RestFits, StartDaemon, config
<1>2. CASE StartDriver
  BY <1>2 DEF LinkInv, LinkType, RestFits, StartDriver, config
<1>3. CASE Stop
  BY <1>3 DEF LinkInv, LinkType, RestFits, Stop, config
<1>4. CASE Write
  BY <1>4, WriteType
<1>5. CASE Cut
  <2>1. wire' \in Seq(Cell)
    BY <1>5, EmptySeq DEF Cut
  <2>2. intact' \subseteq intact
    BY <1>5 DEF Cut
  <2>3. QED  BY <2>1, <2>2, <1>5 DEF LinkInv, LinkType, RestFits, Cut, config, port
<1>6. CASE Plug
  BY <1>6 DEF LinkInv, LinkType, RestFits, Plug, config
<1>7. CASE Read
  BY <1>7, ReadType
<1>8. CASE ReadsNothing
  BY <1>8 DEF LinkInv, LinkType, RestFits, ReadsNothing, config
<1>9. CASE UNCHANGED linkVars
  BY <1>9 DEF LinkInv, LinkType, RestFits, linkVars, config, port
<1>10. QED  BY <1>1, <1>2, <1>3, <1>4, <1>5, <1>6, <1>7, <1>8, <1>9 DEF Next

\* For any sizes and payloads: what stays in a buffer is less than a frame,
\* and a serial port never overflows it.
THEOREM RestIsLessThanAFrame == Spec => []RestFits
<1>1. Init => LinkInv
  BY LinkInit
<1>2. LinkInv => RestFits
  BY DEF LinkInv
<1>3. QED  BY <1>1, <1>2, LinkStep, PTL DEF Spec

\* A frame on the wire stays within what is on the way when more is written.
LEMMA WithinLonger ==
    ASSUME NEW k \in Codecs, NEW id \in Nat, NEW f, IsFrame(k, id, f),
           NEW s \in Seq(Cell), NEW d \in Seq(Cell), Within(f, s)
    PROVE  Within(f, s \o d)
<1>1. /\ Len(f) \in Nat /\ Len(s) \in Nat /\ Len(d) \in Nat
      /\ s \o d \in Seq(Cell) /\ Len(s \o d) = Len(s) + Len(d)
  BY FrameShape, ConcatProperties
<1>2. PICK i \in Nat : At(f, s, i)
  BY WithinIsAt
<1>3. ASSUME NEW q \in 1..Len(f) PROVE (s \o d)[i + q] = f[q]
  <2>1. i <= Len(s) - Len(f)
    BY <1>1, <1>2 DEF At
  <2>2. i + q \in 1..(Len(s) + Len(d)) /\ i + q <= Len(s)
    BY <1>1, <2>1
  <2>3. (s \o d)[i + q] = s[i + q]
    BY <2>2, ConcatProperties
  <2>4. QED  BY <2>3, <1>2 DEF At
<1>4. i \in 0..(Len(s \o d) - Len(f))
  BY <1>1, <1>2 DEF At
<1>5. At(f, s \o d, i)
  BY <1>3, <1>4 DEF At
<1>6. QED  BY <1>1, <1>5, WithinIsAt

\* A frame lies within what it has just been written to.
LEMMA WithinAtEnd ==
    ASSUME NEW k \in Codecs, NEW id \in Nat, NEW f, IsFrame(k, id, f), NEW s \in Seq(Cell)
    PROVE  Within(f, s \o f)
<1>1. f \in Seq(Cell) /\ Len(f) \in Nat /\ Len(s) \in Nat
  BY FrameShape
<1>2. s \o f \in Seq(Cell) /\ Len(s \o f) = Len(s) + Len(f)
  BY <1>1, ConcatProperties
<1>3. ASSUME NEW q \in 1..Len(f) PROVE (s \o f)[Len(s) + q] = f[q]
  <2>1. Len(s) + q \in 1..(Len(s) + Len(f)) /\ ~ (Len(s) + q <= Len(s)) /\ (Len(s) + q) - Len(s) = q
    BY <1>1
  <2>2. QED  BY <2>1, <1>1, ConcatProperties
<1>4. Len(s) \in 0..(Len(s \o f) - Len(f))
  BY <1>1, <1>2
<1>5. At(f, s \o f, Len(s))
  BY <1>3, <1>4 DEF At
<1>6. QED  BY <1>1, <1>2, <1>5, WithinIsAt

\* The frame was handed over, or all of it is on the way.
Kept(f) == Got(f) \/ Within(f.cells, buf \o wire)

\* A write adds its own frame, if the line leaves it whole, and loses none.
LEMMA WriteKeeps ==
    ASSUME LinkInv, Write, NEW f \in intact', f.by = side,
           f \in intact => Kept(f)
    PROVE  Kept(f)'
<1>1. /\ LinkInv' /\ UNCHANGED <<side, buf, delivered>>
      /\ buf \in Seq(Cell) /\ wire \in Seq(Cell)
  BY WriteType DEF Write, LinkInv, LinkType, config
<1>2. PICK d \in Seq(Cell) :
        /\ wire' = wire \o d
        /\ \A g \in intact' : g \in intact \/ g.cells = d
  BY WriteType
<1>3. f.id \in Nat /\ Codec(f.by) \in Codecs /\ IsFrame(Codec(f.by), f.id, f.cells)
  BY <1>1, CodecOf DEF LinkInv, LinkType
<1>4. buf \o wire \in Seq(Cell) /\ (buf \o wire) \o d = buf \o (wire \o d)
  BY <1>1, ConcatProperties, ConcatAssociative
<1>5. CASE f \in intact /\ Got(f)
  BY <1>1, <1>5 DEF Kept, Got
<1>6. CASE f \in intact /\ Within(f.cells, buf \o wire)
  <2>1. Within(f.cells, (buf \o wire) \o d)
    BY <1>3, <1>4, <1>6, WithinLonger
  <2>2. QED  BY <2>1, <1>1, <1>2, <1>4 DEF Kept
<1>7. CASE f.cells = d
  <2>1. Within(d, (buf \o wire) \o d)
    BY <1>3, <1>4, <1>7, WithinAtEnd
  <2>2. QED  BY <2>1, <1>1, <1>2, <1>4, <1>7 DEF Kept
<1>8. QED  BY <1>2, <1>5, <1>6, <1>7 DEF Kept

\* Unless the daemon clears its buffer, a read loses no frame.
LEMMA ReadKeeps ==
    ASSUME LinkInv, Read, ~ cleared', NEW f \in intact, f.by = side, Kept(f)
    PROVE  Kept(f)'
<1>1. /\ UNCHANGED <<side, intact>> /\ side \in Sides
      /\ buf \in Seq(Cell) /\ wire \in Seq(Cell) /\ delivered \in Seq(Values)
  BY ReadType DEF LinkInv, LinkType
<1>2. PICK data \in Seq(Cell) :
        /\ wire = data \o wire' /\ wire' \in Seq(Cell)
        /\ Feed(side, buf, data) \in States
        /\ buf' = Feed(side, buf, data).rest
        /\ delivered' = delivered \o Feed(side, buf, data).got
        /\ cleared' = (cleared \/ (side = "daemon" /\ buf # <<>> /\ Overflows(buf, data)))
  BY ReadType
<1>3. f.id \in Nat /\ Codec(side) \in Codecs /\ IsFrame(Codec(side), f.id, f.cells)
  BY <1>1, CodecOf DEF LinkInv, LinkType
<1>4. PICK g : g = Feed(side, buf, data).got
  OBVIOUS
<1>5. g \in Seq(Values) /\ delivered' = delivered \o g
  BY <1>2, <1>4 DEF States
<1>6. Len(delivered) \in Nat /\ Len(g) \in Nat
  BY <1>1, <1>5
<1>7. /\ DOMAIN delivered = 1..Len(delivered) /\ DOMAIN g = 1..Len(g)
      /\ DOMAIN (delivered \o g) = 1..(Len(delivered) + Len(g))
      /\ \A i \in 1..(Len(delivered) + Len(g)) :
           (delivered \o g)[i] = IF i <= Len(delivered) THEN delivered[i] ELSE g[i - Len(delivered)]
  <2>1. /\ delivered \o g \in Seq(Values) /\ Len(delivered \o g) = Len(delivered) + Len(g)
        /\ \A i \in 1..(Len(delivered) + Len(g)) :
             (delivered \o g)[i] = IF i <= Len(delivered) THEN delivered[i] ELSE g[i - Len(delivered)]
    BY <1>1, <1>5, ConcatProperties
  <2>2. DOMAIN (delivered \o g) = 1..Len(delivered \o g)
    BY <2>1, LenProperties
  <2>3. QED  BY <2>1, <2>2, <1>1, <1>5, LenProperties
<1>8. CASE Got(f)
  <2>1. PICK i \in DOMAIN delivered : delivered[i] = f.id
    BY <1>8 DEF Got
  <2>2. i \in 1..(Len(delivered) + Len(g)) /\ i <= Len(delivered)
    BY <2>1, <1>6, <1>7
  <2>3. i \in DOMAIN delivered' /\ delivered'[i] = f.id
    BY <2>1, <2>2, <1>5, <1>7
  <2>4. QED  BY <2>3 DEF Kept, Got
<1>9. CASE Within(f.cells, buf \o wire)
  <2>1. buf \o data \in Seq(Cell) /\ (buf \o data) \o wire' = buf \o wire
    BY <1>1, <1>2, ConcatProperties, ConcatAssociative
  <2>2. Feed(side, buf, data) = Parsed(Codec(side), buf \o data)
    <3>1. CASE side = "daemon" /\ Overflows(buf, data)
      <4>1. buf = <<>>
        BY <3>1, <1>2
      <4>2. buf \o data = data
        BY <4>1, ConcatEmptySeq
      <4>3. QED  BY <3>1, <4>2, <1>1, FeedIsParsed
    <3>2. CASE ~ (side = "daemon" /\ Overflows(buf, data))
      BY <3>2, <1>1, FeedIsParsed
    <3>3. QED  BY <3>1, <3>2
  <2>3. \/ Within(f.cells, Feed(side, buf, data).rest \o wire')
        \/ \E x \in DOMAIN g : g[x] = f.id
    <3>1. Within(f.cells, (buf \o data) \o wire')
      BY <2>1, <1>9
    <3>2. PICK c : c = buf \o data
      OBVIOUS
    <3>3. PICK w : w = wire'
      OBVIOUS
    <3>4. PICK k : k = Codec(side)
      OBVIOUS
    <3>5. c \in Seq(Cell) /\ w \in Seq(Cell) /\ Within(f.cells, c \o w)
      BY <2>1, <3>1, <3>2, <3>3, <1>2
    <3>6. k \in Codecs /\ IsFrame(k, f.id, f.cells)
      BY <3>4, <1>3
    <3>7. \/ Within(f.cells, Parsed(k, c).rest \o w)
          \/ \E x \in DOMAIN Parsed(k, c).got : Parsed(k, c).got[x] = f.id
      BY <3>5, <3>6, <1>3, ParsedKeepsFrame
    <3>8. Parsed(k, c) = Feed(side, buf, data)
      BY <2>2, <3>2, <3>4
    <3>9. QED  BY <3>3, <3>7, <3>8, <1>4
  <2>4. CASE Within(f.cells, Feed(side, buf, data).rest \o wire')
    BY <2>4, <1>2 DEF Kept
  <2>5. CASE \E x \in DOMAIN g : g[x] = f.id
    <3>1. PICK x \in DOMAIN g : g[x] = f.id
      BY <2>5
    <3>2. /\ Len(delivered) + x \in 1..(Len(delivered) + Len(g))
          /\ ~ (Len(delivered) + x <= Len(delivered)) /\ (Len(delivered) + x) - Len(delivered) = x
      BY <3>1, <1>6, <1>7
    <3>3. Len(delivered) + x \in DOMAIN delivered' /\ delivered'[Len(delivered) + x] = f.id
      BY <3>1, <3>2, <1>5, <1>7
    <3>4. QED  BY <3>3 DEF Kept, Got
  <2>6. QED  BY <2>3, <2>4, <2>5
<1>10. QED  BY <1>8, <1>9 DEF Kept

\* No step loses a frame that the line did not spoil.
LEMMA SurviveStep ==
    ASSUME LinkInv, IntactFramesSurvive, [Next]_linkVars
    PROVE  IntactFramesSurvive'
<1> SUFFICES ASSUME ~ cleared', NEW f \in intact', f.by = side'
             PROVE  Kept(f)'
  BY DEF IntactFramesSurvive, Kept
<1>1. CASE Write
  <2>1. UNCHANGED <<side, cleared>>
    BY <1>1 DEF Write, config
  <2>2. f \in intact => Kept(f)
    BY <2>1 DEF IntactFramesSurvive, Kept
  <2>3. QED  BY <2>1, <2>2, <1>1, WriteKeeps
<1>2. CASE Read
  <2>1. UNCHANGED <<side, intact>> /\ ~ cleared
    BY <1>2, ReadType
  <2>2. Kept(f)
    BY <2>1 DEF IntactFramesSurvive, Kept
  <2>3. QED  BY <2>1, <2>2, <1>2, ReadKeeps
<1>3. CASE Cut
  <2>1. UNCHANGED <<side, buf, delivered, cleared>> /\ wire' = <<>> /\ buf \in Seq(Cell)
    BY <1>3 DEF Cut, config, LinkInv, LinkType
  <2>2. Got(f) \/ Within(f.cells, buf)
    BY <1>3 DEF Cut
  <2>3. buf \o <<>> = buf
    BY <2>1, ConcatEmptySeq
  <2>4. QED  BY <2>1, <2>2, <2>3 DEF Kept, Got
<1>4. CASE /\ UNCHANGED <<side, buf, wire, delivered, intact, cleared>>
  BY <1>4 DEF IntactFramesSurvive, Kept, Got
<1>5. ASSUME StartDaemon \/ StartDriver \/ Stop \/ Plug \/ ReadsNothing \/ UNCHANGED linkVars
      PROVE  UNCHANGED <<side, buf, wire, delivered, intact, cleared>>
  BY <1>5 DEF StartDaemon, StartDriver, Stop, Plug, ReadsNothing, linkVars, config
<1>6. QED  BY <1>1, <1>2, <1>3, <1>4, <1>5 DEF Next

\* For any sizes, payloads and number of damaged frames: a frame the line did
\* not spoil is handed over, or all of it is still on the way.
THEOREM IntactFramesAreDelivered == Spec => []IntactFramesSurvive
<1>1. Init => LinkInv /\ IntactFramesSurvive
  BY LinkInit
<1>2. LinkInv /\ IntactFramesSurvive /\ [Next]_linkVars => LinkInv' /\ IntactFramesSurvive'
  BY LinkStep, SurviveStep
<1>3. QED  BY <1>1, <1>2, PTL DEF Spec
-----------------------------------------------------------------------------
(***************************************************************************)
(* What the callback is handed: the CRC cells mark the frames, and order   *)
(* them.                                                                   *)
(***************************************************************************)
\* c is the CRC that either program computes for a frame of message n.
Sealed(n, c) ==
    n > Sync0[1] /\ \E h \in Codecs, p \in Seq(Byte) : c = Crc(h, Body(n, p))

\* A byte is the number it holds.
LEMMA ByteHolds ==
    ASSUME NEW c \in Byte
    PROVE  c[1] \in Nat /\ c = <<c[1]>>
<1>1. c[1] \in Nat
  BY CellFacts
<1>2. <<c[1]>> \in Byte /\ <<c[1]>>[1] = c[1]
  BY <1>1, CellFacts
<1>3. c = <<c[1]>>
  BY <1>2 DEF Byte
<1>4. QED  BY <1>1, <1>3

\* What a CRC cell shows of the frame: its length, and whose it is.
LEMMA SealShape ==
    ASSUME NEW h \in Codecs, NEW n \in Nat, NEW p \in Seq(Byte)
    PROVE  /\ Body(n, p) \in Seq(Byte) /\ Len(Body(n, p)) \in Nat /\ Len(Body(n, p)) >= 4
           /\ Crc(h, Body(n, p)) \in Seq(Byte)
           /\ Len(Crc(h, Body(n, p))) = Len(Body(n, p)) + 1 - h.crcFrom
           /\ Len(Crc(h, Body(n, p))) >= 2
           /\ \A i \in h.crcFrom..Len(Body(n, p)) :
                Crc(h, Body(n, p))[i + 1 - h.crcFrom] = Body(n, p)[i]
           /\ h = Daemon => Crc(h, Body(n, p))[1] = Sync0
           /\ h # Daemon => Crc(h, Body(n, p))[1] = <<n>>
<1>1. PICK c : c = Body(n, p)
  OBVIOUS
<1>2. /\ c \in Seq(Byte) /\ Len(c) = Len(p) + 4 /\ Len(p) \in Nat
      /\ c[1] = Sync0 /\ c[3] = <<n>>
  <2>1. Len(p) \in Nat
    OBVIOUS
  <2>2. QED  BY <2>1, <1>1, BodyShape
<1>3. Len(c) \in Nat /\ Len(c) >= 4
  BY <1>2
<1>4. /\ Crc(h, c) \in Seq(Byte) /\ Len(Crc(h, c)) = Len(c) + 1 - h.crcFrom
      /\ Len(Crc(h, c)) >= 2
      /\ \A i \in h.crcFrom..Len(c) : Crc(h, c)[i + 1 - h.crcFrom] = c[i]
  BY <1>2, <1>3, CrcShape
<1>5. ASSUME h = Daemon PROVE Crc(h, c)[1] = Sync0
  <2>1. h.crcFrom = 1 /\ 1 \in h.crcFrom..Len(c)
    BY <1>3, <1>5, CodecFacts
  <2>2. Crc(h, c)[1 + 1 - h.crcFrom] = c[1] /\ 1 + 1 - h.crcFrom = 1
    BY <1>4, <2>1
  <2>3. QED  BY <1>2, <2>2
<1>6. ASSUME h # Daemon PROVE Crc(h, c)[1] = <<n>>
  <2>1. h.crcFrom = 3 /\ 3 \in h.crcFrom..Len(c)
    BY <1>3, <1>6, CodecFacts
  <2>2. Crc(h, c)[3 + 1 - h.crcFrom] = c[3] /\ 3 + 1 - h.crcFrom = 1
    BY <1>4, <2>1
  <2>3. QED  BY <1>2, <2>2
<1>7. QED  BY <1>1, <1>2, <1>3, <1>4, <1>5, <1>6

\* A CRC cell names the whole frame: with a message in it, it is no CRC of
\* another frame, unless that one's identity is a sync byte.
LEMMA SealTells ==
    ASSUME NEW g \in Codecs, NEW h \in Codecs, NEW m \in Nat, NEW n \in Nat,
           NEW p \in Seq(Byte), NEW q \in Seq(Byte), m > Sync0[1], n # Sync0[1],
           Crc(g, Body(m, p)) = Crc(h, Body(n, q))
    PROVE  g = h /\ m = n /\ Encode(g, m, p) = Encode(h, n, q)
<1>1. PICK a : a = Body(m, p)
  OBVIOUS
<1>2. PICK b : b = Body(n, q)
  OBVIOUS
<1>3. PICK c : c = Crc(g, a) /\ c = Crc(h, b)
  BY <1>1, <1>2
<1>4. /\ a \in Seq(Byte) /\ Len(a) \in Nat /\ Len(a) >= 4
      /\ Len(c) = Len(a) + 1 - g.crcFrom
      /\ \A i \in g.crcFrom..Len(a) : c[i + 1 - g.crcFrom] = a[i]
      /\ (g = Daemon => c[1] = Sync0) /\ (g # Daemon => c[1] = <<m>>)
  BY <1>1, <1>3, SealShape
<1>5. /\ b \in Seq(Byte) /\ Len(b) \in Nat /\ Len(b) >= 4
      /\ Len(c) = Len(b) + 1 - h.crcFrom
      /\ \A i \in h.crcFrom..Len(b) : c[i + 1 - h.crcFrom] = b[i]
      /\ (h = Daemon => c[1] = Sync0) /\ (h # Daemon => c[1] = <<n>>)
  BY <1>2, <1>3, SealShape
<1>6. /\ a[1] = Sync0 /\ a[2] = Sync1 /\ a[3] = <<m>>
      /\ b[1] = Sync0 /\ b[2] = Sync1 /\ b[3] = <<n>>
  BY <1>1, <1>2, BodyShape
<1>7. Sync0[1] = 10 /\ <<m>>[1] = m /\ <<n>>[1] = n
  BY DEF Sync0
<1>8. g = h
  <2>1. ~ (g = Daemon /\ h # Daemon)
    BY <1>4, <1>5, <1>7
  <2>2. ~ (g # Daemon /\ h = Daemon)
    BY <1>4, <1>5, <1>7
  <2>3. QED  BY <2>1, <2>2 DEF Codecs
<1>9. g.crcFrom \in {1, 3} /\ Len(a) = Len(b)
  <2>1. g.crcFrom \in {1, 3}
    BY CodecFacts
  <2>2. QED  BY <2>1, <1>4, <1>5, <1>8
<1>10. \A i \in g.crcFrom..Len(a) : a[i] = b[i]
  BY <1>4, <1>5, <1>8, <1>9
<1>11. \A i \in 1..Len(a) : a[i] = b[i]
  <2>1. ASSUME NEW i \in 1..Len(a) PROVE a[i] = b[i]
    <3>1. CASE i \in g.crcFrom..Len(a)
      BY <3>1, <1>10
    <3>2. CASE i = 1 \/ i = 2
      BY <3>2, <1>6
    <3>3. i \in g.crcFrom..Len(a) \/ i = 1 \/ i = 2
      BY <1>4, <1>9
    <3>4. QED  BY <3>1, <3>2, <3>3
  <2>2. QED  BY <2>1
<1>12. a = b
  BY <1>4, <1>5, <1>9, <1>11, SeqEqual
<1>13. m = n
  BY <1>6, <1>7, <1>12
<1>14. QED  BY <1>1, <1>2, <1>8, <1>12, <1>13 DEF Encode

\* A CRC cell belongs to one message.
LEMMA SealedOnce ==
    ASSUME NEW m \in Nat, NEW n \in Nat, NEW c, Sealed(m, c), Sealed(n, c)
    PROVE  m = n
<1>1. PICK g \in Codecs, p \in Seq(Byte) : m > Sync0[1] /\ c = Crc(g, Body(m, p))
  BY DEF Sealed
<1>2. PICK h \in Codecs, q \in Seq(Byte) : n > Sync0[1] /\ c = Crc(h, Body(n, q))
  BY DEF Sealed
<1>3. n # Sync0[1]
  BY <1>2 DEF Sync0
<1>4. Crc(g, Body(m, p)) = Crc(h, Body(n, q))
  BY <1>1, <1>2
<1>5. QED  BY <1>1, <1>3, <1>4, SealTells

\* It is no byte.
LEMMA SealIsLong ==
    ASSUME NEW n \in Nat, NEW c, Sealed(n, c)
    PROVE  c \in Seq(Byte) /\ Len(c) >= 2 /\ Len(c) # 1 /\ c \notin Byte
<1>1. PICK h \in Codecs, p \in Seq(Byte) : c = Crc(h, Body(n, p))
  BY DEF Sealed
<1>2. c \in Seq(Byte) /\ Len(c) >= 2
  BY <1>1, SealShape
<1>3. Len(c) # 1
  <2>1. \A l \in Nat : l >= 2 => l # 1
    OBVIOUS
  <2>2. Len(c) \in Nat
    BY <1>2, LenProperties
  <2>3. QED  BY <2>1, <2>2, <1>2, Zenon
<1>4. QED  BY <1>2, <1>3, CellFacts

\* A frame of a message ends with its seal.
LEMMA FrameIsSealed ==
    ASSUME NEW k \in Codecs, NEW n \in Nat, NEW f, IsFrame(k, n, f), n > Sync0[1]
    PROVE  Sealed(n, f[Len(f)])
<1>1. PICK p \in Seq(Byte) : f = Encode(k, n, p)
  BY DEF IsFrame
<1>2. PICK c : c = Body(n, p)
  OBVIOUS
<1>3. PICK z : z = Crc(k, c)
  OBVIOUS
<1>4. f = Append(c, z) /\ c \in Seq(Cell) /\ z \in Cell
  BY <1>1, <1>2, <1>3, SealShape, CellFacts, SeqMonotonic DEF Encode
<1>5. Len(f) = Len(c) + 1 /\ f[Len(c) + 1] = z
  BY <1>4, AppendProperties
<1>6. f[Len(f)] = Crc(k, Body(n, p))
  BY <1>2, <1>3, <1>5
<1>7. QED  BY <1>6 DEF Sealed

\* Two frames with the same CRC are one, unless an identity is a sync byte.
LEMMA SealedFrame ==
    ASSUME NEW k \in Codecs, NEW h \in Codecs, NEW m \in Nat, NEW n \in Nat,
           NEW e, NEW f, IsFrame(k, m, e), IsFrame(h, n, f),
           m > Sync0[1], n # Sync0[1], e[Len(e)] = f[Len(f)]
    PROVE  k = h /\ m = n /\ e = f
<1>1. PICK p \in Seq(Byte) : e = Encode(k, m, p)
  BY DEF IsFrame
<1>2. PICK q \in Seq(Byte) : f = Encode(h, n, q)
  BY DEF IsFrame
<1>3. ASSUME NEW j \in Codecs, NEW i \in Nat, NEW r \in Seq(Byte)
      PROVE  Encode(j, i, r)[Len(Encode(j, i, r))] = Crc(j, Body(i, r))
  <2>1. PICK c : c = Body(i, r)
    OBVIOUS
  <2>2. PICK z : z = Crc(j, c)
    OBVIOUS
  <2>3. Encode(j, i, r) = Append(c, z) /\ c \in Seq(Cell) /\ z \in Cell
    BY <2>1, <2>2, SealShape, CellFacts, SeqMonotonic DEF Encode
  <2>4. Len(Append(c, z)) = Len(c) + 1 /\ Append(c, z)[Len(c) + 1] = z
    BY <2>3, AppendProperties
  <2>5. QED  BY <2>1, <2>2, <2>3, <2>4
<1>4. Crc(k, Body(m, p)) = Crc(h, Body(n, q))
  BY <1>1, <1>2, <1>3
<1>5. QED  BY <1>1, <1>2, <1>4, SealTells

\* A frame with a message's CRC is that message, if it names no sync byte.
LEMMA FrameTells ==
    ASSUME NEW k \in Codecs, NEW v \in Nat, NEW f, IsFrame(k, v, f), v # Sync0[1],
           NEW n \in Nat, Sealed(n, f[Len(f)])
    PROVE  v = n
<1>1. PICK q \in Seq(Byte) : f = Encode(k, v, q)
  BY DEF IsFrame
<1>2. PICK g \in Codecs, p \in Seq(Byte) : n > Sync0[1] /\ f[Len(f)] = Crc(g, Body(n, p))
  BY DEF Sealed
<1>3. PICK c : c = Body(v, q)
  OBVIOUS
<1>4. PICK z : z = Crc(k, c)
  OBVIOUS
<1>5. f = Append(c, z) /\ c \in Seq(Cell) /\ z \in Cell
  BY <1>1, <1>3, <1>4, SealShape, CellFacts, SeqMonotonic DEF Encode
<1>6. Len(f) = Len(c) + 1 /\ f[Len(c) + 1] = z
  BY <1>5, AppendProperties
<1>7. Crc(g, Body(n, p)) = Crc(k, Body(v, q))
  BY <1>2, <1>3, <1>4, <1>6
<1>8. QED  BY <1>2, <1>7, SealTells

\* Where the callback was handed a message: a sync byte is none.
Told(D) == {i \in DOMAIN D : D[i] # Sync0[1]}

\* D was handed over, S is on the way, N was written last: D names messages in
\* order, the CRC cells of S are those of messages newer than these, in order
\* too, and every other cell is a byte.
InStep(N, D, S) ==
    /\ \A i \in Told(D) : D[i] \in Nat /\ D[i] > Sync0[1] /\ D[i] <= N
    /\ \A i, j \in Told(D) : i < j => D[i] < D[j]
    /\ \A i \in Told(D), x \in 1..Len(S), n \in Nat : Sealed(n, S[x]) => D[i] < n
    /\ \A x, y \in 1..Len(S), m, n \in Nat :
         x < y /\ Sealed(m, S[x]) /\ Sealed(n, S[y]) => m < n
    /\ \A x \in 1..Len(S), n \in Nat : Sealed(n, S[x]) => n <= N
    /\ \A x \in 1..Len(S) : S[x] \in Byte \/ \E n \in Nat : Sealed(n, S[x])

\* Cells that are taken off and tell nothing change nothing.
LEMMA InStepDropped ==
    ASSUME NEW N, NEW D, NEW S \in Seq(Cell), NEW n \in 0..Len(S),
           InStep(N, D, S)
    PROVE  InStep(N, D, DropFirst(S, n))
<1>1. PICK T : T = DropFirst(S, n)
  OBVIOUS
<1>2. /\ T \in Seq(Cell) /\ Len(T) = Len(S) - n /\ Len(S) \in Nat
      /\ \A i \in 1..Len(T) : T[i] = S[i + n] /\ i + n \in 1..Len(S)
  <2>1. /\ T \in Seq(Cell) /\ Len(T) = Len(S) - n
        /\ \A i \in 1..(Len(S) - n) : T[i] = S[i + n]
    BY <1>1, Dropped
  <2>2. Len(S) \in Nat
    OBVIOUS
  <2>3. QED  BY <2>1, <2>2
<1>3. /\ \A i \in Told(D) : D[i] \in Nat /\ D[i] > Sync0[1] /\ D[i] <= N
      /\ \A i, j \in Told(D) : i < j => D[i] < D[j]
  BY DEF InStep
<1>4. \A i \in Told(D), x \in 1..Len(T), m \in Nat : Sealed(m, T[x]) => D[i] < m
  BY <1>2 DEF InStep
<1>5. ASSUME NEW x \in 1..Len(T), NEW y \in 1..Len(T), NEW m \in Nat, NEW l \in Nat,
             x < y, Sealed(m, T[x]), Sealed(l, T[y])
      PROVE  m < l
  <2>1. x + n < y + n /\ Sealed(m, S[x + n]) /\ Sealed(l, S[y + n])
    BY <1>2, <1>5
  <2>2. QED  BY <2>1, <1>2 DEF InStep
<1>6. \A x \in 1..Len(T) : T[x] \in Byte \/ \E m \in Nat : Sealed(m, T[x])
  BY <1>2 DEF InStep
<1>7. \A x \in 1..Len(T), m \in Nat : Sealed(m, T[x]) => m <= N
  BY <1>2 DEF InStep
<1>8. InStep(N, D, T)
  BY <1>3, <1>4, <1>5, <1>6, <1>7 DEF InStep
<1>9. QED  BY <1>1, <1>8

\* Handing over a frame of the reader's coding and taking it off, with what
\* lies before it, keeps them in step.
LEMMA InStepTells ==
    ASSUME NEW k \in Codecs, NEW N, NEW D \in Seq(Values), NEW S \in Seq(Cell),
           InStep(N, D, S), NEW v \in Nat, NEW f, IsFrame(k, v, f), At(f, S, 0)
    PROVE  InStep(N, Append(D, v), DropFirst(S, Len(f)))
<1>1. PICK E : E = Append(D, v)
  OBVIOUS
<1>2. PICK l \in Nat : l = Len(f)
  BY FrameShape
<1>3. PICK T : T = DropFirst(S, l)
  OBVIOUS
<1>4. Len(S) \in Nat /\ l >= 1 /\ l \in 0..Len(S) /\ l \in 1..Len(S) /\ S[l] = f[l]
  <2>1. l >= 1
    BY <1>2, FrameShape
  <2>2. Len(S) \in Nat /\ 0 \in 0..(Len(S) - l) /\ \A q \in 1..l : S[0 + q] = f[q]
    BY <1>2 DEF At
  <2>3. l \in 1..l /\ l \in 0..Len(S) /\ l \in 1..Len(S) /\ 0 + l = l
    BY <2>1, <2>2
  <2>4. QED  BY <2>1, <2>2, <2>3
<1>5. /\ Len(T) = Len(S) - l
      /\ \A i \in 1..Len(T) : T[i] = S[i + l] /\ i + l \in 1..Len(S) /\ l < i + l
  <2>1. /\ Len(T) = Len(S) - l
        /\ \A i \in 1..(Len(S) - l) : T[i] = S[i + l]
    BY <1>3, <1>4, Dropped
  <2>2. QED  BY <2>1, <1>4
<1>6. InStep(N, D, T)
  BY <1>3, <1>4, InStepDropped
<1>7. Len(D) \in Nat /\ DOMAIN D = 1..Len(D) /\ DOMAIN E = 1..(Len(D) + 1)
      /\ E[Len(D) + 1] = v /\ \A i \in 1..Len(D) : E[i] = D[i]
  <2>1. v \in Values
    BY DEF Values
  <2>2. Len(D) \in Nat /\ DOMAIN D = 1..Len(D)
    BY LenProperties
  <2>3. /\ E \in Seq(Values) /\ Len(E) = Len(D) + 1
        /\ E[Len(D) + 1] = v /\ \A i \in 1..Len(D) : E[i] = D[i]
    BY <1>1, <2>1, AppendProperties
  <2>4. DOMAIN E = 1..(Len(D) + 1)
    BY <2>3, LenProperties
  <2>5. QED  BY <2>2, <2>3, <2>4
<1>8. CASE v = Sync0[1]
  <2>1. Told(E) = Told(D) /\ \A i \in Told(D) : E[i] = D[i]
    BY <1>7, <1>8 DEF Told
  <2>2. InStep(N, E, T)
    BY <1>6, <2>1 DEF InStep
  <2>3. QED  BY <2>2, <1>1, <1>2, <1>3
<1>9. CASE v # Sync0[1]
  <2>1. v > Sync0[1] /\ Sealed(v, S[l])
    <3>1. Len(f[Len(f)]) >= 2
      BY FrameShape
    <3>2. f[Len(f)] \notin Byte
      <4>1. \A z \in Byte : Len(z) = 1
        BY CellFacts
      <4>2. ~ (1 >= 2)
        OBVIOUS
      <4>3. QED  BY <3>1, <4>1, <4>2
    <3>3. PICK n \in Nat : Sealed(n, f[Len(f)])
      BY <3>2, <1>2, <1>4 DEF InStep
    <3>4. v = n
      BY <3>3, <1>9, FrameTells
    <3>5. Sealed(v, S[l])
      BY <3>3, <3>4, <1>2, <1>4
    <3>6. QED  BY <3>5 DEF Sealed
  <2>2. ASSUME NEW i \in Told(E)
        PROVE  \/ i \in Told(D) /\ i \in 1..Len(D) /\ E[i] = D[i]
               \/ i = Len(D) + 1 /\ E[i] = v
    <3>1. i \in 1..(Len(D) + 1) /\ E[i] # Sync0[1]
      BY <1>7 DEF Told
    <3>2. i \in 1..Len(D) \/ i = Len(D) + 1
      BY <3>1, <1>7
    <3>3. CASE i \in 1..Len(D)
      <4>1. E[i] = D[i] /\ i \in DOMAIN D
        BY <3>3, <1>7
      <4>2. QED  BY <4>1, <3>1, <3>3 DEF Told
    <3>4. CASE i = Len(D) + 1
      BY <3>4, <1>7
    <3>5. QED  BY <3>2, <3>3, <3>4
  <2>3. \A i \in Told(D) : D[i] < v
    BY <2>1, <1>4 DEF InStep
  <2>4. \A x \in 1..Len(T), n \in Nat : Sealed(n, T[x]) => v < n
    BY <2>1, <1>4, <1>5 DEF InStep
  <2>5. \A i \in Told(E) : E[i] \in Nat /\ E[i] > Sync0[1] /\ E[i] <= N
    <3>1. v <= N
      BY <2>1, <1>4 DEF InStep
    <3>2. QED  BY <3>1, <2>1, <2>2 DEF InStep
  <2>6. ASSUME NEW i \in Told(E), NEW j \in Told(E), i < j PROVE E[i] < E[j]
    <3>1. i \in Told(D) /\ i \in 1..Len(D) /\ E[i] = D[i]
      <4>1. CASE i = Len(D) + 1
        <5>1. j \in 1..(Len(D) + 1)
          BY <1>7 DEF Told
        <5>2. QED  BY <5>1, <4>1, <2>6, <1>7
      <4>2. QED  BY <4>1, <2>2
    <3>2. CASE j \in Told(D) /\ E[j] = D[j]
      BY <3>1, <3>2, <2>6 DEF InStep
    <3>3. CASE E[j] = v
      BY <3>1, <3>3, <2>3
    <3>4. QED  BY <3>2, <3>3, <2>2
  <2>7. \A i \in Told(E), x \in 1..Len(T), n \in Nat : Sealed(n, T[x]) => E[i] < n
    BY <2>2, <2>4, <1>6 DEF InStep
  <2>8. InStep(N, E, T)
    BY <2>5, <2>6, <2>7, <1>6 DEF InStep
  <2>9. QED  BY <2>8, <1>1, <1>2, <1>3
<1>10. QED  BY <1>8, <1>9

\* What a codec accepts is a frame of its own coding.
LEMMA ValidIsFrame ==
    ASSUME NEW k \in Codecs, NEW b \in Seq(Cell), NEW w \in Seq(Cell),
           b[1] = Sync0, b[2] = Sync1, Valid(k, b), Total(b) \in 5..Len(b)
    PROVE  \E f : /\ b[3][1] \in Nat /\ IsFrame(k, b[3][1], f)
                  /\ Len(f) = Total(b) /\ At(f, b \o w, 0)
<1>1. PICK t \in Nat : t = Total(b)
  OBVIOUS
<1>2. t \in 5..Len(b) /\ Len(b) \in Nat /\ k.crcFrom \in {1, 3} /\ t - 1 \in 4..Len(b)
  <2>1. Len(b) \in Nat /\ k.crcFrom \in {1, 3}
    BY CodecFacts
  <2>2. QED  BY <1>1, <2>1
<1>3. ASSUME NEW i \in 1..(t - 1) PROVE b[i] \in Byte
  <2>1. \A j \in k.crcFrom..(t - 1) : b[j] \in Byte
    BY <1>1, ValidShape
  <2>2. i \in k.crcFrom..(t - 1) \/ i = 1 \/ i = 2
    BY <1>2
  <2>3. QED  BY <2>1, <2>2, CellFacts
<1>4. PICK v \in Nat : v = b[3][1] /\ b[3] = <<v>>
  <2>1. b[3] \in Byte
    BY <1>2, <1>3
  <2>2. QED  BY <2>1, ByteHolds
<1>5. PICK c : c = SubSeq(b, 1, t - 1)
  OBVIOUS
<1>6. c \in Seq(Byte) /\ Len(c) = t - 1 /\ \A i \in 1..(t - 1) : c[i] = b[i]
  <2>1. 1 \in Int /\ t - 1 \in Int /\ \A i \in 1..(t - 1) : b[i] \in Byte
    BY <1>2, <1>3
  <2>2. /\ c \in Seq(Byte)
        /\ Len(c) = IF 1 <= t - 1 THEN (t - 1) - 1 + 1 ELSE 0
        /\ \A i \in 1..((t - 1) - 1 + 1) : c[i] = b[1 + i - 1]
    BY <1>5, <2>1, SubSeqProperties
  <2>3. 1 <= t - 1 /\ (t - 1) - 1 + 1 = t - 1 /\ \A i \in 1..(t - 1) : 1 + i - 1 = i
    BY <1>2
  <2>4. QED  BY <2>2, <2>3
<1>7. PICK p : p = SubSeq(b, 5, t - 1)
  OBVIOUS
<1>8. p \in Seq(Byte) /\ Len(p) = t - 5 /\ \A i \in 1..(t - 5) : p[i] = b[i + 4]
  <2>1. 5 \in Int /\ t - 1 \in Int /\ \A i \in 5..(t - 1) : b[i] \in Byte
    BY <1>2, <1>3
  <2>2. /\ p \in Seq(Byte)
        /\ Len(p) = IF 5 <= t - 1 THEN (t - 1) - 5 + 1 ELSE 0
        /\ \A i \in 1..((t - 1) - 5 + 1) : p[i] = b[5 + i - 1]
    BY <1>7, <2>1, SubSeqProperties
  <2>3. (t - 1) - 5 + 1 = t - 5 /\ \A i \in 1..(t - 5) : 5 + i - 1 = i + 4
    BY <1>2
  <2>4. (IF 5 <= t - 1 THEN t - 5 ELSE 0) = t - 5
    BY <1>2
  <2>5. QED  BY <2>2, <2>3, <2>4
<1>9. b[4] = <<Len(p)>> /\ Len(p) <= MaxPayload
  <2>1. b[4] \in Byte /\ b[4] = <<b[4][1]>> /\ b[4][1] \in Nat
    <3>1. b[4] \in Byte
      BY <1>2, <1>3
    <3>2. QED  BY <3>1, ByteHolds
  <2>2. Len(b[4]) = 1
    BY <2>1, CellFacts
  <2>3. Claimed(b) = b[4][1]
    BY <2>2 DEF Claimed, HeaderTot
  <2>4. t = 4 + b[4][1] + 1
    BY <1>1, <2>3 DEF Total, HeaderTot, CrcSz
  <2>5. b[4][1] = t - 5
    BY <2>1, <2>4, <1>2
  <2>6. b[4][1] <= MaxPayload
    BY <2>3 DEF Valid
  <2>7. QED  BY <2>1, <2>5, <2>6, <1>8
<1>10. c = Body(v, p)
  <2>1. PICK h : h = <<Sync0, Sync1, <<v>>, <<Len(p)>>>>
    OBVIOUS
  <2>2. /\ h \in Seq(Byte) /\ Len(h) = 4
        /\ h[1] = Sync0 /\ h[2] = Sync1 /\ h[3] = <<v>> /\ h[4] = <<Len(p)>>
    <3>1. Len(p) \in Nat
      BY <1>8
    <3>2. Sync0 \in Byte /\ Sync1 \in Byte /\ <<v>> \in Byte /\ <<Len(p)>> \in Byte
      BY <3>1, CellFacts
    <3>3. QED  BY <2>1, <3>2
  <2>3. /\ h \o p \in Seq(Byte) /\ Len(h \o p) = t - 1
        /\ \A i \in 1..(t - 1) : (h \o p)[i] = IF i <= 4 THEN h[i] ELSE p[i - 4]
    <3>1. /\ h \o p \in Seq(Byte) /\ Len(h \o p) = Len(h) + Len(p)
          /\ \A i \in 1..(Len(h) + Len(p)) :
               (h \o p)[i] = IF i <= Len(h) THEN h[i] ELSE p[i - Len(h)]
      <4>1. h \in Seq(Byte) /\ p \in Seq(Byte)
        BY <2>2, <1>8
      <4>2. QED  BY <4>1, ConcatProperties
    <3>2. Len(h) + Len(p) = t - 1
      BY <1>2, <1>8, <2>2
    <3>3. QED  BY <2>2, <3>1, <3>2
  <2>4. ASSUME NEW i \in 1..(t - 1) PROVE c[i] = (h \o p)[i]
    <3>1. CASE i <= 4
      <4>1. i = 1 \/ i = 2 \/ i = 3 \/ i = 4
        BY <3>1
      <4>2. (h \o p)[i] = h[i] /\ c[i] = b[i]
        BY <2>3, <3>1, <1>6
      <4>3. h[i] = b[i]
        BY <4>1, <2>2, <1>4, <1>9
      <4>4. QED  BY <4>2, <4>3
    <3>2. CASE ~ (i <= 4)
      <4>1. i - 4 \in 1..(t - 5) /\ (i - 4) + 4 = i
        BY <3>2, <1>2
      <4>2. p[i - 4] = b[i]
        BY <4>1, <1>8
      <4>3. (h \o p)[i] = p[i - 4] /\ c[i] = b[i]
        BY <2>3, <3>2, <1>6
      <4>4. QED  BY <4>2, <4>3
    <3>3. QED  BY <3>1, <3>2
  <2>5. c = h \o p
    <3>1. Len(c) = Len(h \o p) /\ \A i \in 1..Len(c) : c[i] = (h \o p)[i]
      BY <1>6, <2>3, <2>4
    <3>2. QED  BY <3>1, <1>6, <2>3, SeqEqual
  <2>6. QED  BY <2>1, <2>5 DEF Body
<1>11. PICK f : f = Encode(k, v, p)
  OBVIOUS
<1>12. IsFrame(k, v, f)
  BY <1>8, <1>9, <1>11 DEF IsFrame
<1>13. PICK z : z = Crc(k, c)
  OBVIOUS
<1>14. f = Append(c, z) /\ c \in Seq(Cell) /\ z \in Cell /\ b[t] = z
  <2>1. f = Append(c, z)
    BY <1>10, <1>11, <1>13 DEF Encode
  <2>2. c \in Seq(Cell)
    BY <1>6, CellFacts, SeqMonotonic
  <2>3. b[t] = z
    BY <1>1, <1>5, <1>13 DEF Valid
  <2>4. t \in 1..Len(b)
    BY <1>2
  <2>5. QED  BY <2>1, <2>2, <2>3, <2>4, ElementOfSeq
<1>15. Len(f) = t /\ f[t] = b[t] /\ \A i \in 1..(t - 1) : f[i] = b[i]
  <2>1. /\ Len(f) = Len(c) + 1 /\ f[Len(c) + 1] = z
        /\ \A i \in 1..Len(c) : f[i] = c[i]
    BY <1>14, AppendProperties
  <2>2. Len(c) + 1 = t
    BY <1>2, <1>6
  <2>3. QED  BY <2>1, <2>2, <1>6, <1>14
<1>16. At(f, b \o w, 0)
  <2>1. /\ Len(b \o w) = Len(b) + Len(w) /\ Len(w) \in Nat
        /\ \A i \in 1..(Len(b) + Len(w)) : (b \o w)[i] = IF i <= Len(b) THEN b[i] ELSE w[i - Len(b)]
    BY ConcatProperties
  <2>2. ASSUME NEW q \in 1..t PROVE (b \o w)[0 + q] = f[q]
    <3>1. q \in 1..(Len(b) + Len(w)) /\ q <= Len(b) /\ 0 + q = q
      BY <1>2, <2>1
    <3>2. (b \o w)[q] = b[q]
      BY <2>1, <3>1
    <3>3. q \in 1..(t - 1) \/ q = t
      BY <1>2
    <3>4. QED  BY <3>1, <3>2, <3>3, <1>15
  <2>3. 0 \in 0..(Len(b \o w) - t)
    BY <1>2, <2>1
  <2>4. QED  BY <2>2, <2>3, <1>15 DEF At
<1>17. QED  BY <1>1, <1>4, <1>12, <1>15, <1>16

\* Cells taken off the front of b are taken off the front of b \o w.
LEMMA DropJoined ==
    ASSUME NEW b \in Seq(Cell), NEW w \in Seq(Cell), NEW n \in 0..Len(b)
    PROVE  DropFirst(b, n) \o w = DropFirst(b \o w, n) /\ n \in 0..Len(b \o w)
<1>1. PICK d : d = DropFirst(b, n)
  OBVIOUS
<1>2. PICK s : s = b \o w
  OBVIOUS
<1>3. /\ d \in Seq(Cell) /\ Len(d) = Len(b) - n
      /\ \A i \in 1..(Len(b) - n) : d[i] = b[i + n]
  BY <1>1, Dropped
<1>4. /\ s \in Seq(Cell) /\ Len(s) = Len(b) + Len(w)
      /\ \A i \in 1..(Len(b) + Len(w)) : s[i] = IF i <= Len(b) THEN b[i] ELSE w[i - Len(b)]
  BY <1>2, ConcatProperties
<1>5. Len(b) \in Nat /\ Len(w) \in Nat /\ n \in 0..Len(s)
  <2>1. Len(b) \in Nat /\ Len(w) \in Nat
    OBVIOUS
  <2>2. QED  BY <2>1, <1>4
<1>6. PICK e : e = DropFirst(s, n)
  OBVIOUS
<1>7. /\ e \in Seq(Cell) /\ Len(e) = Len(s) - n
      /\ \A i \in 1..(Len(s) - n) : e[i] = s[i + n]
  BY <1>4, <1>5, <1>6, Dropped
<1>8. /\ d \o w \in Seq(Cell) /\ Len(d \o w) = Len(d) + Len(w)
      /\ \A i \in 1..(Len(d) + Len(w)) : (d \o w)[i] = IF i <= Len(d) THEN d[i] ELSE w[i - Len(d)]
  BY <1>3, ConcatProperties
<1>9. Len(d \o w) = Len(e) /\ Len(e) = (Len(b) - n) + Len(w)
  BY <1>3, <1>4, <1>5, <1>7, <1>8
<1>10. ASSUME NEW i \in 1..Len(e) PROVE (d \o w)[i] = e[i]
  <2>1. /\ i \in 1..(Len(d) + Len(w)) /\ i \in 1..(Len(s) - n)
        /\ i + n \in 1..(Len(b) + Len(w))
    BY <1>3, <1>4, <1>5, <1>7, <1>9
  <2>2. e[i] = s[i + n]
    BY <2>1, <1>7
  <2>3. CASE i <= Len(d)
    <3>1. i \in 1..(Len(b) - n) /\ i + n <= Len(b)
      BY <2>1, <2>3, <1>3, <1>5
    <3>2. (d \o w)[i] = d[i] /\ s[i + n] = b[i + n]
      BY <2>1, <2>3, <3>1, <1>4, <1>8
    <3>3. QED  BY <2>2, <3>1, <3>2, <1>3
  <2>4. CASE ~ (i <= Len(d))
    <3>1. ~ (i + n <= Len(b)) /\ (i + n) - Len(b) = i - Len(d)
      BY <2>1, <2>4, <1>3, <1>5
    <3>2. (d \o w)[i] = w[i - Len(d)] /\ s[i + n] = w[(i + n) - Len(b)]
      BY <2>1, <2>4, <3>1, <1>4, <1>8
    <3>3. QED  BY <2>2, <3>1, <3>2
  <2>5. QED  BY <2>3, <2>4
<1>11. d \o w = e
  BY <1>7, <1>8, <1>9, <1>10, SeqEqual
<1>12. QED  BY <1>1, <1>2, <1>5, <1>6, <1>11

\* Taking cells off twice is taking off their sum.
LEMMA DropTwice ==
    ASSUME NEW s \in Seq(Cell), NEW m \in 0..Len(s), NEW n \in 0..(Len(s) - m)
    PROVE  DropFirst(DropFirst(s, m), n) = DropFirst(s, m + n) /\ m + n \in 0..Len(s)
<1>1. PICK d : d = DropFirst(s, m)
  OBVIOUS
<1>2. /\ d \in Seq(Cell) /\ Len(d) = Len(s) - m
      /\ \A i \in 1..(Len(s) - m) : d[i] = s[i + m]
  BY <1>1, Dropped
<1>3. Len(s) \in Nat /\ m + n \in 0..Len(s) /\ n \in 0..Len(d)
  <2>1. Len(s) \in Nat
    OBVIOUS
  <2>2. QED  BY <2>1, <1>2
<1>4. PICK e : e = DropFirst(d, n)
  OBVIOUS
<1>5. /\ e \in Seq(Cell) /\ Len(e) = Len(d) - n
      /\ \A i \in 1..(Len(d) - n) : e[i] = d[i + n]
  BY <1>2, <1>3, <1>4, Dropped
<1>6. PICK l : l = m + n
  OBVIOUS
<1>7. PICK g : g = DropFirst(s, l)
  OBVIOUS
<1>8. /\ g \in Seq(Cell) /\ Len(g) = Len(s) - l
      /\ \A i \in 1..(Len(s) - l) : g[i] = s[i + l]
  BY <1>3, <1>6, <1>7, Dropped
<1>9. Len(e) = Len(g) /\ Len(e) = Len(s) - l
  BY <1>2, <1>3, <1>5, <1>6, <1>8
<1>10. ASSUME NEW i \in 1..Len(e) PROVE e[i] = g[i]
  <2>1. /\ i \in 1..(Len(d) - n) /\ i + n \in 1..(Len(s) - m) /\ i \in 1..(Len(s) - l)
        /\ (i + n) + m = i + l
    BY <1>2, <1>3, <1>5, <1>6, <1>9
  <2>2. e[i] = d[i + n] /\ d[i + n] = s[(i + n) + m] /\ g[i] = s[i + l]
    BY <2>1, <1>2, <1>5, <1>8
  <2>3. QED  BY <2>1, <2>2
<1>11. e = g
  BY <1>5, <1>8, <1>9, <1>10, SeqEqual
<1>12. QED  BY <1>1, <1>3, <1>4, <1>6, <1>7, <1>11

\* A round of try_parse() takes cells off the front, and what it hands over is
\* in step with what it leaves.
LEMMA RoundInStep ==
    ASSUME NEW k \in Codecs, NEW N, NEW D \in Seq(Values), NEW s \in States,
           NEW w \in Seq(Cell), InStep(N, D \o s.got, s.rest \o w)
    PROVE  /\ \E m \in 0..Len(s.rest) : TryParse(k, s).rest = DropFirst(s.rest, m)
           /\ InStep(N, D \o TryParse(k, s).got, TryParse(k, s).rest \o w)
<1> DEFINE t == TryParse(k, s)
<1>1. /\ s.rest \in Seq(Cell) /\ s.got \in Seq(Values) /\ Len(s.rest) \in Nat
      /\ s.rest \o w \in Seq(Cell)
  BY ConcatProperties DEF States
<1>2. PICK m \in 0..Len(s.rest) : \E b \in Seq(Cell) :
             /\ b = DropFirst(s.rest, m) /\ Len(b) = Len(s.rest) - m
             /\ \/ t = [rest |-> b, got |-> s.got]
                \/ /\ Len(b) >= k.need
                   /\ b[1] = Sync0 /\ b[2] = Sync1
                   /\ \/ /\ Valid(k, b) /\ Total(b) \in 5..Len(b)
                         /\ t = [rest |-> DropFirst(b, Total(b)),
                                 got |-> Append(s.got, b[3][1])]
                      \/ t = [rest |-> DropFirst(b, k.skip), got |-> s.got]
  BY RoundCases
<1>3. PICK b \in Seq(Cell) :
             /\ b = DropFirst(s.rest, m) /\ Len(b) = Len(s.rest) - m
             /\ \/ t = [rest |-> b, got |-> s.got]
                \/ /\ Len(b) >= k.need
                   /\ b[1] = Sync0 /\ b[2] = Sync1
                   /\ \/ /\ Valid(k, b) /\ Total(b) \in 5..Len(b)
                         /\ t = [rest |-> DropFirst(b, Total(b)),
                                 got |-> Append(s.got, b[3][1])]
                      \/ t = [rest |-> DropFirst(b, k.skip), got |-> s.got]
  BY <1>2
<1> HIDE DEF t
<1>4. PICK E \in Seq(Values) : E = D \o s.got
  BY <1>1, ConcatProperties
<1>5. b \o w \in Seq(Cell) /\ InStep(N, E, b \o w)
  <2>1. PICK S \in Seq(Cell) : S = s.rest \o w
    BY <1>1
  <2>2. InStep(N, E, S)
    BY <1>4, <2>1
  <2>3. b \o w = DropFirst(S, m) /\ m \in 0..Len(S)
    BY <1>1, <1>3, <2>1, DropJoined
  <2>4. InStep(N, E, DropFirst(S, m))
    BY <2>2, <2>3, InStepDropped
  <2>5. QED  BY <2>3, <2>4, ConcatProperties
<1>6. ASSUME NEW n \in 0..Len(b), NEW r, r = DropFirst(b, n)
      PROVE  /\ \E x \in 0..Len(s.rest) : r = DropFirst(s.rest, x)
             /\ r \o w = DropFirst(b \o w, n) /\ n \in 0..Len(b \o w)
  <2>1. n \in 0..(Len(s.rest) - m)
    BY <1>3, <1>6
  <2>2. DropFirst(DropFirst(s.rest, m), n) = DropFirst(s.rest, m + n) /\ m + n \in 0..Len(s.rest)
    BY <2>1, <1>1, DropTwice
  <2>3. r = DropFirst(s.rest, m + n)
    BY <2>2, <1>3, <1>6
  <2>4. QED  BY <2>2, <2>3, <1>6, DropJoined
<1>7. CASE t = [rest |-> b, got |-> s.got]
  <2>1. t.rest = b /\ t.got = s.got
    BY <1>7
  <2>2. \E x \in 0..Len(s.rest) : t.rest = DropFirst(s.rest, x)
    BY <2>1, <1>3
  <2>3. QED  BY <2>1, <2>2, <1>4, <1>5 DEF t
<1>8. CASE Len(b) >= k.need /\ t = [rest |-> DropFirst(b, k.skip), got |-> s.got]
  <2>1. t.rest = DropFirst(b, k.skip) /\ t.got = s.got
    BY <1>8
  <2>2. k.skip \in 0..Len(b)
    <3>1. k.need \in {4, 5} /\ k.skip \in {1, 2} /\ Len(b) \in Nat
      BY CodecFacts
    <3>2. QED  BY <3>1, <1>8
  <2>3. PICK S \in Seq(Cell) : S = b \o w
    BY <1>5
  <2>4. /\ \E x \in 0..Len(s.rest) : t.rest = DropFirst(s.rest, x)
        /\ t.rest \o w = DropFirst(S, k.skip) /\ k.skip \in 0..Len(S)
    BY <2>1, <2>2, <2>3, <1>6
  <2>5. InStep(N, E, S)
    BY <2>3, <1>5
  <2>6. InStep(N, E, DropFirst(S, k.skip))
    BY <2>4, <2>5, InStepDropped
  <2>7. QED  BY <2>1, <2>4, <2>6, <1>4 DEF t
<1>9. CASE /\ b[1] = Sync0 /\ b[2] = Sync1 /\ Valid(k, b) /\ Total(b) \in 5..Len(b)
           /\ t = [rest |-> DropFirst(b, Total(b)), got |-> Append(s.got, b[3][1])]
  <2>1. PICK f : /\ b[3][1] \in Nat /\ IsFrame(k, b[3][1], f)
                 /\ Len(f) = Total(b) /\ At(f, b \o w, 0)
    BY <1>9, ValidIsFrame
  <2>2. PICK v \in Nat : v = b[3][1]
    BY <2>1
  <2>3. PICK l : l = Len(f)
    OBVIOUS
  <2>4. t.rest = DropFirst(b, l) /\ t.got = Append(s.got, v) /\ l \in 0..Len(b)
    BY <1>9, <2>1, <2>2, <2>3
  <2>5. PICK S \in Seq(Cell) : S = b \o w
    BY <1>5
  <2>6. /\ \E x \in 0..Len(s.rest) : t.rest = DropFirst(s.rest, x)
        /\ t.rest \o w = DropFirst(S, l) /\ l \in 0..Len(S)
    BY <2>4, <2>5, <1>6
  <2>7. InStep(N, E, S) /\ IsFrame(k, v, f) /\ At(f, S, 0)
    BY <2>1, <2>2, <2>5, <1>5
  <2>8. InStep(N, Append(E, v), DropFirst(S, l))
    BY <2>3, <2>7, InStepTells
  <2>9. Append(E, v) = D \o t.got
    <3>1. v \in Values
      BY DEF Values
    <3>2. PICK g \in Seq(Values) : g = s.got
      BY <1>1
    <3>3. Append(D \o g, v) = D \o Append(g, v)
      <4>1. PICK e \in Seq(Values) : e = <<v>>
        <5>1. <<v>> \in Seq(Values)
          BY <3>1
        <5>2. QED  BY <5>1
      <4>2. D \o g \in Seq(Values)
        BY ConcatProperties
      <4>3. Append(D \o g, v) = (D \o g) \o e /\ Append(g, v) = g \o e
        BY <3>1, <4>1, <4>2, AppendIsConcat
      <4>4. (D \o g) \o e = D \o (g \o e)
        BY ConcatAssociative
      <4>5. QED  BY <4>3, <4>4
    <3>4. QED  BY <3>2, <3>3, <1>4, <2>4
  <2>10. QED  BY <2>6, <2>8, <2>9 DEF t
<1>10. QED  BY <1>3, <1>7, <1>8, <1>9

\* So does the whole while (try_parse(cb)) {}.
LEMMA ParsedInStep ==
    ASSUME NEW k \in Codecs, NEW N, NEW D \in Seq(Values), NEW b \in Seq(Cell),
           NEW w \in Seq(Cell), InStep(N, D, b \o w)
    PROVE  /\ \E m \in 0..Len(b) : Parsed(k, b).rest = DropFirst(b, m)
           /\ InStep(N, D \o Parsed(k, b).got, Parsed(k, b).rest \o w)
<1> DEFINE n == Len(b) + 1
<1>1. PICK r : /\ Chain(k, [rest |-> b, got |-> <<>>], n, r)
               /\ Parsed(k, b) = r[n]
  BY ParsedByRounds
<1>2. n \in Nat /\ n \in 0..n /\ Len(b) \in Nat
  OBVIOUS
<1>3. \A i \in 0..n : r[i] \in States
  BY <1>1, ChainTypes
<1> DEFINE P(i) == /\ \E m \in 0..Len(b) : r[i].rest = DropFirst(b, m)
                   /\ InStep(N, D \o r[i].got, r[i].rest \o w)
           A == {i \in Nat : i <= n => P(i)}
<1>4. 0 \in A
  <2>1. r[0] = [rest |-> b, got |-> <<>>]
    BY <1>1 DEF Chain
  <2>2. r[0].rest = b /\ r[0].got = <<>>
    BY <2>1
  <2>3. D \o <<>> = D
    BY ConcatEmptySeq
  <2>4. b = DropFirst(b, 0) /\ 0 \in 0..Len(b)
    BY <1>2, SubSeqFull DEF DropFirst
  <2>5. P(0)
    BY <2>2, <2>3, <2>4
  <2>6. QED  BY <2>5
<1>5. ASSUME NEW i \in A PROVE i + 1 \in A
  <2>1. i \in Nat /\ i + 1 \in Nat
    OBVIOUS
  <2>2. ASSUME i + 1 <= n PROVE P(i + 1)
    <3>1. i \in 0..(n - 1) /\ i <= n /\ i \in 0..n
      BY <1>2, <2>1, <2>2
    <3>2. P(i)
      BY <3>1
    <3>3. PICK s \in States : s = r[i] /\ r[i + 1] = TryParse(k, s)
      BY <3>1, <1>1, <1>3 DEF Chain
    <3>4. InStep(N, D \o s.got, s.rest \o w)
      BY <3>2, <3>3
    <3>5. /\ \E m \in 0..Len(s.rest) : TryParse(k, s).rest = DropFirst(s.rest, m)
          /\ InStep(N, D \o TryParse(k, s).got, TryParse(k, s).rest \o w)
      BY <3>4, RoundInStep
    <3>6. PICK z \in 0..Len(b) : s.rest = DropFirst(b, z)
      BY <3>2, <3>3
    <3>7. Len(s.rest) = Len(b) - z
      BY <3>6, Dropped
    <3>8. PICK l \in 0..Len(s.rest) : TryParse(k, s).rest = DropFirst(s.rest, l)
      BY <3>5
    <3>9. TryParse(k, s).rest = DropFirst(b, z + l) /\ z + l \in 0..Len(b)
      <4>1. l \in 0..(Len(b) - z)
        BY <3>7
      <4>2. DropFirst(DropFirst(b, z), l) = DropFirst(b, z + l) /\ z + l \in 0..Len(b)
        BY <4>1, DropTwice
      <4>3. QED  BY <4>2, <3>6, <3>8
    <3>10. QED  BY <3>3, <3>5, <3>9
  <2>3. QED
    <3> HIDE DEF P
    <3>1. QED  BY <2>1, <2>2
<1>6. A = Nat
  <2> HIDE DEF A
  <2>1. A \in SUBSET Nat  BY DEF A
  <2>2. QED  BY <1>4, <1>5, <2>1, EveryNumber
<1>7. P(n)
  <2> HIDE DEF P
  <2>1. QED  BY <1>2, <1>6
<1>8. QED  BY <1>1, <1>7
-----------------------------------------------------------------------------
(***************************************************************************)
(* Messages on the link.                                                   *)
(***************************************************************************)
\* What is written: a frame of message n, or one that the line damaged.
Comes(n, d) ==
    \A x \in 1..Len(d) : d[x] \in Byte \/ (x = Len(d) /\ Sealed(n, d[x]))

\* It keeps the link in step.
LEMMA InStepWritten ==
    ASSUME NEW N \in Nat, NEW n \in Nat, N < n, NEW d \in Seq(Cell), Comes(n, d),
           NEW D, NEW S \in Seq(Cell), InStep(N, D, S)
    PROVE  InStep(n, D, S \o d)
<1>1. PICK T : T = S \o d
  OBVIOUS
<1>2. PICK l \in Nat : l = Len(S)
  OBVIOUS
<1>3. PICK j \in Nat : j = Len(d)
  OBVIOUS
<1>4. /\ T \in Seq(Cell) /\ Len(T) = l + j
      /\ \A x \in 1..(l + j) : T[x] = IF x <= l THEN S[x] ELSE d[x - l]
  BY <1>1, <1>2, <1>3, ConcatProperties
<1>5. ASSUME NEW x \in 1..(l + j)
      PROVE  \/ x \in 1..l /\ T[x] = S[x]
             \/ T[x] \in Byte
             \/ x = l + j /\ x > l /\ Sealed(n, T[x])
  <2>1. CASE x <= l
    BY <2>1, <1>4
  <2>2. CASE ~ (x <= l)
    <3>1. x - l \in 1..j /\ T[x] = d[x - l]
      BY <2>2, <1>4
    <3>2. d[x - l] \in Byte \/ (x - l = j /\ Sealed(n, d[x - l]))
      BY <3>1, <1>3 DEF Comes
    <3>3. x - l = j => x = l + j
      OBVIOUS
    <3>4. QED  BY <2>2, <3>1, <3>2, <3>3
  <2>3. QED  BY <2>1, <2>2
<1>6. ASSUME NEW x \in 1..(l + j), NEW m \in Nat, Sealed(m, T[x])
      PROVE  \/ x \in 1..l /\ Sealed(m, S[x]) /\ m < n
             \/ x = l + j /\ x > l /\ m = n
  <2>1. T[x] \notin Byte
    BY <1>6, SealIsLong
  <2>2. CASE x \in 1..l /\ T[x] = S[x]
    <3>1. m <= N
      BY <2>2, <1>2, <1>6 DEF InStep
    <3>2. QED  BY <2>2, <3>1, <1>6
  <2>3. CASE x = l + j /\ x > l /\ Sealed(n, T[x])
    BY <2>3, <1>6, SealedOnce
  <2>4. QED  BY <2>1, <2>2, <2>3, <1>5
<1>7. /\ \A i \in Told(D) : D[i] \in Nat /\ D[i] > Sync0[1] /\ D[i] < n
      /\ \A i, y \in Told(D) : i < y => D[i] < D[y]
  <2>1. \A i \in Told(D) : D[i] \in Nat /\ D[i] > Sync0[1] /\ D[i] <= N
    BY DEF InStep
  <2>2. QED  BY <2>1 DEF InStep
<1>8. ASSUME NEW i \in Told(D), NEW x \in 1..(l + j), NEW m \in Nat, Sealed(m, T[x])
      PROVE  D[i] < m
  <2>1. CASE x \in 1..l /\ Sealed(m, S[x])
    BY <2>1, <1>2 DEF InStep
  <2>2. CASE m = n
    BY <2>2, <1>7
  <2>3. QED  BY <2>1, <2>2, <1>6, <1>8
<1>9. ASSUME NEW x \in 1..(l + j), NEW y \in 1..(l + j), NEW m \in Nat, NEW o \in Nat,
             x < y, Sealed(m, T[x]), Sealed(o, T[y])
      PROVE  m < o
  <2>1. x \in 1..l /\ Sealed(m, S[x]) /\ m < n
    <3>1. x # l + j
      BY <1>9
    <3>2. QED  BY <3>1, <1>6, <1>9
  <2>2. CASE y \in 1..l /\ Sealed(o, S[y])
    BY <2>1, <2>2, <1>2, <1>9 DEF InStep
  <2>3. CASE o = n
    BY <2>1, <2>3
  <2>4. QED  BY <2>2, <2>3, <1>6, <1>9
<1>10. ASSUME NEW x \in 1..(l + j), NEW m \in Nat, Sealed(m, T[x]) PROVE m <= n
  <2>1. m < n \/ m = n
    BY <1>6, <1>10
  <2>2. QED  BY <2>1
<1>11. ASSUME NEW x \in 1..(l + j) PROVE T[x] \in Byte \/ \E m \in Nat : Sealed(m, T[x])
  <2>1. CASE x \in 1..l /\ T[x] = S[x]
    BY <2>1, <1>2 DEF InStep
  <2>2. QED  BY <2>1, <1>5
<1>12. InStep(n, D, T)
  <2>1. \A i \in Told(D) : D[i] <= n
    BY <1>7
  <2>2. \A i \in Told(D), x \in 1..Len(T), m \in Nat : Sealed(m, T[x]) => D[i] < m
    BY <1>4, <1>8
  <2>3. \A x, y \in 1..Len(T), m, o \in Nat :
          x < y /\ Sealed(m, T[x]) /\ Sealed(o, T[y]) => m < o
    BY <1>4, <1>9
  <2>4. \A x \in 1..Len(T), m \in Nat : Sealed(m, T[x]) => m <= n
    BY <1>4, <1>10
  <2>5. \A x \in 1..Len(T) : T[x] \in Byte \/ \E m \in Nat : Sealed(m, T[x])
    BY <1>4, <1>11
  <2>6. QED  BY <2>1, <2>2, <2>3, <2>4, <2>5, <1>7 DEF InStep
<1>13. QED  BY <1>1, <1>12

\* What was handed over, what is on the way and what was written are in step.
OrderInv == InStep(Identity(written), delivered, buf \o wire)

\* Nothing was written when the programs start.
LEMMA OrderInit == Init => OrderInv
<1> SUFFICES ASSUME Init PROVE OrderInv
  OBVIOUS
<1>1. buf = <<>> /\ wire = <<>> /\ delivered = <<>>
  BY DEF Init
<1>2. PICK S : S = buf \o wire
  OBVIOUS
<1>3. 1..Len(S) = {}
  <2>1. S = <<>>
    BY <1>1, <1>2
  <2>2. QED  BY <2>1, EmptySeq
<1>4. Told(delivered) = {}
  BY <1>1 DEF Told
<1>5. QED  BY <1>2, <1>3, <1>4 DEF OrderInv, InStep

\* A write, damaged or not, brings at most the CRC of a new message.
LEMMA OrderWrite ==
    ASSUME LinkInv, OrderInv, Write
    PROVE  OrderInv'
<1>1. /\ written \in Nat /\ written' = written + 1 /\ written' \in Nat
      /\ UNCHANGED <<side, buf, delivered>>
      /\ buf \in Seq(Cell) /\ wire \in Seq(Cell)
  BY DEF LinkInv, LinkType, Write, config
<1>2. PICK N \in Nat : N = Identity(written)
  BY <1>1 DEF Identity, Sync0
<1>3. PICK n \in Nat : n = Identity(written') /\ n > Sync0[1] /\ N < n
  BY <1>1, <1>2 DEF Identity, Sync0
<1>4. PICK p \in Payloads, by \in Sides :
         \/ wire' = wire \o Encode(Codec(by), n, p)
         \/ \E d \in Damaged(Encode(Codec(by), n, p)) : wire' = wire \o d
  BY <1>3 DEF Write
<1>5. PICK f : f = Encode(Codec(by), n, p)
  OBVIOUS
<1>6. PICK h \in Codecs : h = Codec(by)
  BY CodecOf
<1>7. IsFrame(h, n, f)
  BY <1>5, <1>6, LinkSizes DEF IsFrame
<1>8. /\ f \in Seq(Cell) /\ Len(f) \in Nat /\ Sealed(n, f[Len(f)])
      /\ \A x \in 1..(Len(f) - 1) : f[x] \in Byte
  <2>1. f \in Seq(Cell) /\ Len(f) \in Nat
    BY <1>7, FrameShape
  <2>2. \A x \in 1..(Len(f) - 1) : f[x] \in Byte
    BY <1>7, FrameShape
  <2>3. Sealed(n, f[Len(f)])
    BY <1>3, <1>7, FrameIsSealed
  <2>4. QED  BY <2>1, <2>2, <2>3
<1>9. PICK d \in Seq(Cell) : wire' = wire \o d /\ Comes(n, d)
  <2>1. CASE wire' = wire \o f
    <3>1. \A x \in 1..Len(f) : x \in 1..(Len(f) - 1) \/ x = Len(f)
      BY <1>8
    <3>2. Comes(n, f)
      BY <3>1, <1>8 DEF Comes
    <3>3. QED  BY <2>1, <3>2, <1>8
  <2>2. CASE \E d \in Damaged(f) : wire' = wire \o d
    <3>1. PICK d \in Damaged(f) : wire' = wire \o d
      BY <2>2
    <3>2. d \in Seq(Cell)
      BY <1>8, DamagedCells
    <3>3. \A x \in 1..Len(d) : d[x] \in Byte \/ (x = Len(d) /\ d[x] = f[Len(f)])
      BY <1>7, DamagedShape
    <3>4. Comes(n, d)
      BY <3>3, <1>8 DEF Comes
    <3>5. QED  BY <3>1, <3>2, <3>4
  <2>3. QED  BY <2>1, <2>2, <1>4, <1>5
<1>10. PICK S \in Seq(Cell) : S = buf \o wire
  BY <1>1, ConcatProperties
<1>11. PICK D : D = delivered
  OBVIOUS
<1>12. InStep(N, D, S)
  BY <1>2, <1>10, <1>11 DEF OrderInv
<1>13. InStep(n, D, S \o d)
  BY <1>3, <1>9, <1>12, InStepWritten
<1>14. S \o d = buf' \o wire'
  <2>1. (buf \o wire) \o d = buf \o (wire \o d)
    BY <1>1, ConcatAssociative
  <2>2. QED  BY <2>1, <1>1, <1>9, <1>10
<1>15. QED  BY <1>1, <1>3, <1>11, <1>13, <1>14 DEF OrderInv

\* A broken connection takes cells off the end of what is on the way.
LEMMA OrderCut ==
    ASSUME LinkInv, OrderInv, Cut
    PROVE  OrderInv'
<1>1. /\ UNCHANGED <<buf, delivered, written>> /\ wire' = <<>>
      /\ buf \in Seq(Cell) /\ wire \in Seq(Cell)
  BY DEF Cut, LinkInv, LinkType, config
<1>2. buf' \o wire' = buf
  BY <1>1, ConcatEmptySeq
<1>3. PICK S \in Seq(Cell) : S = buf \o wire
  BY <1>1, ConcatProperties
<1>4. \A x \in 1..Len(buf) : x \in 1..Len(S) /\ S[x] = buf[x]
  <2>1. /\ Len(S) = Len(buf) + Len(wire)
        /\ \A x \in 1..(Len(buf) + Len(wire)) :
             S[x] = IF x <= Len(buf) THEN buf[x] ELSE wire[x - Len(buf)]
    BY <1>1, <1>3, ConcatProperties
  <2>2. Len(buf) \in Nat /\ Len(wire) \in Nat
    BY <1>1, LenProperties
  <2>3. ASSUME NEW x \in 1..Len(buf) PROVE x \in 1..Len(S) /\ S[x] = buf[x]
    <3>1. x \in 1..(Len(buf) + Len(wire)) /\ x <= Len(buf)
      BY <2>2
    <3>2. QED  BY <3>1, <2>1
  <2>4. QED  BY <2>3
<1>5. PICK N, D, b : N = Identity(written) /\ D = delivered /\ b = buf
  OBVIOUS
<1>6. InStep(N, D, S)
  BY <1>3, <1>5 DEF OrderInv
<1>7. \A x \in 1..Len(b) : x \in 1..Len(S) /\ S[x] = b[x]
  BY <1>4, <1>5
<1>8. ASSUME NEW x \in 1..Len(b), NEW y \in 1..Len(b), NEW m \in Nat, NEW n \in Nat,
             x < y, Sealed(m, b[x]), Sealed(n, b[y])
      PROVE  m < n
  <2>1. x \in 1..Len(S) /\ y \in 1..Len(S) /\ Sealed(m, S[x]) /\ Sealed(n, S[y])
    BY <1>7, <1>8
  <2>2. QED  BY <2>1, <1>6, <1>8 DEF InStep
<1>9. \A x \in 1..Len(b), n \in Nat : Sealed(n, b[x]) => n <= N
  BY <1>6, <1>7 DEF InStep
<1>10. \A i \in Told(D), x \in 1..Len(b), n \in Nat : Sealed(n, b[x]) => D[i] < n
  BY <1>6, <1>7 DEF InStep
<1>11. \A x \in 1..Len(b) : b[x] \in Byte \/ \E n \in Nat : Sealed(n, b[x])
  BY <1>6, <1>7 DEF InStep
<1>12. InStep(N, D, b)
  BY <1>6, <1>8, <1>9, <1>10, <1>11 DEF InStep
<1>13. QED  BY <1>1, <1>2, <1>5, <1>12 DEF OrderInv

\* A read takes cells off the front of what is on the way, those the daemon
\* throws away among them, and hands over what they tell.
LEMMA OrderRead ==
    ASSUME LinkInv, OrderInv, Read
    PROVE  OrderInv'
<1>1. /\ UNCHANGED <<side, intact, written>> /\ side \in Sides
      /\ buf \in Seq(Cell) /\ wire \in Seq(Cell) /\ delivered \in Seq(Values)
  BY ReadType DEF Read, LinkInv, LinkType
<1>2. PICK data \in Seq(Cell) :
        /\ wire = data \o wire' /\ wire' \in Seq(Cell)
        /\ buf' = Feed(side, buf, data).rest
        /\ delivered' = delivered \o Feed(side, buf, data).got
  BY ReadType
<1>3. PICK w \in Seq(Cell) : w = wire'
  BY <1>2
<1>4. PICK b \in Seq(Cell) : b = buf
  BY <1>1
<1>5. PICK k \in Codecs : k = Codec(side)
  BY <1>1, CodecOf
<1>6. PICK c \in Seq(Cell) :
        /\ Feed(side, buf, data) = Parsed(k, c)
        /\ c = b \o data \/ c = data
  <2>1. b \o data \in Seq(Cell)
    BY ConcatProperties
  <2>2. Feed(side, b, data) = Parsed(Codec(side), IF side = "daemon" /\ Overflows(b, data)
                                                  THEN data ELSE b \o data)
    BY <1>1, FeedIsParsed
  <2>3. QED  BY <2>1, <2>2, <1>4, <1>5
<1>7. PICK S \in Seq(Cell) : S = buf \o wire
  BY <1>1, ConcatProperties
<1>8. PICK j \in 0..Len(S) : c \o w = DropFirst(S, j)
  <2>1. S = (b \o data) \o w /\ S = b \o (data \o w) /\ data \o w \in Seq(Cell)
    BY <1>2, <1>3, <1>4, <1>7, ConcatAssociative, ConcatProperties
  <2>2. Len(S) \in Nat /\ Len(b) \in Nat
    OBVIOUS
  <2>3. CASE c = b \o data
    <3>1. c \o w = DropFirst(S, 0) /\ 0 \in 0..Len(S)
      BY <2>1, <2>2, <2>3, SubSeqFull DEF DropFirst
    <3>2. QED  BY <3>1
  <2>4. CASE c = data
    <3>1. PICK e \in Seq(Cell) : e = data \o w
      BY <2>1
    <3>2. Len(b) \in 0..Len(b)
      BY <2>2
    <3>3. DropFirst(b, Len(b)) \o e = DropFirst(b \o e, Len(b)) /\ Len(b) \in 0..Len(b \o e)
      BY <3>2, DropJoined
    <3>4. DropFirst(b, Len(b)) \o e = e
      <4>1. DropFirst(b, Len(b)) \in Seq(Cell) /\ Len(DropFirst(b, Len(b))) = Len(b) - Len(b)
        BY <3>2, Dropped
      <4>2. DropFirst(b, Len(b)) = <<>>
        BY <4>1, <2>2, EmptySeq
      <4>3. QED  BY <4>2, ConcatEmptySeq
    <3>5. QED  BY <2>1, <2>4, <3>1, <3>3, <3>4
  <2>5. QED  BY <2>3, <2>4, <1>6
<1>9. PICK D, N : D = delivered /\ N = Identity(written) /\ D \in Seq(Values)
  BY <1>1
<1>10. InStep(N, D, S)
  BY <1>7, <1>9 DEF OrderInv
<1>11. InStep(N, D, c \o w)
  BY <1>8, <1>10, InStepDropped
<1>12. InStep(N, D \o Parsed(k, c).got, Parsed(k, c).rest \o w)
  BY <1>9, <1>11, ParsedInStep
<1>13. QED  BY <1>1, <1>2, <1>3, <1>6, <1>9, <1>12 DEF OrderInv

\* No step of the link disturbs this.
LEMMA OrderStep ==
    ASSUME LinkInv, OrderInv, [Next]_linkVars
    PROVE  OrderInv'
<1>1. CASE UNCHANGED <<buf, wire, delivered, written>>
  BY <1>1 DEF OrderInv
<1>2. ASSUME StartDaemon \/ StartDriver \/ Stop \/ Plug \/ ReadsNothing \/ UNCHANGED linkVars
      PROVE  UNCHANGED <<buf, wire, delivered, written>>
  BY <1>2 DEF StartDaemon, StartDriver, Stop, Plug, ReadsNothing, linkVars, config
<1>3. QED  BY <1>1, <1>2, OrderWrite, OrderCut, OrderRead DEF Next

\* For any sizes, payloads, number of damaged frames and of broken connections:
\* the callback is handed written messages, in the order of writing, each once.
THEOREM MessagesKeepOrder == Spec => []DeliveredInOrder
<1>1. Init => LinkInv /\ OrderInv
  BY LinkInit, OrderInit
<1>2. LinkInv /\ OrderInv /\ [Next]_linkVars => LinkInv' /\ OrderInv'
  BY LinkStep, OrderStep
<1>3. LinkInv /\ OrderInv => DeliveredInOrder
  <2>1. SUFFICES ASSUME LinkInv, OrderInv PROVE DeliveredInOrder
    OBVIOUS
  <2>2. written \in Nat
    BY <2>1 DEF LinkInv, LinkType
  <2>3. \A i \in Told(delivered) :
          delivered[i] \in Nat /\ delivered[i] > Sync0[1] /\ delivered[i] <= Identity(written)
    BY <2>1 DEF OrderInv, InStep
  <2>4. \A i \in Told(delivered) : delivered[i] \in Identity(1)..Identity(written)
    BY <2>2, <2>3 DEF Identity, Sync0
  <2>5. \A i, j \in Told(delivered) : i < j => delivered[i] < delivered[j]
    BY <2>1 DEF OrderInv, InStep
  <2>6. QED  BY <2>4, <2>5 DEF DeliveredInOrder, Told
<1>4. QED  BY <1>1, <1>2, <1>3, PTL DEF Spec
=============================================================================
