--------------------------- MODULE RecvPathProofs ---------------------------
(***************************************************************************)
(* The receive path for any size of the ring and of the packets, any       *)
(* packets and any cut of the stream: the ring writes, reads and drops     *)
(* like a queue of bytes, no byte is lost, and the packets before the      *)
(* first rejected one are handled whole, once and in order.                *)
(***************************************************************************)
EXTENDS RecvPath, FiniteSetTheorems, SequenceTheorems, WellFoundedInduction,
        TLAPS

(* Strings of bytes, and sequences of them. *)
Bytes == Seq(Nat)
Streams == Seq(Bytes)

\* A finite set of numbers has a least one.
LEMMA LeastExists ==
    ASSUME NEW T, T \subseteq Nat, IsFiniteSet(T), T # {}
    PROVE  \E c \in T : \A d \in T : c <= d
<1> DEFINE UpTo(c) == { d \in T : d <= c }
           F == { UpTo(c) : c \in T }
<1>1. F \subseteq FiniteSubsetsOf(T) /\ F # {}
  <2>1. \A c \in T : UpTo(c) \in SUBSET T
    OBVIOUS
  <2>2. F \subseteq SUBSET T /\ F # {}
    <3> HIDE DEF UpTo
    <3> QED BY <2>1
  <2>3. FiniteSubsetsOf(T) = SUBSET T
    BY FS_FiniteSubsetsOfFinite
  <2> QED BY <2>2, <2>3
<1>2. PICK x \in F : \A y \in F : <<y, x>> \notin StrictSubsetOrdering(T)
  <2> HIDE DEF F
  <2> QED BY <1>1, FS_StrictSubsetOrderingWellFounded, WFMin
<1>3. PICK c \in T : x = UpTo(c)
  BY <1>2
<1>4. ASSUME NEW d \in T PROVE c <= d
  <2>1. UpTo(d) \in F
    OBVIOUS
  <2>2. CASE d < c
    <3>1. UpTo(d) \subseteq UpTo(c)
      <4>1. \A e \in T : e <= d => e <= c
        BY <2>2
      <4> QED BY <4>1
    <3>2. c \in UpTo(c) /\ c \notin UpTo(d)
      BY <2>2
    <3>3. <<UpTo(d), UpTo(c)>> \in StrictSubsetOrdering(T)
      <4>1. UpTo(d) \in SUBSET T /\ UpTo(c) \in SUBSET T /\ UpTo(d) # UpTo(c)
        BY <3>2
      <4> HIDE DEF UpTo
      <4> QED BY <3>1, <4>1 DEF StrictSubsetOrdering
    <3> QED BY <1>2, <1>3, <2>1, <3>3
  <2> QED BY <2>2
<1> QED BY <1>4

\* Induction up to n: a set of numbers that has every number all of whose
\* predecessors it has, has them all.
LEMMA Induction ==
    ASSUME NEW n \in Nat, NEW T,
           \A c \in 1 .. n : (\A d \in 1 .. c - 1 : d \in T) => c \in T
    PROVE  1 .. n \subseteq T
  <1> DEFINE Missing == (1 .. n) \ T
  <1>1. ASSUME Missing # {} PROVE FALSE
    <2>1. Missing \subseteq Nat /\ IsFiniteSet(Missing)
      <3>1. IsFiniteSet(1 .. n)
        BY FS_Interval
      <3> QED
        BY <3>1, FS_Subset
    <2>2. PICK c \in Missing : \A d \in Missing : c <= d
      <3> HIDE DEF Missing
      <3> QED BY <1>1, <2>1, LeastExists
    <2>3. \A d \in 1 .. c - 1 : d \in T
      BY <2>2
    <2> QED BY <2>2, <2>3
  <1> QED BY <1>1

-----------------------------------------------------------------------------
\* What is used of concatenation.
LEMMA JoinedCells ==
    ASSUME NEW a \in Bytes, NEW b \in Bytes
    PROVE  /\ a \o b \in Bytes
           /\ Len(a \o b) = Len(a) + Len(b)
           /\ Len(a) \in Nat /\ Len(b) \in Nat
           /\ \A i \in 1 .. Len(a) + Len(b) :
                 (a \o b)[i] = IF i <= Len(a) THEN a[i] ELSE b[i - Len(a)]
  BY ConcatProperties, LenProperties DEF Bytes

LEMMA Joined ==
    ASSUME NEW a \in Bytes, NEW b \in Bytes
    PROVE  a \o b \in Bytes /\ Len(a \o b) = Len(a) + Len(b)
  BY ConcatProperties DEF Bytes

LEMMA JoinedEmpty ==
    ASSUME NEW a \in Bytes
    PROVE  <<>> \in Bytes /\ a \o <<>> = a /\ <<>> \o a = a
  BY ConcatEmptySeq, EmptySeq, Zenon DEF Bytes

LEMMA Regrouped ==
    ASSUME NEW a \in Bytes, NEW b \in Bytes, NEW c \in Bytes
    PROVE  (a \o b) \o c = a \o (b \o c)
  BY ConcatAssociative DEF Bytes

LEMMA Cancelled ==
    ASSUME NEW a \in Bytes, NEW b \in Bytes, NEW c \in Bytes, a \o b = a \o c
    PROVE  b = c
  <1>1. a \in Seq(Nat) /\ b \in Seq(Nat) /\ c \in Seq(Nat)
    BY DEF Bytes
  <1> QED
    BY <1>1, ConcatSimplifications

\* Strings of the same length with the same bytes are the same.
LEMMA SameBytes ==
    ASSUME NEW a \in Bytes, NEW b \in Bytes, Len(a) = Len(b),
           \A i \in 1 .. Len(a) : a[i] = b[i]
    PROVE  a = b
  BY SeqEqual DEF Bytes

\* A stream that is cut at the same length in two ways has the same parts.
LEMMA SameParts ==
    ASSUME NEW a \in Bytes, NEW b \in Bytes, NEW c \in Bytes, NEW d \in Bytes,
           a \o b = c \o d, Len(a) = Len(c)
    PROVE  a = c /\ b = d
  <1>1. ASSUME NEW i \in 1 .. Len(a)
        PROVE  a[i] = c[i]
    <2>1. /\ (a \o b)[i] = a[i]
          /\ (c \o d)[i] = c[i]
      <3>1. /\ Len(a) \in Nat /\ Len(b) \in Nat /\ Len(c) \in Nat /\ Len(d) \in Nat
            /\ \A j \in 1 .. Len(a) + Len(b) :
                  (a \o b)[j] = IF j <= Len(a) THEN a[j] ELSE b[j - Len(a)]
            /\ \A j \in 1 .. Len(c) + Len(d) :
                  (c \o d)[j] = IF j <= Len(c) THEN c[j] ELSE d[j - Len(c)]
        BY JoinedCells
      <3>2. i \in 1 .. Len(a) + Len(b) /\ i \in 1 .. Len(c) + Len(d)
        BY <3>1
      <3> QED
        BY <3>1, <3>2
    <2> QED
      BY <2>1
  <1>2. a = c
    BY <1>1, SameBytes
  <1> QED
    BY <1>2, Cancelled

LEMMA StreamsAre ==
    ASSUME NEW s \in Streams
    PROVE  /\ Len(s) \in Nat
           /\ \A i \in 1 .. Len(s) : s[i] \in Bytes
           /\ s # <<>> => Len(s) \in 1 .. Len(s)
  <1>1. s \in Seq(Bytes)
    BY DEF Streams
  <1> QED
    BY <1>1, LenProperties, ElementOfSeq, EmptySeq

-----------------------------------------------------------------------------
(* FlattenSeq: the bytes of a sequence of packets. *)

\* f is the function FlattenSeq defines: f[i] joins the first i of s.
Flattens(f, s, n) ==
    /\ n \in Nat
    /\ f \in [1 .. n -> Bytes]
    /\ \A i \in 1 .. n : f[i] = IF i = 1 THEN s[i] ELSE f[i - 1] \o s[i]

Agree(f, g, n) == \A i \in 1 .. n : f[i] = g[i]

\* There is such a function, and only one.
LEMMA FlattensExists ==
    ASSUME NEW s \in Streams, NEW n \in 1 .. Len(s)
    PROVE  \E f : Flattens(f, s, n)
  <1> DEFINE T == { m \in 1 .. Len(s) : \E f : Flattens(f, s, m) }
  <1>0. Len(s) \in Nat /\ \A i \in 1 .. Len(s) : s[i] \in Bytes
    BY StreamsAre
  <1>1. ASSUME NEW c \in 1 .. Len(s), \A d \in 1 .. c - 1 : d \in T
        PROVE  c \in T
    <2>4. CASE c = 1
      <3> DEFINE f == [i \in 1 .. 1 |-> s[i]]
      <3>1. Flattens(f, s, 1)
        BY <1>0, <1>1, <2>4 DEF Flattens
      <3> QED BY <2>4, <3>1
    <2>5. CASE c # 1
      <3>1. c - 1 \in 1 .. c - 1
        BY <1>0, <2>5
      <3>2. PICK g : Flattens(g, s, c - 1)
        BY <1>1, <3>1
      <3> HIDE DEF T
      <3> DEFINE f == [i \in 1 .. c |-> IF i < c THEN g[i] ELSE g[c - 1] \o s[c]]
      <3>3. g \in [1 .. c - 1 -> Bytes]
        BY <3>2 DEF Flattens
      <3>4. g[c - 1] \o s[c] \in Bytes
        <4>1. g[c - 1] \in Bytes /\ s[c] \in Bytes
          BY <1>0, <3>1, <3>3
        <4> QED
          BY <4>1, Joined
      <3>5. f \in [1 .. c -> Bytes]
        <4>1. \A i \in 1 .. c : i < c => i \in 1 .. c - 1
          BY <1>0
        <4> QED BY <3>3, <3>4, <4>1
      <3>6. ASSUME NEW i \in 1 .. c
            PROVE  f[i] = IF i = 1 THEN s[i] ELSE f[i - 1] \o s[i]
        <4>1. CASE i < c
          <5>1. i \in 1 .. c - 1
            BY <4>1
          <5>2. g[i] = IF i = 1 THEN s[i] ELSE g[i - 1] \o s[i]
            BY <3>2, <5>1 DEF Flattens
          <5>3. f[i] = g[i]
            BY <4>1
          <5>4. i # 1 => f[i - 1] = g[i - 1]
            BY <4>1
          <5> QED
            BY <5>2, <5>3, <5>4
        <4>2. CASE i = c
          <5>1. f[i] = g[c - 1] \o s[c]
            <6>1. ~(i < c)
              BY <4>2
            <6> QED
              BY <6>1
          <5>2. f[c - 1] = g[c - 1]
            BY <2>5
          <5> QED
            BY <2>5, <4>2, <5>1, <5>2
        <4> QED
          BY <4>1, <4>2
      <3>7. Flattens(f, s, c)
        <4> HIDE DEF f
        <4>1. c \in Nat
          BY <1>0
        <4> QED
          BY <3>5, <3>6, <4>1 DEF Flattens
      <3> QED BY <3>7 DEF T
    <2> QED BY <2>4, <2>5
  <1>2. 1 .. Len(s) \subseteq T
    <2> HIDE DEF T
    <2> QED BY <1>0, <1>1, Induction
  <1> QED BY <1>2

LEMMA FlattensUnique ==
    ASSUME NEW s, NEW t, NEW m, NEW n, NEW f, NEW g,
           Flattens(f, s, m), Flattens(g, t, n), 1 .. m \subseteq 1 .. n,
           Agree(s, t, m)
    PROVE  Agree(f, g, m)
  <1> DEFINE T == { i \in 1 .. m : f[i] = g[i] }
  <1>0. m \in Nat
    BY DEF Flattens
  <1>1. ASSUME NEW c \in 1 .. m, \A d \in 1 .. c - 1 : d \in T
        PROVE  c \in T
    <2>2. /\ f[c] = IF c = 1 THEN s[c] ELSE f[c - 1] \o s[c]
          /\ g[c] = IF c = 1 THEN t[c] ELSE g[c - 1] \o t[c]
      BY DEF Flattens, Agree
    <2>3. c # 1 => f[c - 1] = g[c - 1]
      <3> SUFFICES ASSUME c # 1 PROVE c - 1 \in T
        OBVIOUS
      <3>1. c - 1 \in 1 .. c - 1
        BY <1>0
      <3> HIDE DEF T
      <3> QED BY <1>1, <3>1
    <2> QED BY <2>2, <2>3 DEF Agree
  <1>2. 1 .. m \subseteq T
    <2> HIDE DEF T
    <2> QED BY <1>0, <1>1, Induction
  <1> QED BY <1>2 DEF Agree

\* FlattenSeq is its value at the end.
LEMMA FlattenSeqIs ==
    ASSUME NEW s \in Streams, s # <<>>
    PROVE  \E f : Flattens(f, s, Len(s)) /\ FlattenSeq(s) = f[Len(s)]
  <1>0. Len(s) \in Nat \ {0}
    BY EmptySeq
  <1>1. PICK f : Flattens(f, s, Len(s))
    BY <1>0, FlattensExists
  <1> DEFINE P(g) == g = [i \in 1 .. Len(s) |-> IF i = 1 THEN s[i] ELSE g[i - 1] \o s[i]]
             h == CHOOSE g : P(g)
  <1>2. P(f)
    <2>1. f \in [1 .. Len(s) -> Bytes]
      BY <1>1 DEF Flattens
    <2>2. f = [i \in 1 .. Len(s) |-> f[i]]
      BY <2>1
    <2>3. \A i \in 1 .. Len(s) : f[i] = IF i = 1 THEN s[i] ELSE f[i - 1] \o s[i]
      BY <1>1 DEF Flattens
    <2> QED BY <2>2, <2>3
  <1>3. P(h)
    <2> HIDE DEF P
    <2> QED BY <1>2
  <1>4. FlattenSeq(s) = h[Len(s)]
    BY <1>0 DEF FlattenSeq
  <1> HIDE DEF h
  <1> DEFINE T == { i \in 1 .. Len(s) : h[i] = f[i] }
  <1>5. ASSUME NEW c \in 1 .. Len(s), \A d \in 1 .. c - 1 : d \in T
        PROVE  c \in T
    <2>1. /\ f[c] = IF c = 1 THEN s[c] ELSE f[c - 1] \o s[c]
          /\ h[c] = IF c = 1 THEN s[c] ELSE h[c - 1] \o s[c]
      BY <1>1, <1>3 DEF Flattens
    <2>2. c # 1 => h[c - 1] = f[c - 1]
      <3> SUFFICES ASSUME c # 1 PROVE c - 1 \in T
        OBVIOUS
      <3>1. c - 1 \in 1 .. c - 1
        BY <1>0
      <3> HIDE DEF T
      <3> QED BY <1>5, <3>1
    <2> QED BY <2>1, <2>2
  <1>6. 1 .. Len(s) \subseteq T
    <2> HIDE DEF T
    <2> QED BY <1>0, <1>5, Induction
  <1>7. h[Len(s)] = f[Len(s)]
    BY <1>0, <1>6
  <1> QED BY <1>1, <1>4, <1>7

LEMMA FlattenEmpty == FlattenSeq(<<>>) = <<>>
  BY DEF FlattenSeq

\* Another packet adds its bytes at the end.
LEMMA FlattenAppend ==
    ASSUME NEW s \in Streams, NEW p \in Bytes
    PROVE  /\ Append(s, p) \in Streams
           /\ FlattenSeq(Append(s, p)) = FlattenSeq(s) \o p
  <1> DEFINE t == Append(s, p)
             last == Len(t)
  <1>1. /\ t \in Streams /\ t # <<>>
        /\ Len(s) \in Nat /\ last \in Nat /\ last - 1 = Len(s)
        /\ \A i \in 1 .. Len(s) : s[i] = t[i]
        /\ t[last] = p
    BY AppendProperties, LenProperties DEF Streams
  <1> HIDE DEF t
  <1>2. PICK f : Flattens(f, t, last) /\ FlattenSeq(t) = f[last]
    BY <1>1, FlattenSeqIs
  <1> HIDE DEF last
  <1>3. CASE s = <<>>
    <2>1. Len(s) = 0 /\ last = 1
      BY <1>1, <1>3
    <2>2. f[last] = t[last]
      BY <1>1, <1>2, <2>1 DEF Flattens
    <2>3. FlattenSeq(s) = <<>>
      BY <1>3, FlattenEmpty
    <2>4. <<>> \o p = p
      BY JoinedEmpty
    <2> QED
      BY <1>1, <1>2, <2>2, <2>3, <2>4 DEF t
  <1>4. CASE s # <<>>
    <2>1. PICK g : Flattens(g, s, Len(s)) /\ FlattenSeq(s) = g[Len(s)]
      BY <1>4, FlattenSeqIs
    <2>2. Len(s) \in 1 .. Len(s) /\ last \in 1 .. last /\ last # 1
      BY <1>1, <1>4, StreamsAre
    <2>3. g[Len(s)] = f[Len(s)]
      <3>1. 1 .. Len(s) \subseteq 1 .. last
        BY <1>1
      <3>2. Agree(s, t, Len(s))
        BY <1>1 DEF Agree
      <3>3. Agree(g, f, Len(s))
        BY <1>2, <2>1, <3>1, <3>2, FlattensUnique
      <3> QED BY <2>2, <3>3 DEF Agree
    <2>4. f[last] = f[last - 1] \o t[last]
      BY <1>2, <2>2 DEF Flattens
    <2> QED
      BY <1>1, <1>2, <2>1, <2>3, <2>4 DEF t
  <1> QED
    BY <1>1, <1>3, <1>4 DEF t

LEMMA FlattenType ==
    ASSUME NEW s \in Streams
    PROVE  FlattenSeq(s) \in Bytes
  <1>1. CASE s = <<>>
    BY <1>1, FlattenEmpty, EmptySeq DEF Bytes
  <1>2. CASE s # <<>>
    <2>1. PICK f : Flattens(f, s, Len(s)) /\ FlattenSeq(s) = f[Len(s)]
      BY <1>2, FlattenSeqIs
    <2> QED
      BY <1>2, <2>1, StreamsAre DEF Flattens
  <1> QED
    BY <1>1, <1>2

\* The bytes of the first packets begin the stream.
LEMMA FlattenPrefix ==
    ASSUME NEW s \in Streams, NEW k \in 0 .. Len(s)
    PROVE  /\ SubSeq(s, 1, k) \in Streams
           /\ \E rest \in Bytes :
                 FlattenSeq(s) = FlattenSeq(SubSeq(s, 1, k)) \o rest
  <1> DEFINE t == SubSeq(s, 1, k)
  <1>1. /\ Len(s) \in Nat /\ k \in Nat
        /\ \A i \in 1 .. Len(s) : s[i] \in Bytes
        /\ FlattenSeq(s) \in Bytes
    BY StreamsAre, FlattenType
  <1>2. /\ t \in Streams /\ Len(t) = k
        /\ \A i \in 1 .. k : t[i] = s[i]
    <2>1. \A i \in 1 .. k : s[i] \in Bytes
      BY <1>1
    <2> QED
      BY <1>1, <2>1, SubSeqProperties DEF Streams
  <1> HIDE DEF t
  <1>3. CASE k = 0
    <2>1. t = <<>>
      BY <1>2, <1>3, EmptySeq DEF Streams
    <2>2. FlattenSeq(t) = <<>>
      BY <2>1, FlattenEmpty
    <2> QED
      BY <1>1, <1>2, <2>2, JoinedEmpty DEF t
  <1>4. CASE k # 0
    <2>1. s # <<>> /\ t # <<>>
      BY <1>1, <1>2, <1>4
    <2>2. PICK f : Flattens(f, s, Len(s)) /\ FlattenSeq(s) = f[Len(s)]
      BY <2>1, FlattenSeqIs
    <2>3. PICK g : Flattens(g, t, k) /\ FlattenSeq(t) = g[k]
      BY <1>2, <2>1, FlattenSeqIs
    <2>4. PICK start \in Bytes : g[k] = start /\ f[k] = start
      <3>1. 1 .. k \subseteq 1 .. Len(s) /\ k \in 1 .. k
        BY <1>1, <1>4
      <3>2. Agree(t, s, k)
        BY <1>2 DEF Agree
      <3>3. Agree(g, f, k)
        BY <2>2, <2>3, <3>1, <3>2, FlattensUnique
      <3> QED BY <2>2, <3>1, <3>3 DEF Flattens, Agree
    <2> DEFINE T == { m \in 1 .. Len(s) :
                        m >= k => \E rest \in Bytes : f[m] = start \o rest }
    <2>5. ASSUME NEW c \in 1 .. Len(s), \A d \in 1 .. c - 1 : d \in T
          PROVE  c \in T
      <3>1. CASE c = k
        <4>1. <<>> \in Bytes /\ f[c] = start \o <<>>
          BY <2>4, <3>1, JoinedEmpty
        <4> QED BY <4>1
      <3>2. CASE c > k
        <4>1. c - 1 \in 1 .. c - 1 /\ c - 1 >= k /\ c # 1
          BY <1>1, <1>4, <3>2
        <4>2. PICK rest \in Bytes : f[c - 1] = start \o rest
          BY <2>5, <4>1
        <4>3. PICK next \in Bytes : f[c] = f[c - 1] \o next
          BY <1>1, <2>2, <4>1 DEF Flattens
        <4> HIDE DEF T
        <4>4. (start \o rest) \o next = start \o (rest \o next)
          BY Regrouped
        <4>5. rest \o next \in Bytes
          BY Joined
        <4> QED BY <4>2, <4>3, <4>4, <4>5 DEF T
      <3>3. CASE c < k
        BY <3>3
      <3> HIDE DEF T
      <3> QED BY <1>1, <3>1, <3>2, <3>3
    <2>6. 1 .. Len(s) \subseteq T
      <3> HIDE DEF T
      <3> QED BY <1>1, <2>5, Induction
    <2>7. \E rest \in Bytes : f[Len(s)] = start \o rest
      <3>1. Len(s) \in 1 .. Len(s) /\ Len(s) >= k
        BY <1>1, <1>4
      <3>2. Len(s) \in T
        <4> HIDE DEF T
        <4> QED BY <2>6, <3>1
      <3> QED BY <3>1, <3>2
    <2> QED BY <1>2, <2>2, <2>3, <2>4, <2>7 DEF t
  <1> QED BY <1>3, <1>4

-----------------------------------------------------------------------------
(* The ring. *)

\* A position is advanced round the end of the array.
LEMMA AdvancedIs ==
    ASSUME NEW pos \in Positions, NEW len \in 0 .. BUFFER_SIZE
    PROVE  /\ Advanced(pos, len) \in Positions
           /\ Advanced(pos, len) = IF pos + len < BUFFER_SIZE
                                   THEN pos + len ELSE pos + len - BUFFER_SIZE
  BY SizesAssumption DEF Advanced, Positions

LEMMA AdvancedTwice ==
    ASSUME NEW pos \in Positions, NEW m \in Nat, NEW n \in Nat, m + n <= BUFFER_SIZE
    PROVE  Advanced(Advanced(pos, m), n) = Advanced(pos, m + n)
  <1>1. /\ m \in 0 .. BUFFER_SIZE /\ n \in 0 .. BUFFER_SIZE
        /\ m + n \in 0 .. BUFFER_SIZE /\ BUFFER_SIZE \in Nat
    BY SizesAssumption
  <1>2. PICK mid \in Positions :
           /\ Advanced(pos, m) = mid
           /\ mid = IF pos + m < BUFFER_SIZE THEN pos + m ELSE pos + m - BUFFER_SIZE
    BY <1>1, AdvancedIs
  <1>3. Advanced(mid, n) = IF mid + n < BUFFER_SIZE THEN mid + n
                                                     ELSE mid + n - BUFFER_SIZE
    BY <1>1, AdvancedIs
  <1>4. Advanced(pos, m + n) = IF pos + (m + n) < BUFFER_SIZE THEN pos + (m + n)
                               ELSE pos + (m + n) - BUFFER_SIZE
    <2>1. \A len \in 0 .. BUFFER_SIZE :
             Advanced(pos, len) = IF pos + len < BUFFER_SIZE THEN pos + len
                                                          ELSE pos + len - BUFFER_SIZE
      BY AdvancedIs
    <2> QED BY <1>1, <2>1
  <1> QED
    BY <1>1, <1>2, <1>3, <1>4 DEF Positions

\* Less than BUFFER_SIZE apart, two places are different.
LEMMA AdvancedApart ==
    ASSUME NEW pos \in Positions, NEW m \in 0 .. BUFFER_SIZE - 1, NEW n \in 0 .. BUFFER_SIZE - 1,
           m # n
    PROVE  Advanced(pos, m) # Advanced(pos, n)
  <1>1. /\ m \in 0 .. BUFFER_SIZE /\ n \in 0 .. BUFFER_SIZE /\ BUFFER_SIZE \in Nat
    BY SizesAssumption
  <1>2. Advanced(pos, m) = IF pos + m < BUFFER_SIZE THEN pos + m
                                                     ELSE pos + m - BUFFER_SIZE
    BY <1>1, AdvancedIs
  <1>3. Advanced(pos, n) = IF pos + n < BUFFER_SIZE THEN pos + n
                                                     ELSE pos + n - BUFFER_SIZE
    BY <1>1, AdvancedIs
  <1> QED
    BY <1>1, <1>2, <1>3 DEF Positions

LEMMA SoundParts ==
    ASSUME NEW r, Sound(r)
    PROVE  /\ r.buffer \in [Positions -> Nat]
           /\ r.readPos \in Positions /\ r.writePos \in Positions
           /\ r.dataSize \in 0 .. BUFFER_SIZE
           /\ r.writePos = Advanced(r.readPos, r.dataSize)
           /\ BUFFER_SIZE \in Nat
  BY SizesAssumption DEF Sound

\* Peek reads the places from readPos on, whether it wraps or not.
LEMMA SliceCells ==
    ASSUME NEW buffer \in [Positions -> Nat], NEW at \in Nat, NEW len \in Nat,
           at + len <= BUFFER_SIZE
    PROVE  /\ Slice(buffer, at, len) \in Bytes
           /\ Len(Slice(buffer, at, len)) = len
           /\ \A i \in 1 .. len : Slice(buffer, at, len)[i] = buffer[at + i - 1]
  <1>1. \A i \in 1 .. len : buffer[at + i - 1] \in Nat
    BY SizesAssumption DEF Positions
  <1>2. Slice(buffer, at, len) \in [1 .. len -> Nat]
    BY <1>1 DEF Slice
  <1> QED
    BY <1>2 DEF Slice, Bytes

LEMMA PeekCells ==
    ASSUME NEW r, Sound(r), NEW len \in 0 .. BUFFER_SIZE
    PROVE  /\ Peek(r, len) \in Bytes
           /\ Len(Peek(r, len)) = len
           /\ \A i \in 1 .. len :
                 Peek(r, len)[i] = r.buffer[Advanced(r.readPos, i - 1)]
  <1>1. /\ BUFFER_SIZE \in Nat
        /\ r.buffer \in [Positions -> Nat]
        /\ r.readPos \in Nat /\ r.readPos < BUFFER_SIZE
        /\ r.readPos \in Positions
    BY SizesAssumption DEF Sound, Positions
  <1> DEFINE tail == TailSpace(r.readPos)
  <1>2. tail \in Nat /\ r.readPos + tail = BUFFER_SIZE
    BY <1>1 DEF TailSpace
  <1>3. \A i \in 1 .. len :
           Advanced(r.readPos, i - 1) = IF i <= tail THEN r.readPos + i - 1
                                           ELSE i - 1 - tail
    <2> TAKE i \in 1 .. len
    <2>1. \A n \in 0 .. BUFFER_SIZE :
             Advanced(r.readPos, n) =
                IF r.readPos + n < BUFFER_SIZE THEN r.readPos + n
                ELSE r.readPos + n - BUFFER_SIZE
      BY <1>1, AdvancedIs
    <2>2. i - 1 \in 0 .. BUFFER_SIZE
      BY <1>1
    <2>3. Advanced(r.readPos, i - 1) =
             IF r.readPos + (i - 1) < BUFFER_SIZE THEN r.readPos + (i - 1)
             ELSE r.readPos + (i - 1) - BUFFER_SIZE
      BY <2>1, <2>2
    <2> HIDE DEF tail
    <2> QED
      BY <1>1, <1>2, <2>2, <2>3
  <1>4. CASE len <= tail
    <2>1. Peek(r, len) = Slice(r.buffer, r.readPos, len)
      BY <1>4 DEF Peek
    <2>2. \A i \in 1 .. len : i <= tail
      BY <1>2, <1>4
    <2>3. len \in Nat /\ r.readPos + len <= BUFFER_SIZE
      BY <1>1, <1>2, <1>4
    <2>4. /\ Peek(r, len) \in Bytes /\ Len(Peek(r, len)) = len
          /\ \A i \in 1 .. len :
                Peek(r, len)[i] = r.buffer[r.readPos + i - 1]
      <3>1. /\ Slice(r.buffer, r.readPos, len) \in Bytes
            /\ Len(Slice(r.buffer, r.readPos, len)) = len
            /\ \A i \in 1 .. len :
                  Slice(r.buffer, r.readPos, len)[i]
                     = r.buffer[r.readPos + i - 1]
        BY <1>1, <2>3, SliceCells
      <3> QED
        BY <2>1, <3>1, Zenon
    <2>5. \A i \in 1 .. len : Advanced(r.readPos, i - 1) = r.readPos + i - 1
      BY <1>3, <2>2
    <2> QED
      BY <2>4, <2>5
  <1>5. CASE ~(len <= tail)
    <2> DEFINE a == Slice(r.buffer, r.readPos, tail)
               b == Slice(r.buffer, 0, len - tail)
    <2>1. Peek(r, len) = a \o b
      BY <1>5 DEF Peek
    <2>2. len - tail \in Nat /\ 0 + (len - tail) <= BUFFER_SIZE /\ 0 \in Nat
      BY <1>1, <1>2, <1>5
    <2>3. /\ a \in Bytes /\ Len(a) = tail
          /\ \A i \in 1 .. tail : a[i] = r.buffer[r.readPos + i - 1]
      <3> HIDE DEF tail
      <3>1. r.readPos + tail <= BUFFER_SIZE
        BY <1>1, <1>2
      <3> QED BY <1>1, <1>2, <3>1, SliceCells
    <2>4. /\ b \in Bytes /\ Len(b) = len - tail
          /\ \A i \in 1 .. len - tail : b[i] = r.buffer[0 + i - 1]
      <3> HIDE DEF tail
      <3> QED BY <1>1, <1>2, <2>2, SliceCells
    <2> HIDE DEF a, b, tail
    <2>5. /\ a \o b \in Bytes /\ Len(a \o b) = Len(a) + Len(b)
          /\ \A i \in 1 .. Len(a) + Len(b) :
                (a \o b)[i] = IF i <= Len(a) THEN a[i] ELSE b[i - Len(a)]
      BY <2>3, <2>4, ConcatProperties DEF Bytes
    <2>6. ASSUME NEW i \in 1 .. len
          PROVE  (a \o b)[i] = r.buffer[Advanced(r.readPos, i - 1)]
      <3>1. CASE i <= tail
        BY <1>2, <1>3, <2>2, <2>3, <2>4, <2>5, <3>1
      <3>2. CASE ~(i <= tail)
        <4>1. i - tail \in 1 .. len - tail /\ 0 + (i - tail) - 1 = i - 1 - tail
          BY <1>2, <2>2, <3>2
        <4>2. b[i - tail] = r.buffer[i - 1 - tail]
          BY <2>4, <4>1
        <4> QED
          BY <1>2, <1>3, <2>2, <2>3, <2>4, <2>5, <3>2, <4>2
      <3> QED BY <3>1, <3>2
    <2> QED
      BY <1>2, <2>1, <2>2, <2>3, <2>4, <2>5, <2>6
  <1> QED
    BY <1>4, <1>5

\* memcpy into the array.
LEMMA CopiedCells ==
    ASSUME NEW buffer \in [Positions -> Nat], NEW at \in Nat, NEW bytes \in Bytes
    PROVE  /\ Copied(buffer, at, bytes) \in [Positions -> Nat]
           /\ \A p \in Positions :
                 Copied(buffer, at, bytes)[p] =
                    IF at <= p /\ p < at + Len(bytes) THEN bytes[p - at + 1]
                                                       ELSE buffer[p]
  <1>1. Len(bytes) \in Nat /\ \A i \in 1 .. Len(bytes) : bytes[i] \in Nat
    BY LenProperties, ElementOfSeq DEF Bytes
  <1>2. ASSUME NEW p \in Positions, at <= p, p < at + Len(bytes)
        PROVE  bytes[p - at + 1] \in Nat
    <2>1. p - at + 1 \in 1 .. Len(bytes)
      BY <1>1, <1>2, SizesAssumption DEF Positions
    <2> QED BY <1>1, <2>1
  <1> QED
    BY <1>2 DEF Copied

\* What Write does to the array: the bytes are at the places from writePos on,
\* and no other place changes.
LEMMA WriteCells ==
    ASSUME NEW r, Sound(r), NEW bytes \in Bytes, Fits(r, bytes)
    PROVE  /\ Write(r, bytes).buffer \in [Positions -> Nat]
           /\ \A j \in 1 .. Len(bytes) :
                 Write(r, bytes).buffer[Advanced(r.writePos, j - 1)] = bytes[j]
           /\ \A p \in Positions :
                 \/ Write(r, bytes).buffer[p] = r.buffer[p]
                 \/ \E j \in 1 .. Len(bytes) : p = Advanced(r.writePos, j - 1)
  <1> DEFINE new == Write(r, bytes).buffer
             len == Len(bytes)
             at == r.writePos
             tail == TailSpace(at)
  <1>1. /\ r.buffer \in [Positions -> Nat] /\ at \in Positions
        /\ BUFFER_SIZE \in Nat /\ at \in Nat /\ at < BUFFER_SIZE
        /\ r.dataSize \in 0 .. BUFFER_SIZE
    BY SoundParts DEF Positions
  <1>2. /\ len \in Nat /\ len <= BUFFER_SIZE
        /\ \A i \in 1 .. len : bytes[i] \in Nat
    <2>1. len \in Nat /\ \A i \in 1 .. len : bytes[i] \in Nat
      BY LenProperties, ElementOfSeq DEF Bytes
    <2> QED
      BY <1>1, <2>1 DEF Fits, WritableSize
  <1>3. tail \in Nat /\ at + tail = BUFFER_SIZE /\ tail # 0
    BY <1>1 DEF TailSpace
  <1>4. ASSUME NEW j \in 1 .. len
        PROVE  Advanced(at, j - 1) = IF j <= tail THEN at + j - 1 ELSE j - 1 - tail
    <2>1. \A n \in 0 .. BUFFER_SIZE :
             Advanced(at, n) = IF at + n < BUFFER_SIZE THEN at + n
                                                       ELSE at + n - BUFFER_SIZE
      BY <1>1, AdvancedIs
    <2>2. j - 1 \in 0 .. BUFFER_SIZE
      BY <1>1, <1>2
    <2>3. Advanced(at, j - 1) = IF at + (j - 1) < BUFFER_SIZE THEN at + (j - 1)
                                ELSE at + (j - 1) - BUFFER_SIZE
      BY <2>1, <2>2
    <2> HIDE DEF tail, at, len
    <2> QED
      BY <1>1, <1>2, <1>3, <2>2, <2>3
  <1>5. /\ new \in [Positions -> Nat]
        /\ \A p \in Positions :
              new[p] = IF at <= p /\ p < at + len THEN bytes[p - at + 1]
                       ELSE IF p + tail < len THEN bytes[p + tail + 1]
                       ELSE r.buffer[p]
    <2>1. CASE len <= tail
      <3>1. new = Copied(r.buffer, at, bytes)
        BY <2>1 DEF Write
      <3>2. \A p \in Positions : p \in Nat /\ p < BUFFER_SIZE /\ ~(p + tail < len)
        BY <1>1, <1>2, <1>3, <2>1 DEF Positions
      <3>3. /\ Copied(r.buffer, at, bytes) \in [Positions -> Nat]
            /\ \A p \in Positions :
                  Copied(r.buffer, at, bytes)[p] =
                     IF at <= p /\ p < at + len THEN bytes[p - at + 1]
                                                ELSE r.buffer[p]
        <4> HIDE DEF at
        <4> QED
          BY <1>1, CopiedCells
      <3> HIDE DEF tail, at, len, new
      <3> QED
        BY <3>1, <3>2, <3>3
    <2>2. CASE ~(len <= tail)
      <3> DEFINE a == SubSeq(bytes, 1, tail)
                 b == SubSeq(bytes, tail + 1, len)
                 half == Copied(r.buffer, at, a)
      <3>1. new = Copied(half, 0, b)
        BY <2>2 DEF Write
      <3>2. /\ a \in Bytes /\ Len(a) = tail /\ \A i \in 1 .. tail : a[i] = bytes[i]
        <4>1. /\ 1 \in Int /\ tail \in Int /\ 1 <= tail
              /\ \A i \in 1 .. tail : bytes[i] \in Nat
          BY <1>2, <1>3, <2>2
        <4> HIDE DEF tail
        <4> QED BY <1>3, <4>1, SubSeqProperties DEF Bytes
      <3>3. /\ b \in Bytes /\ Len(b) = len - tail
            /\ \A i \in 1 .. len - tail : b[i] = bytes[tail + i]
        <4>1. /\ tail + 1 \in Int /\ len \in Int /\ tail + 1 <= len
              /\ \A i \in tail + 1 .. len : bytes[i] \in Nat
          BY <1>2, <1>3, <2>2
        <4> HIDE DEF tail, len
        <4> QED BY <1>2, <1>3, <4>1, SubSeqProperties DEF Bytes
      <3>4. /\ half \in [Positions -> Nat]
            /\ \A p \in Positions :
                  half[p] = IF at <= p /\ p < at + tail THEN a[p - at + 1]
                                                        ELSE r.buffer[p]
        <4> HIDE DEF a, tail, at
        <4>1. half \in [Positions -> Nat]
          BY <1>1, <3>2, CopiedCells
        <4>2. ASSUME NEW p \in Positions
              PROVE  half[p] = IF at <= p /\ p < at + Len(a) THEN a[p - at + 1]
                                                             ELSE r.buffer[p]
          BY <1>1, <3>2, CopiedCells
        <4> HIDE DEF half
        <4> QED BY <3>2, <4>1, <4>2
      <3>5. /\ new \in [Positions -> Nat]
            /\ \A p \in Positions :
                  new[p] = IF 0 <= p /\ p < 0 + (len - tail) THEN b[p - 0 + 1]
                                                             ELSE half[p]
        <4> HIDE DEF a, b, tail, at, half, len, new
        <4>0. 0 \in Nat
          OBVIOUS
        <4>1. new \in [Positions -> Nat]
          BY <3>1, <3>3, <3>4, <4>0, CopiedCells
        <4>2. ASSUME NEW p \in Positions
              PROVE  new[p] = IF 0 <= p /\ p < 0 + Len(b) THEN b[p - 0 + 1]
                                                          ELSE half[p]
          BY <3>1, <3>3, <3>4, <4>0, CopiedCells
        <4> QED BY <3>3, <4>1, <4>2
      <3>6. ASSUME NEW p \in Positions
            PROVE  new[p] = IF at <= p /\ p < at + len THEN bytes[p - at + 1]
                            ELSE IF p + tail < len THEN bytes[p + tail + 1]
                            ELSE r.buffer[p]
        <4>1. p \in Nat /\ p < BUFFER_SIZE
          BY <1>1 DEF Positions
        <4> HIDE DEF a, b, tail, at, half, len, new
        <4>2. CASE at <= p
          <5>1. at <= p /\ p < at + len /\ p < at + tail /\ ~(p < 0 + (len - tail))
            BY <1>1, <1>2, <1>3, <2>2, <4>1, <4>2
          <5>2. p - at + 1 \in 1 .. tail
            BY <1>1, <1>3, <4>1, <5>1
          <5>3. a[p - at + 1] = bytes[p - at + 1]
            BY <3>2, <5>2
          <5> QED
            BY <3>4, <3>5, <5>1, <5>3
        <4>3. CASE ~(at <= p) /\ p + tail < len
          <5>1. 0 <= p /\ p < 0 + (len - tail) /\ p - 0 + 1 = p + 1
            BY <1>1, <1>2, <1>3, <4>1, <4>3
          <5>2. p + 1 \in 1 .. len - tail /\ tail + (p + 1) = p + tail + 1
            BY <1>2, <1>3, <4>1, <4>3
          <5>3. b[p + 1] = bytes[tail + (p + 1)]
            BY <3>3, <5>2
          <5> QED
            BY <3>5, <4>3, <5>1, <5>2, <5>3
        <4>4. CASE ~(at <= p) /\ ~(p + tail < len)
          <5>1. ~(p < 0 + (len - tail))
            BY <1>2, <1>3, <4>1, <4>4
          <5> QED
            BY <3>4, <3>5, <4>4, <5>1
        <4> QED
          BY <4>2, <4>3, <4>4
      <3> QED
        BY <3>5, <3>6
    <2> QED
      BY <2>1, <2>2
  <1> HIDE DEF new, len, at, tail
  <1>6. ASSUME NEW j \in 1 .. len
        PROVE  new[Advanced(at, j - 1)] = bytes[j]
    <2>1. CASE j <= tail
      <3>1. PICK p \in Positions : p = Advanced(at, j - 1) /\ p = at + j - 1
        BY <1>1, <1>2, <1>3, <1>4, <2>1 DEF Positions
      <3>2. at <= p /\ p < at + len /\ p - at + 1 = j
        BY <1>1, <1>2, <3>1
      <3> QED
        BY <1>5, <3>1, <3>2
    <2>2. CASE ~(j <= tail)
      <3>1. PICK p \in Positions : p = Advanced(at, j - 1) /\ p = j - 1 - tail
        BY <1>1, <1>2, <1>3, <1>4, <2>2 DEF Positions
      <3>2. ~(at <= p) /\ p + tail < len /\ p + tail + 1 = j
        BY <1>1, <1>2, <1>3, <2>2, <3>1
      <3> QED
        BY <1>5, <3>1, <3>2
    <2> QED
      BY <2>1, <2>2
  <1>7. ASSUME NEW p \in Positions
        PROVE  new[p] = r.buffer[p] \/ \E j \in 1 .. len : p = Advanced(at, j - 1)
    <2>1. p \in Nat /\ p < BUFFER_SIZE
      BY <1>1 DEF Positions
    <2>2. CASE at <= p /\ p < at + len
      <3>1. p - at + 1 \in 1 .. len /\ p - at + 1 <= tail /\ at + (p - at + 1) - 1 = p
        BY <1>1, <1>2, <1>3, <2>1, <2>2
      <3> QED
        BY <1>4, <3>1
    <2>3. CASE ~(at <= p) /\ p + tail < len
      <3>1. /\ p + tail + 1 \in 1 .. len /\ ~(p + tail + 1 <= tail)
            /\ (p + tail + 1) - 1 - tail = p
        BY <1>1, <1>2, <1>3, <2>1, <2>3
      <3> QED
        BY <1>4, <3>1
    <2>4. CASE ~(at <= p /\ p < at + len) /\ ~(p + tail < len)
      BY <1>5, <2>4
    <2>5. at <= p /\ ~(p < at + len) => ~(p + tail < len)
      BY <1>1, <1>2, <1>3, <2>1
    <2> QED
      BY <2>2, <2>3, <2>4, <2>5
  <1> QED
    BY <1>5, <1>6, <1>7 DEF new, len, at

\* Write puts its bytes behind those in the ring.
THEOREM WriteAppends ==
    ASSUME NEW r, Sound(r), NEW bytes \in Bytes, Fits(r, bytes)
    PROVE  /\ Sound(Write(r, bytes))
           /\ Write(r, bytes).dataSize = r.dataSize + Len(bytes)
           /\ Contents(Write(r, bytes)) = Contents(r) \o bytes
  <1> DEFINE new == Write(r, bytes)
             len == Len(bytes)
             size == r.dataSize
             from == r.readPos
             at == r.writePos
  <1>1. /\ r.buffer \in [Positions -> Nat]
        /\ from \in Positions /\ at \in Positions /\ size \in 0 .. BUFFER_SIZE
        /\ at = Advanced(from, size) /\ BUFFER_SIZE \in Nat
    BY SoundParts
  <1>2. len \in Nat /\ size \in Nat /\ size + len <= BUFFER_SIZE
    <2>1. len \in Nat
      BY LenProperties DEF Bytes
    <2> QED
      BY <1>1, <2>1 DEF Fits, WritableSize
  <1>3. /\ new.readPos = from /\ new.writePos = Advanced(at, len)
        /\ new.dataSize = size + len
    BY DEF Write
  <1>4. /\ new.buffer \in [Positions -> Nat]
        /\ \A j \in 1 .. len : new.buffer[Advanced(at, j - 1)] = bytes[j]
        /\ \A p \in Positions :
              \/ new.buffer[p] = r.buffer[p]
              \/ \E j \in 1 .. len : p = Advanced(at, j - 1)
    BY WriteCells
  <1>5. Sound(new)
    <2>1. new = [buffer |-> new.buffer, readPos |-> new.readPos,
                 writePos |-> new.writePos, dataSize |-> new.dataSize]
      BY DEF Write
    <2>2. new.writePos = Advanced(from, size + len)
      BY <1>1, <1>2, <1>3, AdvancedTwice
    <2>3. len \in 0 .. BUFFER_SIZE /\ size + len \in 0 .. BUFFER_SIZE
      BY <1>1, <1>2
    <2>4. new.writePos \in Positions
      BY <1>1, <1>3, <2>3, AdvancedIs
    <2> HIDE DEF new, len, size, from, at
    <2> QED
      BY <1>1, <1>3, <1>4, <2>1, <2>2, <2>3, <2>4 DEF Sound
  <1>6. new.dataSize = size + len
    BY <1>3
  <1> HIDE DEF new
  <1>7. /\ Contents(r) \in Bytes /\ Len(Contents(r)) = size
        /\ \A i \in 1 .. size : Contents(r)[i] = r.buffer[Advanced(from, i - 1)]
    BY <1>1, PeekCells DEF Contents
  <1>8. /\ Contents(new) \in Bytes /\ Len(Contents(new)) = size + len
        /\ \A i \in 1 .. size + len :
              Contents(new)[i] = new.buffer[Advanced(from, i - 1)]
    <2>1. new.dataSize \in 0 .. BUFFER_SIZE
      BY <1>5, SoundParts
    <2>2. /\ Peek(new, new.dataSize) \in Bytes
          /\ Len(Peek(new, new.dataSize)) = new.dataSize
          /\ \A i \in 1 .. new.dataSize :
                Peek(new, new.dataSize)[i] = new.buffer[Advanced(new.readPos, i - 1)]
      BY <1>5, <2>1, PeekCells
    <2> QED
      BY <1>3, <2>2 DEF Contents
  <1> HIDE DEF len, size, from, at
  <1>9. ASSUME NEW i \in 1 .. size
        PROVE  new.buffer[Advanced(from, i - 1)] = r.buffer[Advanced(from, i - 1)]
    <2>1. i - 1 \in 0 .. BUFFER_SIZE - 1 /\ i - 1 \in 0 .. BUFFER_SIZE
      BY <1>1
    <2>2. PICK p \in Positions : p = Advanced(from, i - 1)
      BY <1>1, <2>1, AdvancedIs
    <2>3. ASSUME NEW j \in 1 .. len, p = Advanced(at, j - 1)
          PROVE  FALSE
      <3>1. j - 1 \in Nat /\ size + (j - 1) <= BUFFER_SIZE
        BY <1>1, <1>2
      <3>2. Advanced(at, j - 1) = Advanced(from, size + (j - 1))
        BY <1>1, <1>2, <3>1, AdvancedTwice
      <3>3. size + (j - 1) \in 0 .. BUFFER_SIZE - 1 /\ i - 1 # size + (j - 1)
        BY <1>1, <1>2
      <3>4. Advanced(from, i - 1) # Advanced(from, size + (j - 1))
        BY <1>1, <2>1, <3>3, AdvancedApart
      <3> QED
        BY <2>2, <2>3, <3>2, <3>4
    <2> QED
      BY <1>4, <2>2, <2>3
  <1>10. ASSUME NEW i \in size + 1 .. size + len
         PROVE  new.buffer[Advanced(from, i - 1)] = bytes[i - size]
    <2>1. PICK j \in 1 .. len : j = i - size
      BY <1>1, <1>2
    <2>2. j - 1 \in Nat /\ size + (j - 1) <= BUFFER_SIZE /\ size + (j - 1) = i - 1
      BY <1>1, <1>2, <2>1
    <2>3. Advanced(at, j - 1) = Advanced(from, size + (j - 1))
      BY <1>1, <1>2, <2>2, AdvancedTwice
    <2> QED
      BY <1>4, <2>1, <2>2, <2>3
  <1>11. Contents(new) = Contents(r) \o bytes
    <2>1. /\ Contents(r) \o bytes \in Bytes
          /\ Len(Contents(r) \o bytes) = size + len
          /\ \A i \in 1 .. size + len :
                (Contents(r) \o bytes)[i] =
                   IF i <= size THEN Contents(r)[i] ELSE bytes[i - size]
      BY <1>7, JoinedCells DEF len
    <2>2. ASSUME NEW i \in 1 .. size + len
          PROVE  Contents(new)[i] = (Contents(r) \o bytes)[i]
      <3>1. CASE i <= size
        <4>1. i \in 1 .. size
          BY <1>2, <3>1
        <4> QED
          BY <1>7, <1>8, <1>9, <2>1, <3>1, <4>1
      <3>2. CASE ~(i <= size)
        <4>1. i \in size + 1 .. size + len
          BY <1>2, <3>2
        <4> QED
          BY <1>8, <1>10, <2>1, <3>2, <4>1
      <3> QED
        BY <3>1, <3>2
    <2> QED
      BY <1>8, <2>1, <2>2, SameBytes
  <1> QED
    BY <1>5, <1>6, <1>11 DEF new, len, size

\* Drop takes away what Peek shows, and leaves the rest.
THEOREM DropRemoves ==
    ASSUME NEW r, Sound(r), NEW len \in 0 .. r.dataSize
    PROVE  /\ Sound(Drop(r, len))
           /\ Drop(r, len).dataSize = r.dataSize - len
           /\ Peek(r, len) \in Bytes /\ Len(Peek(r, len)) = len
           /\ Contents(r) = Peek(r, len) \o Contents(Drop(r, len))
  <1> DEFINE new == Drop(r, len)
             size == r.dataSize
             from == r.readPos
  <1>1. /\ r.buffer \in [Positions -> Nat]
        /\ from \in Positions /\ size \in 0 .. BUFFER_SIZE
        /\ r.writePos \in Positions
        /\ r.writePos = Advanced(from, size) /\ BUFFER_SIZE \in Nat
    BY SoundParts
  <1>2. len \in Nat /\ len \in 0 .. BUFFER_SIZE /\ size - len \in 0 .. BUFFER_SIZE
        /\ size - len \in Nat /\ size \in Nat /\ len + (size - len) = size
    BY <1>1
  <1>3. /\ new.buffer = r.buffer /\ new.readPos = Advanced(from, len)
        /\ new.writePos = r.writePos /\ new.dataSize = size - len
    BY DEF Drop, Sound
  <1>4. Sound(new)
    <2>1. Advanced(from, len) \in Positions
      BY <1>1, <1>2, AdvancedIs
    <2>2. Advanced(Advanced(from, len), size - len) = Advanced(from, len + (size - len))
      <3> HIDE DEF size, from
      <3>1. len + (size - len) <= BUFFER_SIZE
        BY <1>1, <1>2
      <3> QED
        BY <1>1, <1>2, <3>1, AdvancedTwice
    <2>3. r.writePos = Advanced(Advanced(from, len), size - len)
      BY <1>1, <1>2, <2>2
    <2>4. new \in [buffer : [Positions -> Nat], readPos : Positions,
                   writePos : Positions, dataSize : 0 .. BUFFER_SIZE]
      BY <1>2, <2>1 DEF Drop, Sound
    <2> HIDE DEF new, size, from
    <2> QED
      BY <1>1, <1>3, <2>3, <2>4 DEF Sound
  <1> HIDE DEF new
  <1>5. /\ Contents(r) \in Bytes /\ Len(Contents(r)) = size
        /\ \A i \in 1 .. size : Contents(r)[i] = r.buffer[Advanced(from, i - 1)]
    BY <1>1, PeekCells DEF Contents
  <1>6. /\ Peek(r, len) \in Bytes /\ Len(Peek(r, len)) = len
        /\ \A i \in 1 .. len : Peek(r, len)[i] = r.buffer[Advanced(from, i - 1)]
    BY <1>2, PeekCells
  <1>7. /\ Contents(new) \in Bytes /\ Len(Contents(new)) = size - len
        /\ \A i \in 1 .. size - len :
              Contents(new)[i] = r.buffer[Advanced(Advanced(from, len), i - 1)]
    <2>1. new.dataSize = size - len /\ new.readPos = Advanced(from, len)
          /\ new.buffer = r.buffer
      BY <1>3
    <2>2. /\ Peek(new, size - len) \in Bytes
          /\ Len(Peek(new, size - len)) = size - len
          /\ \A i \in 1 .. size - len :
                Peek(new, size - len)[i] = new.buffer[Advanced(new.readPos, i - 1)]
      <3> HIDE DEF size
      <3> QED
        BY <1>2, <1>4, PeekCells
    <2> QED
      BY <2>1, <2>2 DEF Contents
  <1> HIDE DEF size, from
  <1>8. Contents(r) = Peek(r, len) \o Contents(new)
    <2> DEFINE both == Peek(r, len) \o Contents(new)
    <2>1. /\ both \in Bytes /\ Len(both) = size
          /\ \A i \in 1 .. size :
                both[i] = IF i <= len THEN Peek(r, len)[i] ELSE Contents(new)[i - len]
      <3>1. /\ both \in Bytes
            /\ Len(both) = Len(Peek(r, len)) + Len(Contents(new))
            /\ \A i \in 1 .. Len(Peek(r, len)) + Len(Contents(new)) :
                  both[i] = IF i <= Len(Peek(r, len)) THEN Peek(r, len)[i]
                            ELSE Contents(new)[i - Len(Peek(r, len))]
        BY <1>6, <1>7, JoinedCells
      <3> HIDE DEF both
      <3>2. Len(Peek(r, len)) + Len(Contents(new)) = size
        BY <1>2, <1>6, <1>7
      <3> QED
        BY <1>6, <3>1, <3>2
    <2> HIDE DEF both
    <2>2. ASSUME NEW i \in 1 .. size
          PROVE  Contents(r)[i] = both[i]
      <3>1. CASE i <= len
        <4>1. i \in 1 .. len
          BY <1>2, <3>1
        <4> QED
          BY <1>5, <1>6, <2>1, <3>1, <4>1
      <3>2. CASE ~(i <= len)
        <4>1. PICK j \in 1 .. size - len : j = i - len
          BY <1>2, <3>2
        <4>2. j - 1 \in Nat /\ len + (j - 1) <= BUFFER_SIZE /\ len + (j - 1) = i - 1
          BY <1>1, <1>2, <4>1
        <4>3. Advanced(Advanced(from, len), j - 1) = Advanced(from, len + (j - 1))
          BY <1>1, <1>2, <4>2, AdvancedTwice
        <4>4. Contents(new)[j] = r.buffer[Advanced(from, i - 1)]
          BY <1>7, <4>1, <4>2, <4>3
        <4>5. both[i] = Contents(new)[j]
          BY <2>1, <3>2, <4>1
        <4> QED
          BY <1>5, <4>4, <4>5
      <3> QED
        BY <3>1, <3>2
    <2>3. Contents(r) = both
      BY <1>5, <2>1, <2>2, SameBytes
    <2> QED
      BY <2>3 DEF both
  <1> QED
    BY <1>3, <1>4, <1>6, <1>8 DEF new, size

-----------------------------------------------------------------------------
(* The types. *)

LEMMA PacketsAre ==
    ASSUME NEW p \in Packets
    PROVE  /\ p \in Bytes
           /\ Len(p) \in Nat /\ 1 <= Len(p)
           /\ p[1] \in Nat
           /\ Acceptable(p) => Len(p) = p[1]
  <1>1. p \in Bytes /\ Len(p) >= HEADER_SIZE /\ (Acceptable(p) => Len(p) = p[1])
    BY RecvAssumption DEF Bytes, Acceptable
  <1>2. Len(p) \in Nat /\ 1 <= Len(p)
    <2>1. Len(p) \in Nat
      BY <1>1, LenProperties DEF Bytes
    <2> QED
      BY <1>1, <2>1, SizesAssumption
  <1> QED
    BY <1>1, <1>2, ElementOfSeq DEF Bytes

LEMMA SentAre ==
    ASSUME NEW packets \in Seq(Packets)
    PROVE  packets \in Streams
  <1>1. Packets \subseteq Bytes
    BY PacketsAre
  <1> QED
    BY <1>1, SeqMonotonic DEF Streams

\* A completion takes its chunk from the front of the stream.
LEMMA ChunkTaken ==
    ASSUME NEW bytes \in Bytes, NEW n \in Nat, n <= Len(bytes)
    PROVE  /\ SubSeq(bytes, 1, n) \in Bytes
           /\ Len(SubSeq(bytes, 1, n)) = n
           /\ SubSeq(bytes, n + 1, Len(bytes)) \in Bytes
           /\ bytes = SubSeq(bytes, 1, n) \o SubSeq(bytes, n + 1, Len(bytes))
  <1>1. bytes \in Seq(Nat) /\ Len(bytes) \in Nat
    BY LenProperties DEF Bytes
  <1>2. \A i \in 1 .. Len(bytes) : bytes[i] \in Nat
    BY <1>1, ElementOfSeq
  <1>3. /\ SubSeq(bytes, 1, n) \in Seq(Nat)
        /\ Len(SubSeq(bytes, 1, n)) = n
    <2>1. 1 \in Int /\ n \in Int /\ \A i \in 1 .. n : bytes[i] \in Nat
      BY <1>1, <1>2
    <2> QED
      BY <2>1, SubSeqProperties
  <1>4. SubSeq(bytes, n + 1, Len(bytes)) \in Seq(Nat)
    <2>1. /\ n + 1 \in Int /\ Len(bytes) \in Int
          /\ \A i \in n + 1 .. Len(bytes) : bytes[i] \in Nat
      BY <1>1, <1>2
    <2> QED
      BY <2>1, SubSeqProperties
  <1>5. SubSeq(bytes, 1, n) \o SubSeq(bytes, n + 1, Len(bytes)) = bytes
    <2>1. /\ 1 \in 1 .. Len(bytes) + 1 /\ n \in 1 - 1 .. Len(bytes)
          /\ Len(bytes) \in n .. Len(bytes)
      BY <1>1
    <2>2. SubSeq(bytes, 1, n) \o SubSeq(bytes, n + 1, Len(bytes))
             = SubSeq(bytes, 1, Len(bytes))
      BY <1>1, <2>1, ConcatAdjacentSubSeq
    <2> QED
      BY <1>1, <2>2, SubSeqFull
  <1> QED
    BY <1>3, <1>4, <1>5 DEF Bytes

\* What TryAssemblePacket reads of the ring.
LEMMA HeaderRead ==
    ASSUME NEW r, Sound(r), HasHeader(r)
    PROVE  /\ r.dataSize \in Nat /\ HEADER_SIZE \in 0 .. r.dataSize
           /\ Contents(r) \in Bytes /\ Len(Contents(r)) = r.dataSize
           /\ TotalSize(r) \in Nat
           /\ TotalSize(r) = Contents(r)[1]
           /\ HasPacket(r) => TotalSize(r) \in 0 .. r.dataSize
  <1>1. /\ HEADER_SIZE \in Nat \ {0} /\ BUFFER_SIZE \in Nat
        /\ r.dataSize \in 0 .. BUFFER_SIZE
        /\ HEADER_SIZE <= r.dataSize
    BY SizesAssumption, SoundParts DEF HasHeader
  <1>2. /\ HEADER_SIZE \in 0 .. BUFFER_SIZE /\ r.dataSize \in Nat
        /\ 1 \in 1 .. HEADER_SIZE /\ 1 \in 1 .. r.dataSize
    BY <1>1
  <1>3. /\ Contents(r) \in Bytes /\ Len(Contents(r)) = r.dataSize
        /\ Contents(r)[1] = r.buffer[Advanced(r.readPos, 1 - 1)]
    BY <1>1, <1>2, PeekCells DEF Contents
  <1>4. TotalSize(r) = r.buffer[Advanced(r.readPos, 1 - 1)]
    BY <1>2, PeekCells DEF TotalSize
  <1>5. Contents(r)[1] \in Nat
    BY <1>2, <1>3, ElementOfSeq DEF Bytes
  <1>6. HasPacket(r) => TotalSize(r) <= r.dataSize
    BY DEF HasPacket
  <1> QED
    BY <1>1, <1>2, <1>3, <1>4, <1>5, <1>6

LEMMA TypeInductive ==
    /\ Init => TypeOK
    /\ TypeOK /\ [Next]_vars => TypeOK'
  <1>1. Init => TypeOK
    <2>1. Sound(EmptyRing)
      <3>1. 0 \in Positions /\ 0 \in 0 .. BUFFER_SIZE /\ BUFFER_SIZE \in Nat
        BY SizesAssumption DEF Positions
      <3>2. Advanced(0, 0) = 0
        BY <3>1, AdvancedIs, SizesAssumption
      <3> QED
        BY <3>1, <3>2 DEF Sound, EmptyRing
    <2> QED
      BY <2>1, EmptySeq DEF Init, TypeOK
  <1>2. TypeOK /\ [Next]_vars => TypeOK'
    <2> SUFFICES ASSUME TypeOK, [Next]_vars
                 PROVE  TypeOK'
      OBVIOUS
    <2>0. /\ network \in Bytes /\ Sound(ring) /\ recv \in {"posted", "handling", "over"}
          /\ sent \in Seq(Packets) /\ handled \in Seq(Bytes)
      BY DEF TypeOK, Bytes
    <2>1. ASSUME NEW p \in Packets, Send(p)
          PROVE  TypeOK'
      <3>1. network' \in Bytes
        BY <2>0, <2>1, PacketsAre, Joined DEF Send
      <3>2. sent' \in Seq(Packets)
        BY <2>0, <2>1, AppendProperties DEF Send
      <3> QED
        BY <2>0, <2>1, <3>1, <3>2 DEF Send, TypeOK, Bytes
    <2>2. ASSUME NEW n \in 1 .. RECV_SIZE, n <= Len(network), RecvCompleted(n)
          PROVE  TypeOK'
      <3>1. n \in Nat
        BY RecvAssumption
      <3>2. SubSeq(network, 1, n) \in Bytes /\ network' \in Bytes
        BY <2>0, <2>2, <3>1, ChunkTaken DEF RecvCompleted
      <3>3. Sound(ring') /\ recv' \in {"posted", "handling", "over"}
        BY <2>0, <2>2, <3>2, WriteAppends DEF RecvCompleted, PostRecv
      <3> QED
        BY <2>0, <2>2, <3>2, <3>3 DEF RecvCompleted, TypeOK, Bytes
    <2>3. ASSUME HandlePacket \/ HandlerThrows
          PROVE  TypeOK'
      <3>0. TakePacket /\ recv' \in {"posted", "handling", "over"}
        BY <2>0, <2>3 DEF HandlePacket, HandlerThrows
      <3>1. TotalSize(ring) \in 0 .. ring.dataSize
        BY <2>0, <3>0, HeaderRead DEF TakePacket, HasPacket
      <3>2. Sound(ring') /\ FirstPacket(ring) \in Bytes
        BY <2>0, <3>0, <3>1, DropRemoves DEF TakePacket, FirstPacket
      <3>3. handled' \in Seq(Bytes)
        BY <2>0, <3>0, <3>2, AppendProperties DEF TakePacket
      <3> QED
        BY <2>0, <3>0, <3>2, <3>3 DEF TakePacket, TypeOK, Bytes
    <2>4. ASSUME NoPacket
          PROVE  TypeOK'
      <3>1. Sound(ring')
        BY <2>0, <2>4, HeaderRead, DropRemoves DEF NoPacket, HasBadHeader
      <3> QED
        BY <2>0, <2>4, <3>1 DEF NoPacket, PostRecv, TypeOK, Bytes
    <2>5. CASE ConnectionEnds \/ UNCHANGED vars
      BY <2>5 DEF ConnectionEnds, vars, TypeOK
    <2> QED
      BY <2>1, <2>2, <2>3, <2>4, <2>5 DEF Next, Complete, Worker
  <1> QED
    BY <1>1, <1>2

\* Every reachable state has its types, and the ring's size agrees with its
\* positions through every wrap-around.
THEOREM TypeCorrect == Spec => []TypeOK
  <1> QED
    BY TypeInductive, PTL DEF Spec

-----------------------------------------------------------------------------
(* The stream. *)

\* As long as the server has met no rejected header, it has handled the first
\* packets of those sent, and the bytes of the others are in the ring and in
\* TCP's hands, in their order.
InStep ==
    /\ Len(handled) <= Len(sent)
    /\ \A i \in 1 .. Len(handled) : Acceptable(sent[i]) /\ handled[i] = sent[i]
    /\ FlattenSeq(sent) = FlattenSeq(handled) \o (Contents(ring) \o network)
    /\ recv = "posted" => ring.dataSize < MAX_PACKET_SIZE

\* Afterwards only what it handled before stands.
Astray ==
    \E n \in 1 .. Len(sent) :
        /\ ~Acceptable(sent[n])
        /\ n - 1 <= Len(handled)
        /\ \A i \in 1 .. n - 1 : Acceptable(sent[i]) /\ handled[i] = sent[i]

\* In step, the bytes in the ring and behind it begin with the next packet.
LEMMA NextPacket ==
    ASSUME TypeOK, InStep, HasHeader(ring)
    PROVE  LET next == Len(handled) + 1 IN
           /\ next \in 1 .. Len(sent)
           /\ sent[next] \in Packets
           /\ TotalSize(ring) = sent[next][1]
           /\ \E rest \in Bytes : Contents(ring) \o network = sent[next] \o rest
  <1> DEFINE h == Len(handled)
             X == Contents(ring) \o network
  <1>1. /\ network \in Bytes /\ Sound(ring)
        /\ sent \in Seq(Packets) /\ sent \in Streams
        /\ handled \in Streams
    BY SentAre DEF TypeOK, Bytes, Streams
  <1>2. /\ h \in Nat /\ Len(sent) \in Nat /\ h <= Len(sent)
        /\ \A i \in 1 .. h : handled[i] = sent[i]
        /\ FlattenSeq(sent) = FlattenSeq(handled) \o X
    BY <1>1, StreamsAre DEF InStep
  <1>3. /\ Contents(ring) \in Bytes /\ Len(Contents(ring)) = ring.dataSize
        /\ ring.dataSize \in Nat /\ 1 <= ring.dataSize
        /\ TotalSize(ring) = Contents(ring)[1]
    <2>1. HEADER_SIZE <= ring.dataSize /\ HEADER_SIZE \in Nat \ {0}
      BY SizesAssumption DEF HasHeader
    <2> QED
      BY <1>1, <2>1, HeaderRead
  <1>4. /\ X \in Bytes /\ Len(X) \in Nat /\ 1 <= Len(X)
        /\ X[1] = TotalSize(ring)
    <2>1. /\ X \in Bytes /\ Len(X) = Len(Contents(ring)) + Len(network)
          /\ Len(network) \in Nat
          /\ \A i \in 1 .. Len(Contents(ring)) + Len(network) :
                X[i] = IF i <= Len(Contents(ring)) THEN Contents(ring)[i]
                       ELSE network[i - Len(Contents(ring))]
      BY <1>1, <1>3, JoinedCells
    <2> HIDE DEF X
    <2>2. 1 \in 1 .. Len(Contents(ring)) + Len(network) /\ 1 <= Len(Contents(ring))
      BY <1>3, <2>1
    <2> QED
      BY <1>3, <2>1, <2>2
  <1> HIDE DEF X, h
  <1>5. FlattenSeq(handled) \in Bytes
    BY <1>1, FlattenType
  <1>6. h < Len(sent)
    <2>1. ASSUME h = Len(sent) PROVE FALSE
      <3>1. handled = sent
        BY <1>1, <1>2, <2>1, SeqEqual DEF h, Streams
      <3>2. FlattenSeq(handled) \o <<>> = FlattenSeq(handled) \o X
        BY <1>2, <1>5, <3>1, JoinedEmpty
      <3>3. X = <<>>
        BY <1>4, <1>5, <3>2, JoinedEmpty, Cancelled
      <3> QED
        BY <1>4, <3>3
    <2> QED
      BY <1>2, <2>1
  <1>7. h + 1 \in 1 .. Len(sent) /\ h + 1 \in 0 .. Len(sent)
    BY <1>2, <1>6
  <1>8. PICK p \in Packets : p = sent[h + 1]
    BY <1>1, <1>7, ElementOfSeq
  <1>9. p \in Bytes /\ Len(p) \in Nat /\ 1 <= Len(p)
    BY PacketsAre
  <1>10. SubSeq(sent, 1, h + 1) = Append(handled, p)
    <2>1. /\ SubSeq(sent, 1, h + 1) \in Seq(Bytes)
          /\ Len(SubSeq(sent, 1, h + 1)) = h + 1
          /\ \A i \in 1 .. h + 1 : SubSeq(sent, 1, h + 1)[i] = sent[i]
      <3>1. \A i \in 1 .. h + 1 : sent[i] \in Bytes
        BY <1>1, <1>2, <1>7, StreamsAre
      <3>2. 1 \in Int /\ h + 1 \in Int
        BY <1>2
      <3> QED
        BY <1>2, <3>1, <3>2, SubSeqProperties
    <2>2. /\ Append(handled, p) \in Seq(Bytes)
          /\ Len(Append(handled, p)) = h + 1
          /\ \A i \in 1 .. h : Append(handled, p)[i] = handled[i]
          /\ Append(handled, p)[h + 1] = p
      BY <1>1, <1>9, AppendProperties DEF Streams, h
    <2>3. ASSUME NEW i \in 1 .. h + 1
          PROVE  SubSeq(sent, 1, h + 1)[i] = Append(handled, p)[i]
      <3>1. i \in 1 .. h \/ i = h + 1
        BY <1>2
      <3> QED
        BY <1>2, <1>8, <2>1, <2>2, <3>1
    <2> QED
      BY <2>1, <2>2, <2>3, SeqEqual
  <1>11. PICK rest \in Bytes :
            FlattenSeq(sent) = FlattenSeq(Append(handled, p)) \o rest
    BY <1>1, <1>7, <1>10, FlattenPrefix
  <1>12. FlattenSeq(handled) \o X = (FlattenSeq(handled) \o p) \o rest
    BY <1>1, <1>2, <1>9, <1>11, FlattenAppend
  <1>13. (FlattenSeq(handled) \o p) \o rest = FlattenSeq(handled) \o (p \o rest)
    BY <1>5, <1>9, Regrouped
  <1>14. p \o rest \in Bytes
    BY <1>9, Joined
  <1>15. X = p \o rest
    BY <1>4, <1>5, <1>12, <1>13, <1>14, Cancelled
  <1>16. (p \o rest)[1] = p[1]
    <2>1. /\ Len(rest) \in Nat
          /\ \A i \in 1 .. Len(p) + Len(rest) :
                (p \o rest)[i] = IF i <= Len(p) THEN p[i] ELSE rest[i - Len(p)]
      BY <1>9, JoinedCells
    <2>2. 1 \in 1 .. Len(p) + Len(rest) /\ 1 <= Len(p)
      BY <1>9, <2>1
    <2> QED
      BY <2>1, <2>2
  <1>17. /\ h + 1 \in 1 .. Len(sent) /\ sent[h + 1] \in Packets
         /\ TotalSize(ring) = sent[h + 1][1]
         /\ \E tail \in Bytes : X = sent[h + 1] \o tail
    BY <1>4, <1>7, <1>8, <1>15, <1>16
  <1> QED
    BY <1>17 DEF h, X

\* What was sent and what was handled only grow.
Extends(t, s) ==
    /\ Len(s) <= Len(t)
    /\ \A i \in 1 .. Len(s) : t[i] = s[i]

LEMMA AppendExtends ==
    ASSUME NEW S, NEW s \in Seq(S), NEW e \in S
    PROVE  Extends(Append(s, e), s) /\ Extends(s, s)
  BY AppendProperties, LenProperties DEF Extends

LEMMA HistoriesGrow ==
    ASSUME TypeOK, [Next]_vars
    PROVE  Extends(sent', sent) /\ Extends(handled', handled)
  <1>1. sent \in Seq(Packets) /\ handled \in Seq(Bytes)
    BY DEF TypeOK, Bytes
  <1>2. Extends(sent, sent) /\ Extends(handled, handled)
    BY <1>1, LenProperties DEF Extends
  <1>3. ASSUME TakePacket
        PROVE  Extends(handled', handled) /\ sent' = sent
    <2>1. FirstPacket(ring) \in Bytes
      BY <1>3, HeaderRead, DropRemoves DEF TakePacket, HasPacket, FirstPacket, TypeOK
    <2> QED
      BY <1>1, <1>3, <2>1, AppendExtends DEF TakePacket
  <1>4. ASSUME NEW p \in Packets, Send(p)
        PROVE  Extends(sent', sent)
    BY <1>1, <1>4, AppendExtends DEF Send
  <1> QED
    BY <1>2, <1>3, <1>4
    DEF Next, Send, Complete, RecvCompleted, ConnectionEnds, Worker, HandlePacket,
        HandlerThrows, NoPacket, vars

LEMMA AstrayStays ==
    ASSUME TypeOK, Astray, [Next]_vars
    PROVE  Astray'
  <1>1. Extends(sent', sent) /\ Extends(handled', handled) /\ TypeOK'
    BY HistoriesGrow, TypeInductive
  <1>2. /\ Len(sent) \in Nat /\ Len(handled) \in Nat
        /\ Len(sent') \in Nat /\ Len(handled') \in Nat
    BY <1>1, LenProperties DEF TypeOK
  <1>3. PICK n \in 1 .. Len(sent) :
           /\ ~Acceptable(sent[n])
           /\ n - 1 <= Len(handled)
           /\ \A i \in 1 .. n - 1 : Acceptable(sent[i]) /\ handled[i] = sent[i]
    BY DEF Astray
  <1>4. n \in 1 .. Len(sent') /\ sent'[n] = sent[n] /\ n - 1 <= Len(handled')
    BY <1>1, <1>2, <1>3 DEF Extends
  <1>5. ASSUME NEW i \in 1 .. n - 1
        PROVE  sent'[i] = sent[i] /\ handled'[i] = handled[i]
    <2>1. i \in 1 .. Len(sent) /\ i \in 1 .. Len(handled)
      BY <1>2, <1>3
    <2> QED
      BY <1>1, <2>1 DEF Extends
  <1>6. ~Acceptable(sent'[n])
    BY <1>3, <1>4
  <1>7. \A i \in 1 .. n - 1 : Acceptable(sent'[i]) /\ handled'[i] = sent'[i]
    BY <1>3, <1>5
  <1> QED
    BY <1>4, <1>6, <1>7 DEF Astray

\* A worker that finds no packet leaves less than one in the ring.
LEMMA NoPacketLeft ==
    ASSUME TypeOK, ~HasPacket(ring), ~HasBadHeader(ring)
    PROVE  ring.dataSize < MAX_PACKET_SIZE
  <1>1. /\ HEADER_SIZE \in Nat /\ MAX_PACKET_SIZE \in Nat
        /\ HEADER_SIZE <= MAX_PACKET_SIZE
        /\ Sound(ring) /\ ring.dataSize \in Nat
    BY SizesAssumption, SoundParts DEF TypeOK
  <1>2. CASE HasHeader(ring)
    <2>1. TotalSize(ring) \in Nat
      BY <1>1, <1>2, HeaderRead
    <2>2. TotalSize(ring) <= MAX_PACKET_SIZE /\ ~(TotalSize(ring) <= ring.dataSize)
      BY <1>2 DEF HasPacket, HasBadHeader, SizeAllowed
    <2> QED
      BY <1>1, <2>1, <2>2
  <1>3. CASE ~HasHeader(ring)
    BY <1>1, <1>3 DEF HasHeader
  <1> QED
    BY <1>2, <1>3

\* In step, a step of the server handles the next packet or meets the first
\* rejected header.
LEMMA StreamInductive ==
    /\ Init => InStep
    /\ TypeOK /\ InStep /\ [Next]_vars => InStep' \/ Astray'
  <1>1. Init => InStep
    <2> SUFFICES ASSUME Init PROVE InStep
      OBVIOUS
    <2>1. TypeOK
      BY TypeInductive
    <2>2. ring.dataSize = 0 /\ network = <<>> /\ sent = <<>> /\ handled = <<>>
      BY DEF Init, EmptyRing
    <2>3. Contents(ring) \in Bytes /\ Len(Contents(ring)) = 0
      BY <2>1, <2>2, SoundParts, PeekCells DEF Contents, TypeOK
    <2>4. Contents(ring) = <<>>
      BY <2>3, EmptySeq DEF Bytes
    <2>5. FlattenSeq(sent) = FlattenSeq(handled) \o (Contents(ring) \o network)
      BY <2>2, <2>3, <2>4, JoinedEmpty, FlattenEmpty
    <2>6. Len(handled) = 0 /\ Len(sent) = 0 /\ 0 < MAX_PACKET_SIZE
      BY <2>2, SizesAssumption
    <2> QED
      BY <2>2, <2>5, <2>6 DEF InStep
  <1>2. TypeOK /\ InStep /\ [Next]_vars => InStep' \/ Astray'
    <2> SUFFICES ASSUME TypeOK, InStep, [Next]_vars
                 PROVE  InStep' \/ Astray'
      OBVIOUS
    <2>0. /\ network \in Bytes /\ Sound(ring)
          /\ sent \in Seq(Packets) /\ sent \in Streams
          /\ handled \in Streams /\ handled \in Seq(Bytes)
          /\ Len(sent) \in Nat /\ Len(handled) \in Nat
          /\ FlattenSeq(sent) \in Bytes /\ FlattenSeq(handled) \in Bytes
          /\ Contents(ring) \in Bytes /\ Contents(ring) \o network \in Bytes
          /\ ring.dataSize \in Nat /\ ring.dataSize <= BUFFER_SIZE
      <3>1. /\ network \in Bytes /\ Sound(ring) /\ sent \in Seq(Packets)
            /\ handled \in Streams /\ handled \in Seq(Bytes)
        BY DEF TypeOK, Bytes, Streams
      <3>2. sent \in Streams
        BY <3>1, SentAre
      <3>3. ring.dataSize \in 0 .. BUFFER_SIZE /\ BUFFER_SIZE \in Nat
        BY <3>1, SoundParts
      <3>4. Contents(ring) \in Bytes
        BY <3>1, <3>3, PeekCells DEF Contents
      <3> QED
        BY <3>1, <3>2, <3>3, <3>4, StreamsAre, FlattenType, Joined
    <2>1. ASSUME NEW p \in Packets, Send(p)
          PROVE  InStep'
      <3>1. p \in Bytes
        BY PacketsAre
      <3>2. /\ sent' = Append(sent, p) /\ Len(sent') = Len(sent) + 1
            /\ \A i \in 1 .. Len(sent) : sent'[i] = sent[i]
            /\ UNCHANGED <<ring, recv, handled>> /\ network' = network \o p
        BY <2>0, <2>1, AppendProperties DEF Send
      <3>3. FlattenSeq(sent') = (FlattenSeq(handled) \o (Contents(ring) \o network)) \o p
        <4>1. FlattenSeq(Append(sent, p)) = FlattenSeq(sent) \o p
          BY <2>0, <3>1, FlattenAppend
        <4> QED
          BY <3>2, <4>1 DEF InStep
      <3>4. (FlattenSeq(handled) \o (Contents(ring) \o network)) \o p
               = FlattenSeq(handled) \o ((Contents(ring) \o network) \o p)
        <4>1. PICK done \in Bytes, open \in Bytes :
                 done = FlattenSeq(handled) /\ open = Contents(ring) \o network
          BY <2>0, Zenon
        <4>2. (done \o open) \o p = done \o (open \o p)
          BY <3>1, Regrouped, Zenon
        <4> QED
          BY <4>1, <4>2, Zenon
      <3>5. (Contents(ring) \o network) \o p = Contents(ring) \o (network \o p)
        <4>1. PICK c \in Bytes, net \in Bytes : c = Contents(ring) /\ net = network
          BY <2>0, Zenon
        <4>2. (c \o net) \o p = c \o (net \o p)
          BY <3>1, Regrouped, Zenon
        <4> QED
          BY <4>1, <4>2, Zenon
      <3>6. FlattenSeq(sent') = FlattenSeq(handled') \o (Contents(ring') \o network')
        BY <3>2, <3>3, <3>4, <3>5
      <3>7. /\ Len(handled') <= Len(sent')
            /\ \A i \in 1 .. Len(handled') :
                  Acceptable(sent'[i]) /\ handled'[i] = sent'[i]
        <4>1. Len(handled) <= Len(sent)
          BY DEF InStep
        <4>2. ASSUME NEW i \in 1 .. Len(handled)
              PROVE  sent'[i] = sent[i] /\ Acceptable(sent[i]) /\ handled[i] = sent[i]
          <5>1. i \in 1 .. Len(sent)
            BY <2>0, <4>1
          <5> QED
            BY <3>2, <5>1 DEF InStep
        <4> QED
          BY <2>0, <3>2, <4>1, <4>2
      <3> QED
        BY <3>2, <3>6, <3>7 DEF InStep
    <2>2. ASSUME NEW n \in 1 .. RECV_SIZE, n <= Len(network), RecvCompleted(n)
          PROVE  InStep'
      <3>1. n \in Nat /\ n <= RECV_SIZE /\ RECV_SIZE \in Nat
        BY RecvAssumption
      <3>2. PICK chunk \in Bytes, behind \in Bytes :
               /\ chunk = SubSeq(network, 1, n)
               /\ behind = SubSeq(network, n + 1, Len(network))
               /\ Len(chunk) = n /\ network = chunk \o behind
        <4>1. /\ SubSeq(network, 1, n) \in Bytes
              /\ SubSeq(network, n + 1, Len(network)) \in Bytes
              /\ Len(SubSeq(network, 1, n)) = n
              /\ network = SubSeq(network, 1, n) \o SubSeq(network, n + 1, Len(network))
          BY <2>0, <2>2, <3>1, ChunkTaken
        <4> QED
          BY <4>1, Zenon
      <3>3. Fits(ring, chunk)
        <4>1. ring.dataSize < MAX_PACKET_SIZE
          BY <2>2 DEF RecvCompleted, InStep
        <4>2. /\ RECV_SIZE + MAX_PACKET_SIZE - 1 <= BUFFER_SIZE
              /\ MAX_PACKET_SIZE \in Nat /\ BUFFER_SIZE \in Nat
          BY RecvAssumption, SizesAssumption
        <4> QED
          BY <2>0, <3>1, <3>2, <4>1, <4>2 DEF Fits, WritableSize
      <3>4. /\ ring' = Write(ring, chunk) /\ recv' = "handling"
            /\ network' = behind /\ UNCHANGED <<sent, handled>>
        BY <2>2, <3>2, <3>3 DEF RecvCompleted
      <3>5. Contents(ring') = Contents(ring) \o chunk
        BY <2>0, <3>2, <3>3, <3>4, WriteAppends
      <3>6. (Contents(ring) \o chunk) \o behind = Contents(ring) \o (chunk \o behind)
        <4>1. PICK c \in Bytes : c = Contents(ring)
          BY <2>0
        <4>2. (c \o chunk) \o behind = c \o (chunk \o behind)
          BY Regrouped, Zenon
        <4> QED
          BY <4>1, <4>2
      <3> QED
        BY <3>2, <3>4, <3>5, <3>6 DEF InStep
    <2>3. ASSUME HandlePacket \/ HandlerThrows
          PROVE  InStep'
      <3> DEFINE next == Len(handled) + 1
                 total == TotalSize(ring)
      <3>1. HasHeader(ring) /\ SizeAllowed(total) /\ total \in 0 .. ring.dataSize
        BY <2>0, <2>3, HeaderRead DEF HandlePacket, HandlerThrows, TakePacket, HasPacket
      <3>2. PICK p \in Packets : /\ next \in 1 .. Len(sent) /\ p = sent[next]
                                 /\ total = p[1]
        BY <3>1, NextPacket
      <3>3. Acceptable(p) /\ p \in Bytes /\ Len(p) = total
        BY <3>1, <3>2, PacketsAre DEF Acceptable
      <3>4. /\ ring' = Drop(ring, total) /\ handled' = Append(handled, Peek(ring, total))
            /\ UNCHANGED <<network, sent>> /\ recv' # "posted"
        BY <2>3 DEF HandlePacket, HandlerThrows, TakePacket, FirstPacket
      <3> HIDE DEF total, next
      <3>5. /\ Sound(ring') /\ ring'.dataSize = ring.dataSize - total
            /\ Peek(ring, total) \in Bytes /\ Len(Peek(ring, total)) = total
            /\ Contents(ring) = Peek(ring, total) \o Contents(ring')
        BY <2>0, <3>1, <3>4, DropRemoves
      <3>6. Contents(ring') \in Bytes
        BY <3>5, SoundParts, PeekCells DEF Contents
      <3>7. /\ Contents(ring') \o network \in Bytes
            /\ Contents(ring) \o network
                  = Peek(ring, total) \o (Contents(ring') \o network)
        <4>1. PICK front \in Bytes, left \in Bytes, net \in Bytes :
                 front = Peek(ring, total) /\ left = Contents(ring') /\ net = network
          BY <2>0, <3>5, <3>6, Zenon
        <4>2. (front \o left) \o net = front \o (left \o net)
          BY Regrouped, Zenon
        <4>3. left \o net \in Bytes
          BY Joined, Zenon
        <4> QED
          BY <3>5, <4>1, <4>2, <4>3, Zenon
      <3>8. PICK rest \in Bytes : Contents(ring) \o network = p \o rest
        BY <3>1, <3>2, NextPacket DEF next
      <3>9. Peek(ring, total) = p /\ Contents(ring') \o network = rest
        <4>1. PICK front \in Bytes, behind \in Bytes :
                 front = Peek(ring, total) /\ behind = Contents(ring') \o network
          BY <3>5, <3>7, Zenon
        <4>2. front \o behind = p \o rest /\ Len(front) = Len(p)
          BY <3>3, <3>5, <3>7, <3>8, <4>1, Zenon
        <4>3. front = p /\ behind = rest
          BY <3>3, <4>2, SameParts, Zenon
        <4> QED
          BY <4>1, <4>3, Zenon
      <3>10. /\ handled' = Append(handled, p)
             /\ Len(handled') = next
             /\ \A i \in 1 .. Len(handled) : handled'[i] = handled[i]
             /\ handled'[next] = p
        BY <2>0, <3>3, <3>4, <3>9, AppendProperties DEF next
      <3>11. FlattenSeq(handled') = FlattenSeq(handled) \o p
        BY <2>0, <3>3, <3>10, FlattenAppend
      <3>12. (FlattenSeq(handled) \o p) \o rest = FlattenSeq(handled) \o (p \o rest)
        <4>1. PICK done \in Bytes, q \in Bytes : done = FlattenSeq(handled) /\ q = p
          BY <2>0, <3>3
        <4>2. (done \o q) \o rest = done \o (q \o rest)
          BY Regrouped, Zenon
        <4> QED
          BY <4>1, <4>2
      <3>13. FlattenSeq(sent') = FlattenSeq(handled') \o (Contents(ring') \o network')
        BY <3>8, <3>4, <3>9, <3>11, <3>12 DEF InStep
      <3>14. ASSUME NEW i \in 1 .. next
             PROVE  Acceptable(sent[i]) /\ handled'[i] = sent[i]
        <4>1. i \in 1 .. Len(handled) \/ i = next
          BY <2>0 DEF next
        <4> QED
          BY <3>2, <3>3, <3>10, <4>1 DEF InStep
      <3>15. next <= Len(sent)
        BY <2>0, <3>2
      <3> QED
        BY <3>4, <3>10, <3>13, <3>14, <3>15 DEF InStep
    <2>4. ASSUME NoPacket
          PROVE  InStep' \/ Astray'
      <3>1. CASE HasBadHeader(ring)
        <4> DEFINE next == Len(handled) + 1
        <4>1. HasHeader(ring) /\ ~SizeAllowed(TotalSize(ring))
          BY <3>1 DEF HasBadHeader
        <4>2. next \in 1 .. Len(sent) /\ TotalSize(ring) = sent[next][1]
          BY <4>1, NextPacket
        <4>3. ~Acceptable(sent[next])
          BY <4>1, <4>2 DEF Acceptable
        <4>4. next - 1 = Len(handled)
          BY <2>0
        <4>5. UNCHANGED <<sent, handled>>
          BY <2>4 DEF NoPacket
        <4> HIDE DEF next
        <4>6. \A i \in 1 .. next - 1 : Acceptable(sent[i]) /\ handled[i] = sent[i]
          BY <4>4 DEF InStep
        <4>7. next - 1 <= Len(handled)
          BY <2>0, <4>4
        <4> QED
          BY <4>2, <4>3, <4>5, <4>6, <4>7 DEF Astray
      <3>2. CASE ~HasBadHeader(ring)
        <4>1. ring.dataSize < MAX_PACKET_SIZE
          BY <2>4, <3>2, NoPacketLeft DEF NoPacket
        <4> QED
          BY <2>4, <3>2, <4>1 DEF NoPacket, InStep
      <3> QED
        BY <3>1, <3>2
    <2>5. CASE ConnectionEnds \/ UNCHANGED vars
      BY <2>5 DEF ConnectionEnds, vars, InStep
    <2> QED
      BY <2>1, <2>2, <2>3, <2>4, <2>5 DEF Next, Complete, Worker
  <1> QED
    BY <1>1, <1>2

LEMMA PathInvariant == Spec => [](TypeOK /\ (InStep \/ Astray))
  <1>1. Init => TypeOK /\ (InStep \/ Astray)
    BY TypeInductive, StreamInductive
  <1>2. TypeOK /\ (InStep \/ Astray) /\ [Next]_vars => (TypeOK /\ (InStep \/ Astray))'
    BY TypeInductive, StreamInductive, AstrayStays
  <1> QED
    BY <1>1, <1>2, PTL DEF Spec

LEMMA CleanIsInStep ==
    ASSUME InStep \/ Astray, Clean
    PROVE  InStep
  BY DEF Astray, Clean

\* Between completions less than one packet is in the ring: a recv always fits.
THEOREM ResidueHeld == Spec => []ResidueBounded
  <1>1. TypeOK /\ (InStep \/ Astray) => ResidueBounded
    BY CleanIsInStep DEF InStep, ResidueBounded
  <1> QED
    BY <1>1, PathInvariant, PTL

\* Between the client and the handlers no byte is lost, invented or reordered.
THEOREM BytesKept == Spec => []BytesConserved
  <1>1. TypeOK /\ (InStep \/ Astray) => BytesConserved
    <2> SUFFICES ASSUME TypeOK, InStep \/ Astray, Clean
                 PROVE  FlattenSeq(sent) = FlattenSeq(handled) \o Contents(ring) \o network
      BY DEF BytesConserved
    <2>1. InStep
      BY CleanIsInStep
    <2>2. /\ network \in Bytes /\ handled \in Streams /\ Sound(ring)
      BY DEF TypeOK, Bytes, Streams
    <2>3. FlattenSeq(handled) \in Bytes /\ Contents(ring) \in Bytes
      BY <2>2, FlattenType, SoundParts, PeekCells DEF Contents
    <2>4. (FlattenSeq(handled) \o Contents(ring)) \o network
             = FlattenSeq(handled) \o (Contents(ring) \o network)
      BY <2>2, <2>3, Regrouped
    <2> QED
      BY <2>1, <2>4 DEF InStep
  <1> QED
    BY <1>1, PathInvariant, PTL

-----------------------------------------------------------------------------
(* The promise. *)

\* The first n packets are acceptable and the next one, if there is one, is not.
CutAt(packets, n) ==
    /\ n \in 0 .. Len(packets)
    /\ \A i \in 1 .. n : Acceptable(packets[i])
    /\ n < Len(packets) => ~Acceptable(packets[n + 1])

LEMMA CutExists ==
    ASSUME NEW packets \in Seq(Packets)
    PROVE  \E n \in Nat : CutAt(packets, n)
  <1> DEFINE bad == { i \in 1 .. Len(packets) : ~Acceptable(packets[i]) }
  <1>1. Len(packets) \in Nat
    BY LenProperties
  <1>2. CASE bad = {}
    <2>1. \A i \in 1 .. Len(packets) : Acceptable(packets[i])
      BY <1>2
    <2>2. CutAt(packets, Len(packets))
      BY <1>1, <2>1 DEF CutAt
    <2> QED
      BY <1>1, <2>2
  <1>3. CASE bad # {}
    <2>1. bad \subseteq Nat /\ IsFiniteSet(bad)
      <3>1. IsFiniteSet(1 .. Len(packets))
        BY <1>1, FS_Interval
      <3>2. bad \in SUBSET (1 .. Len(packets))
        OBVIOUS
      <3>3. IsFiniteSet(bad)
        BY <3>1, <3>2, FS_Subset
      <3>4. 1 .. Len(packets) \subseteq Nat
        BY <1>1
      <3> QED
        BY <3>2, <3>3, <3>4
    <2>2. PICK m \in bad : \A i \in bad : m <= i
      BY <1>3, <2>1, LeastExists
    <2>3. m \in 1 .. Len(packets) /\ ~Acceptable(packets[m])
      BY <2>2
    <2>4. PICK n \in Nat : n + 1 = m
      <3>1. m - 1 \in Nat /\ (m - 1) + 1 = m
        BY <1>1, <2>3
      <3> QED
        BY <3>1
    <2>5. ASSUME NEW i \in 1 .. n
          PROVE  Acceptable(packets[i])
      <3>1. i \in 1 .. Len(packets) /\ ~(m <= i)
        BY <1>1, <2>3, <2>4
      <3> QED
        BY <2>2, <3>1
    <2>6. n \in 0 .. Len(packets)
      BY <1>1, <2>3, <2>4
    <2>7. CutAt(packets, n)
      BY <2>3, <2>4, <2>5, <2>6 DEF CutAt
    <2> QED
      BY <2>7
  <1> QED
    BY <1>2, <1>3

\* The packets before the first rejected one are those before the cut.
LEMMA BeforeIs ==
    ASSUME NEW packets \in Seq(Packets), NEW n \in Nat, CutAt(packets, n)
    PROVE  /\ Before(packets) = SubSeq(packets, 1, n)
           /\ Before(packets) \in Seq(Packets)
           /\ Len(Before(packets)) = n
           /\ \A i \in 1 .. n : Before(packets)[i] = packets[i]
  <1> DEFINE good == { k \in 1 .. Len(packets) :
                         \A i \in 1 .. k : Acceptable(packets[i]) }
  <1>1. Len(packets) \in Nat /\ n <= Len(packets)
    BY LenProperties DEF CutAt
  <1>2. ASSUME NEW k \in good
        PROVE  k \in 1 .. n
    <2>1. k \in 1 .. Len(packets) /\ \A i \in 1 .. k : Acceptable(packets[i])
      OBVIOUS
    <2>2. ASSUME n < k
          PROVE  FALSE
      <3>1. n + 1 \in 1 .. k /\ n < Len(packets)
        BY <1>1, <2>1, <2>2
      <3> QED
        BY <2>1, <3>1 DEF CutAt
    <2> QED
      BY <1>1, <2>1, <2>2
  <1>3. ASSUME NEW k \in 1 .. n
        PROVE  k \in good
    <2>1. k \in 1 .. Len(packets) /\ \A i \in 1 .. k : i \in 1 .. n
      BY <1>1
    <2> QED
      BY <2>1 DEF CutAt
  <1>4. good = 1 .. n
    BY <1>2, <1>3
  <1>5. Cardinality(good) = n
    <2>1. 1 \in Int /\ n \in Int /\ (IF 1 > n THEN 0 ELSE n - 1 + 1) = n
      OBVIOUS
    <2> QED
      BY <1>4, <2>1, FS_Interval
  <1>6. Before(packets) = SubSeq(packets, 1, n)
    BY <1>5 DEF Before
  <1>7. \A i \in 1 .. n : packets[i] \in Packets
    <2>1. \A i \in 1 .. n : i \in 1 .. Len(packets)
      BY <1>1
    <2> QED
      BY <2>1, ElementOfSeq
  <1>8. /\ SubSeq(packets, 1, n) \in Seq(Packets)
        /\ Len(SubSeq(packets, 1, n)) = n
        /\ \A i \in 1 .. n : SubSeq(packets, 1, n)[i] = packets[i]
    <2>1. /\ 1 \in Int /\ n \in Int
          /\ (IF 1 <= n THEN n - 1 + 1 ELSE 0) = n
          /\ n - 1 + 1 = n
      OBVIOUS
    <2>2. \A i \in 1 .. n : 1 + i - 1 = i
      OBVIOUS
    <2> QED
      BY <1>7, <2>1, <2>2, SubSeqProperties
  <1> QED
    BY <1>6, <1>8

\* Of the packets before the cut, those handled are the first of those sent.
CutHandled ==
    \A n \in Nat : CutAt(sent, n) =>
        \A i \in 1 .. n : i <= Len(handled) => handled[i] = sent[i]

LEMMA HandledFirst == TypeOK /\ (InStep \/ Astray) => CutHandled
  <1> SUFFICES ASSUME TypeOK, InStep \/ Astray, NEW n \in Nat, CutAt(sent, n)
               PROVE  \A i \in 1 .. n : i <= Len(handled) => handled[i] = sent[i]
    BY DEF CutHandled
  <1>1. Len(sent) \in Nat /\ Len(handled) \in Nat
    BY LenProperties DEF TypeOK
  <1>2. CASE InStep
    BY <1>1, <1>2 DEF InStep
  <1>3. CASE Astray
    <2>1. PICK m \in 1 .. Len(sent) :
             /\ ~Acceptable(sent[m])
             /\ \A i \in 1 .. m - 1 : handled[i] = sent[i]
      BY <1>3 DEF Astray
    <2>2. n < m
      BY <1>1, <2>1 DEF CutAt
    <2>3. \A i \in 1 .. n : i \in 1 .. m - 1
      BY <1>1, <2>1, <2>2
    <2> QED
      BY <2>1, <2>3
  <1> QED
    BY <1>2, <1>3

\* What is handled behind the cut does not count as delivered.
LEMMA FirstIs ==
    ASSUME NEW s \in Streams, NEW p \in Bytes, NEW n \in Nat, n <= Len(s)
    PROVE  First(n, Append(s, p)) = First(n, s)
  <1>1. Len(s) \in Nat /\ s \in Seq(Bytes)
    BY LenProperties DEF Streams
  <1>2. /\ Append(s, p) \in Seq(Bytes) /\ Len(Append(s, p)) = Len(s) + 1
        /\ \A i \in 1 .. Len(s) : Append(s, p)[i] = s[i]
    BY <1>1, AppendProperties
  <1>3. \A i \in 1 .. n : i \in 1 .. Len(s) /\ i \in 1 .. Len(s) + 1
    BY <1>1
  <1>4. \A i \in 1 .. n : s[i] \in Bytes /\ Append(s, p)[i] = s[i]
    BY <1>1, <1>2, <1>3, ElementOfSeq
  <1>5. SubSeq(Append(s, p), 1, n) = SubSeq(s, 1, n)
    <2>1. /\ 1 \in Int /\ n \in Int
          /\ (IF 1 <= n THEN n - 1 + 1 ELSE 0) = n
          /\ n - 1 + 1 = n /\ \A i \in 1 .. n : 1 + i - 1 = i
      OBVIOUS
    <2>2. /\ SubSeq(s, 1, n) \in Seq(Bytes) /\ Len(SubSeq(s, 1, n)) = n
          /\ \A i \in 1 .. n : SubSeq(s, 1, n)[i] = s[i]
      BY <1>4, <2>1, SubSeqProperties
    <2>3. /\ SubSeq(Append(s, p), 1, n) \in Seq(Bytes)
          /\ Len(SubSeq(Append(s, p), 1, n)) = n
          /\ \A i \in 1 .. n : SubSeq(Append(s, p), 1, n)[i] = Append(s, p)[i]
      <3>1. \A i \in 1 .. n : Append(s, p)[i] \in Bytes
        BY <1>4
      <3> QED
        BY <2>1, <3>1, SubSeqProperties
    <2> QED
      BY <1>4, <2>2, <2>3, SeqEqual
  <1>6. n < Len(Append(s, p))
    BY <1>1, <1>2
  <1>7. CASE n < Len(s)
    BY <1>5, <1>6, <1>7 DEF First
  <1>8. CASE n = Len(s)
    BY <1>1, <1>5, <1>6, <1>8, SubSeqFull DEF First
  <1> QED
    BY <1>1, <1>7, <1>8

\* A packet sent behind a rejected one changes nothing the promise speaks of.
LEMMA CutStays ==
    ASSUME NEW packets \in Seq(Packets), NEW p \in Packets, NEW n \in Nat,
           CutAt(packets, n), n = Len(packets) => ~Acceptable(p)
    PROVE  Before(Append(packets, p)) = Before(packets)
  <1>1. Len(packets) \in Nat /\ n <= Len(packets)
    BY LenProperties DEF CutAt
  <1>2. /\ Append(packets, p) \in Seq(Packets)
        /\ Len(Append(packets, p)) = Len(packets) + 1
        /\ \A i \in 1 .. Len(packets) : Append(packets, p)[i] = packets[i]
        /\ Append(packets, p)[Len(packets) + 1] = p
    BY AppendProperties
  <1>3. \A i \in 1 .. n : Append(packets, p)[i] = packets[i]
    <2>1. \A i \in 1 .. n : i \in 1 .. Len(packets)
      BY <1>1
    <2> QED
      BY <1>2, <2>1
  <1>4. ~Acceptable(Append(packets, p)[n + 1])
    <2>1. CASE n = Len(packets)
      BY <1>2, <2>1
    <2>2. CASE n < Len(packets)
      <3>1. n + 1 \in 1 .. Len(packets)
        BY <1>1, <2>2
      <3> QED
        BY <1>2, <2>2, <3>1 DEF CutAt
    <2> QED
      BY <1>1, <2>1, <2>2
  <1>5. n \in 0 .. Len(Append(packets, p))
    BY <1>1, <1>2
  <1>6. CutAt(Append(packets, p), n)
    BY <1>3, <1>4, <1>5 DEF CutAt
  <1>7. /\ Before(packets) \in Seq(Packets) /\ Len(Before(packets)) = n
        /\ \A i \in 1 .. n : Before(packets)[i] = packets[i]
    BY BeforeIs
  <1>8. /\ Before(Append(packets, p)) \in Seq(Packets)
        /\ Len(Before(Append(packets, p))) = n
        /\ \A i \in 1 .. n : Before(Append(packets, p))[i] = Append(packets, p)[i]
    BY <1>2, <1>6, BeforeIs
  <1> QED
    BY <1>3, <1>7, <1>8, SeqEqual

\* While nothing was rejected, every packet sent counts.
LEMMA AllBefore ==
    ASSUME NEW packets \in Seq(Packets), CutAt(packets, Len(packets))
    PROVE  Before(packets) = packets
  BY LenProperties, BeforeIs, SubSeqFull

-----------------------------------------------------------------------------
\* Whatever the packets and however TCP cuts them, the server handles those
\* before the first rejected one whole, once and in order.
THEOREM PromiseKept == Spec => KeepsPromise
  <1> DEFINE Inv == TypeOK /\ (InStep \/ Astray)
  <1>1. Init => Promise!Init
    <2> SUFFICES ASSUME Init PROVE Promise!Init
      OBVIOUS
    <2>1. sent = <<>> /\ handled = <<>>
      BY DEF Init
    <2>2. <<>> \in Seq(Packets) /\ Len(<<>>) = 0
      BY EmptySeq
    <2>3. CutAt(<<>>, Len(<<>>))
      BY <2>2 DEF CutAt
    <2>4. Before(sent) = <<>>
      BY <2>1, <2>2, <2>3, AllBefore
    <2>5. First(Len(Before(sent)), handled) = <<>>
      BY <2>1, <2>2, <2>4 DEF First
    <2> QED
      BY <2>4, <2>5 DEF Promise!Init
  <1>2. Inv /\ CutHandled' /\ [Next]_vars => [Promise!Next]_(Promise!vars)
    <2> SUFFICES ASSUME Inv, CutHandled', Next
                 PROVE  Promise!Next \/ UNCHANGED Promise!vars
      BY DEF vars, Promise!vars
    <2>0. /\ sent \in Seq(Packets) /\ handled \in Streams /\ handled \in Seq(Bytes)
          /\ Len(sent) \in Nat /\ Len(handled) \in Nat
      BY LenProperties DEF TypeOK, Streams, Bytes
    <2>1. PICK n \in Nat : CutAt(sent, n)
      BY <2>0, CutExists
    <2>2. /\ Len(Before(sent)) = n
          /\ \A i \in 1 .. n : Before(sent)[i] = sent[i]
      BY <2>0, <2>1, BeforeIs
    <2>3. ASSUME NEW p \in Packets, Send(p)
          PROVE  Promise!Next \/ UNCHANGED Promise!vars
      <3>1. sent' = Append(sent, p) /\ handled' = handled /\ Len(sent) < MaxSent
        BY <2>3 DEF Send
      <3>2. CASE n = Len(sent) /\ Acceptable(p)
        <4>1. Before(sent) = sent
          BY <2>0, <2>1, <3>2, AllBefore
        <4>2. CutAt(sent', Len(sent'))
          <5>1. /\ Len(sent') = Len(sent) + 1
                /\ \A i \in 1 .. Len(sent) : sent'[i] = sent[i]
                /\ sent'[Len(sent) + 1] = p
            BY <2>0, <3>1, AppendProperties
          <5>2. ASSUME NEW i \in 1 .. Len(sent')
                PROVE  Acceptable(sent'[i])
            <6>1. i \in 1 .. Len(sent) \/ i = Len(sent) + 1
              BY <2>0, <5>1
            <6> QED
              BY <2>1, <3>2, <5>1, <6>1 DEF CutAt
          <5>3. Len(sent') \in 0 .. Len(sent') /\ ~(Len(sent') < Len(sent'))
            BY <2>0, <5>1
          <5> QED
            BY <5>2, <5>3 DEF CutAt
        <4>3. Before(sent') = sent'
          <5>1. sent' \in Seq(Packets)
            BY <2>0, <3>1, AppendProperties
          <5> QED
            BY <4>2, <5>1, AllBefore
        <4>4. Len(handled) <= Len(sent)
          <5>1. Clean
            BY <2>1, <3>2 DEF Clean, CutAt
          <5> QED
            BY <5>1, CleanIsInStep DEF InStep
        <4>5. /\ First(Len(Before(sent)), handled) = handled
              /\ First(Len(Before(sent')), handled') = handled
          <5>1. Len(sent') = Len(sent) + 1
            BY <2>0, <3>1, AppendProperties
          <5>2. ~(Len(sent) < Len(handled)) /\ ~(Len(sent') < Len(handled))
            BY <2>0, <4>4, <5>1
          <5> QED
            BY <3>1, <4>1, <4>3, <5>2 DEF First
        <4>6. Promise!Accept(p)
          BY <3>1, <4>1, <4>3, <4>5 DEF Promise!Accept
        <4> QED
          BY <4>6 DEF Promise!Next
      <3>3. CASE ~(n = Len(sent) /\ Acceptable(p))
        <4>1. Before(sent') = Before(sent)
          BY <2>0, <2>1, <3>1, <3>3, CutStays
        <4> QED
          BY <3>1, <4>1 DEF Promise!vars
      <3> QED
        BY <3>2, <3>3
    <2>4. ASSUME TakePacket
          PROVE  Promise!Next \/ UNCHANGED Promise!vars
      <3>1. PICK p \in Bytes : handled' = Append(handled, p)
        BY <2>4, HeaderRead, DropRemoves
        DEF TakePacket, HasPacket, FirstPacket, TypeOK
      <3>2. sent' = sent
        BY <2>4 DEF TakePacket
      <3>3. CASE Len(handled) < n
        <4>1. /\ Len(handled') = Len(handled) + 1
              /\ handled'[Len(handled) + 1] = p
          BY <2>0, <3>1, AppendProperties
        <4>2. Len(handled) + 1 \in 1 .. n /\ Len(handled) + 1 <= Len(handled')
          BY <2>0, <3>3, <4>1
        <4>3. \A i \in 1 .. n : i <= Len(handled') => handled'[i] = sent'[i]
          <5>1. CutAt(sent, n)'
            BY <2>1, <3>2 DEF CutAt, Acceptable
          <5> QED
            BY <5>1 DEF CutHandled
        <4>4. p = Before(sent)[Len(handled) + 1]
          BY <2>2, <3>2, <4>1, <4>2, <4>3
        <4>5. /\ First(Len(Before(sent)), handled) = handled
              /\ First(Len(Before(sent)), handled') = handled'
          <5>1. ~(n < Len(handled)) /\ ~(n < Len(handled'))
            BY <2>0, <3>3, <4>1
          <5> QED
            BY <2>2, <5>1 DEF First
        <4>6. Promise!Deliver
          BY <2>2, <3>1, <3>2, <3>3, <4>4, <4>5 DEF Promise!Deliver
        <4> QED
          BY <4>6 DEF Promise!Next
      <3>4. CASE n <= Len(handled)
        <4>1. First(n, handled') = First(n, handled)
          BY <2>0, <3>1, <3>4, FirstIs
        <4> QED
          BY <2>2, <3>2, <4>1 DEF Promise!vars
      <3> QED
        BY <2>0, <3>3, <3>4
    <2>5. CASE Complete \/ ConnectionEnds \/ NoPacket
      <3>1. UNCHANGED <<sent, handled>>
        BY <2>5 DEF Complete, RecvCompleted, ConnectionEnds, NoPacket
      <3> QED
        BY <3>1 DEF Promise!vars
    <2> QED
      BY <2>3, <2>4, <2>5 DEF Next, Worker, HandlePacket, HandlerThrows
  <1> QED
    BY <1>1, <1>2, PathInvariant, HandledFirst, PTL DEF Spec, KeepsPromise, Promise!Spec
=============================================================================
