----------------------------- MODULE PipeProofs -----------------------------
(***************************************************************************)
(* Proofs about tipc-pipe, as modelled by TipcPipe.                        *)
(***************************************************************************)
EXTENDS PipeProps, FiniteSetTheorems, SequenceTheorems, WellFoundedInduction, TLAPS

-----------------------------------------------------------------------------
(***************************************************************************)
(* Sequences.                                                              *)
(***************************************************************************)

\* A set of numbers that is not empty has a least member.
LEMMA LeastNat ==
  ASSUME NEW T \in SUBSET Nat, NEW a \in T
  PROVE  \E x \in T : \A y \in T : x <= y
  <1> DEFINE R == {p \in Nat \X Nat : p[1] < p[2]}
  <1>1. IsWellFoundedOn(R, Nat)
    <2>1. R = OpToRel(<, Nat)
      BY DEF OpToRel
    <2> QED BY <2>1, NatLessThanWellFounded
  <1> HIDE DEF R
  <1>2. \E x \in T : \A y \in T : ~ (<<y, x>> \in R)
    BY <1>1, WFMin, Zenon
  <1>3. PICK x \in T : \A y \in T : ~ (<<y, x>> \in R)
    BY <1>2
  <1>4. \A y \in T : x <= y
    <2>1. \A u, v \in Nat : u < v => <<u, v>> \in R
      BY DEF R
    <2>2. ASSUME NEW y \in T PROVE x <= y
      <3>1. x \in Nat /\ y \in Nat
        OBVIOUS
      <3>2. ~ (y < x)
        BY <1>3, <2>1, <3>1, Zenon
      <3> QED BY <3>1, <3>2
    <2> QED BY <2>2
  <1> QED BY <1>4

\* Induction over the natural numbers, for a set of them.
LEMMA NatInd ==
  ASSUME NEW T, 0 \in T, \A n \in Nat : n \in T => n + 1 \in T
  PROVE  \A n \in Nat : n \in T
  <1>1. SUFFICES ASSUME NEW n \in Nat, n \notin T
                 PROVE  FALSE
    OBVIOUS
  <1> DEFINE U == {m \in Nat : m \notin T}
  <1>2. PICK x \in U : \A y \in U : x <= y
    <2>1. U \in SUBSET Nat /\ n \in U
      BY <1>1
    <2> HIDE DEF U
    <2> QED BY <2>1, LeastNat
  <1>3. x \in Nat /\ x # 0 /\ x - 1 \in Nat /\ x - 1 \notin U
    BY <1>2
  <1>4. x - 1 \in T
    BY <1>3
  <1> QED BY <1>3, <1>4, <1>2

\* Finite sequences of bytes, and of such sequences.
Bytes == Seq(Nat)

\* Joining sequences of bytes gives one, in any grouping, and the empty one adds nothing.
LEMMA BytesConcat ==
  /\ <<>> \in Bytes
  /\ \A x, y \in Bytes : x \o y \in Bytes
  /\ \A x, y, z \in Bytes : (x \o y) \o z = x \o (y \o z)
  /\ \A x \in Bytes : <<>> \o x = x /\ x \o <<>> = x
<1>1. <<>> \in Bytes
  BY DEF Bytes
<1>2. ASSUME NEW x \in Bytes, NEW y \in Bytes PROVE x \o y \in Bytes
  BY ConcatProperties DEF Bytes
<1>3. ASSUME NEW x \in Bytes, NEW y \in Bytes, NEW z \in Bytes PROVE (x \o y) \o z = x \o (y \o z)
  BY ConcatAssociative DEF Bytes
<1>4. ASSUME NEW x \in Bytes PROVE <<>> \o x = x /\ x \o <<>> = x
  BY ConcatEmptySeq DEF Bytes
<1> QED
  BY <1>1, <1>2, <1>3, <1>4

\* f holds the concatenations of the first members of s.
sums(f, s) ==
  /\ f \in [1 .. Len(s) -> Bytes]
  /\ \A n \in 1 .. Len(s) : f[n] = IF n = 1 THEN s[1] ELSE f[n - 1] \o s[n]

\* What the running concatenations of a queue are after one more message.
LEMMA SumsAppend ==
  ASSUME NEW s \in Seq(Bytes), NEW x \in Bytes, NEW f, sums(f, s)
  PROVE  sums([n \in 1 .. Len(s) + 1 |->
                 IF n <= Len(s) THEN f[n] ELSE IF s = <<>> THEN x ELSE f[Len(s)] \o x],
              Append(s, x))
  <1> DEFINE g == [n \in 1 .. Len(s) + 1 |->
                 IF n <= Len(s) THEN f[n] ELSE IF s = <<>> THEN x ELSE f[Len(s)] \o x]
             t == Append(s, x)
  <1>1. /\ Len(s) \in Nat /\ Len(t) = Len(s) + 1
        /\ \A n \in 1 .. Len(s) : t[n] = s[n] /\ s[n] \in Bytes
        /\ t[Len(s) + 1] = x /\ (s # <<>> <=> Len(s) # 0)
    OBVIOUS
  <1> HIDE DEF t
  <1>2. s # <<>> => f[Len(s)] \in Bytes /\ f[Len(s)] \o x \in Bytes
    <2>1. SUFFICES ASSUME s # <<>>
                   PROVE  f[Len(s)] \in Bytes /\ f[Len(s)] \o x \in Bytes
      OBVIOUS
    <2>2. Len(s) \in 1 .. Len(s)
      BY <2>1, <1>1
    <2>3. f[Len(s)] \in Bytes
      BY <2>2 DEF sums
    <2> QED BY <2>3, BytesConcat
  <1>3. g \in [1 .. Len(t) -> Bytes]
    BY <1>1, <1>2 DEF sums
  <1>4. ASSUME NEW n \in 1 .. Len(t)
        PROVE  g[n] = IF n = 1 THEN t[1] ELSE g[n - 1] \o t[n]
    <2>1. CASE n <= Len(s)
      <3>1. n \in 1 .. Len(s) /\ (n # 1 => n - 1 \in 1 .. Len(s))
        BY <2>1, <1>1
      <3>2. g[n] = f[n] /\ (n # 1 => g[n - 1] = f[n - 1]) /\ t[n] = s[n]
        BY <3>1, <1>1
      <3>3. f[n] = IF n = 1 THEN s[1] ELSE f[n - 1] \o s[n]
        BY <3>1 DEF sums
      <3> QED BY <3>2, <3>3
    <2>2. CASE n = Len(s) + 1
      <3>1. g[n] = IF s = <<>> THEN x ELSE f[Len(s)] \o x
        BY <2>2, <1>1
      <3>2. n # 1 => g[n - 1] = f[Len(s)] /\ s # <<>>
        BY <2>2, <1>1
      <3>3. t[n] = x /\ (n = 1 => s = <<>>)
        BY <2>2, <1>1
      <3> QED BY <3>1, <3>2, <3>3
    <2> QED BY <2>1, <2>2, <1>1
  <1> QED BY <1>3, <1>4 DEF sums, t

\* Every queue has its running concatenations.
LEMMA SumsExist ==
  ASSUME NEW s \in Seq(Bytes)
  PROVE  \E f : sums(f, s)
  <1> DEFINE T == {n \in Nat : \A z \in Seq(Bytes) : Len(z) = n => \E f : sums(f, z)}
  <1>1. 0 \in T
    <2>1. SUFFICES ASSUME NEW z \in Seq(Bytes), Len(z) = 0
                   PROVE  \E f : sums(f, z)
      OBVIOUS
    <2>2. sums([n \in 1 .. 0 |-> <<>>], z)
      BY <2>1 DEF sums
    <2> QED BY <2>2
  <1>2. ASSUME NEW n \in Nat, n \in T
        PROVE  n + 1 \in T
    <2>1. SUFFICES ASSUME NEW z \in Seq(Bytes), Len(z) = n + 1
                   PROVE  \E f : sums(f, z)
      OBVIOUS
    <2>2. PICK y \in Seq(Bytes), x \in Bytes : z = Append(y, x)
      <3>1. z # <<>>
        BY <2>1
      <3> QED BY <3>1, SequenceEmptyOrAppend, Zenon
    <2>3. Len(y) = n
      BY <2>1, <2>2
    <2>4. PICK f : sums(f, y)
      BY <2>3, <1>2
    <2> QED BY <2>2, <2>4, SumsAppend
  <1>3. Len(s) \in Nat
    OBVIOUS
  <1> HIDE DEF T
  <1>4. Len(s) \in T
    BY <1>1, <1>2, <1>3, NatInd
  <1> QED BY <1>4 DEF T

\* A queue has only one list of running concatenations.
LEMMA SumsUnique ==
  ASSUME NEW s \in Seq(Bytes), NEW f, sums(f, s), NEW g, sums(g, s)
  PROVE  f = g
  <1> DEFINE T == {n \in Nat : n \in 1 .. Len(s) => f[n] = g[n]}
  <1>1. 0 \in T
    OBVIOUS
  <1>2. ASSUME NEW n \in Nat, n \in T
        PROVE  n + 1 \in T
    <2>1. SUFFICES ASSUME n + 1 \in 1 .. Len(s)
                   PROVE  f[n + 1] = g[n + 1]
      OBVIOUS
    <2>2. PICK m \in 1 .. Len(s) : m = n + 1
      BY <2>1
    <2>3. /\ f[m] = IF m = 1 THEN s[1] ELSE f[m - 1] \o s[m]
          /\ g[m] = IF m = 1 THEN s[1] ELSE g[m - 1] \o s[m]
      BY DEF sums
    <2>4. m - 1 = n /\ (m # 1 => n \in 1 .. Len(s))
      BY <2>2
    <2> QED BY <2>2, <2>3, <2>4, <1>2
  <1> HIDE DEF T
  <1>3. \A n \in Nat : n \in T
    BY <1>1, <1>2, NatInd
  <1>4. \A n \in 1 .. Len(s) : f[n] = g[n]
    BY <1>3 DEF T
  <1> QED BY <1>4 DEF sums

\* Flattening a queue gives the last of its running concatenations.
LEMMA FlattenIs ==
  ASSUME NEW s \in Seq(Bytes), s # <<>>, NEW f, sums(f, s)
  PROVE  FlattenSeq(s) = f[Len(s)]
  <1> DEFINE P(g) == g = [n \in 1 .. Len(s) |-> IF n = 1 THEN s[n] ELSE g[n - 1] \o s[n]]
             h == CHOOSE g : P(g)
  <1>1. P(f)
    BY DEF sums
  <1>2. P(h)
    BY <1>1
  <1>3. FlattenSeq(s) = h[Len(s)]
    BY DEF FlattenSeq
  <1>4. \A n \in 1 .. Len(s) : h[n] = IF n = 1 THEN s[1] ELSE h[n - 1] \o s[n]
    BY <1>2
  <1>5. h = f
    <2> HIDE DEF h
    <2> DEFINE T == {n \in Nat : n \in 1 .. Len(s) => h[n] = f[n]}
    <2>1. 0 \in T
      OBVIOUS
    <2>2. ASSUME NEW n \in Nat, n \in T
          PROVE  n + 1 \in T
      <3>1. SUFFICES ASSUME n + 1 \in 1 .. Len(s)
                     PROVE  h[n + 1] = f[n + 1]
        OBVIOUS
      <3>2. PICK m \in 1 .. Len(s) : m = n + 1
        BY <3>1
      <3>3. /\ h[m] = IF m = 1 THEN s[1] ELSE h[m - 1] \o s[m]
            /\ f[m] = IF m = 1 THEN s[1] ELSE f[m - 1] \o s[m]
        BY <1>4 DEF sums
      <3>4. m - 1 = n /\ (m # 1 => n \in 1 .. Len(s))
        BY <3>2
      <3> QED BY <3>2, <3>3, <3>4, <2>2
    <2> HIDE DEF T
    <2>3. \A n \in Nat : n \in T
      BY <2>1, <2>2, NatInd
    <2>4. \A n \in 1 .. Len(s) : h[n] = f[n]
      BY <2>3 DEF T
    <2>5. [n \in 1 .. Len(s) |-> h[n]] = [n \in 1 .. Len(s) |-> f[n]]
      BY <2>4
    <2>6. h = [n \in 1 .. Len(s) |-> h[n]]
      BY <1>2, Zenon
    <2>7. f = [n \in 1 .. Len(s) |-> f[n]]
      BY DEF sums
    <2> QED BY <2>5, <2>6, <2>7
  <1> QED BY <1>3, <1>5

\* An empty queue carries no bytes.
LEMMA FlattenEmpty == FlattenSeq(<<>>) = <<>>
  BY DEF FlattenSeq

\* A message that is appended adds its bytes at the end.
LEMMA FlattenAppend ==
  ASSUME NEW s \in Seq(Bytes), NEW x \in Bytes
  PROVE  /\ FlattenSeq(s) \in Bytes
         /\ FlattenSeq(Append(s, x)) = FlattenSeq(s) \o x
  <1>1. PICK f : sums(f, s)
    BY SumsExist
  <1> DEFINE g == [n \in 1 .. Len(s) + 1 |->
                 IF n <= Len(s) THEN f[n] ELSE IF s = <<>> THEN x ELSE f[Len(s)] \o x]
             t == Append(s, x)
  <1>2. sums(g, t)
    BY <1>1, SumsAppend
  <1>3. t \in Seq(Bytes) /\ t # <<>> /\ Len(t) = Len(s) + 1 /\ Len(s) \in Nat
    OBVIOUS
  <1>4. g[Len(s) + 1] = IF s = <<>> THEN x ELSE f[Len(s)] \o x
    BY <1>3
  <1> HIDE DEF g, t
  <1>5. FlattenSeq(t) = g[Len(s) + 1]
    BY <1>2, <1>3, FlattenIs
  <1>6. CASE s = <<>>
    BY <1>4, <1>5, <1>6, FlattenEmpty, BytesConcat DEF t
  <1>7. CASE s # <<>>
    <2>1. FlattenSeq(s) = f[Len(s)]
      BY <1>1, <1>7, FlattenIs
    <2>2. f[Len(s)] \in Bytes
      <3>1. Len(s) \in 1 .. Len(s)
        BY <1>7
      <3> QED BY <3>1, <1>1 DEF sums
    <2> QED BY <1>4, <1>5, <1>7, <2>1, <2>2 DEF t
  <1> QED BY <1>6, <1>7

\* Taking the first message takes its bytes from the front.
LEMMA FlattenTail ==
  ASSUME NEW s \in Seq(Bytes), s # <<>>
  PROVE  FlattenSeq(s) = Head(s) \o FlattenSeq(Tail(s))
  <1> DEFINE T == {n \in Nat : \A z \in Seq(Bytes) :
                     Len(z) = n + 1 => FlattenSeq(z) = Head(z) \o FlattenSeq(Tail(z))}
  <1>1. 0 \in T
    <2>1. SUFFICES ASSUME NEW z \in Seq(Bytes), Len(z) = 1
                   PROVE  FlattenSeq(z) = Head(z) \o FlattenSeq(Tail(z))
      OBVIOUS
    <2>2. z = Append(<<>>, Head(z)) /\ Tail(z) = <<>> /\ Head(z) \in Bytes
      <3>1. z # <<>> /\ 1 \in 1 .. Len(z)
        BY <2>1, EmptySeq
      <3>2. z[1] \in Bytes /\ Head(z) = z[1] /\ Tail(z) \in Seq(Bytes) /\ Len(Tail(z)) = 0
        BY <2>1, <3>1
      <3>3. <<z[1]>> \in Seq(Bytes) /\ Len(<<z[1]>>) = 1 /\ <<z[1]>>[1] = z[1]
        BY <3>2
      <3>4. z = <<z[1]>>
        BY <2>1, <3>3, SeqEqual
      <3>5. Append(<<>>, z[1]) = <<z[1]>>
        BY <3>2
      <3>6. Tail(z) = <<>>
        BY <3>2, EmptySeq
      <3> QED BY <3>2, <3>4, <3>5, <3>6, Zenon
    <2>3. <<>> \in Seq(Bytes)
      OBVIOUS
    <2>4. FlattenSeq(z) = <<>> \o Head(z)
      BY <2>2, <2>3, FlattenAppend, FlattenEmpty
    <2> QED BY <2>2, <2>4, FlattenEmpty, BytesConcat
  <1>2. ASSUME NEW n \in Nat, n \in T
        PROVE  n + 1 \in T
    <2>1. SUFFICES ASSUME NEW z \in Seq(Bytes), Len(z) = n + 2
                   PROVE  FlattenSeq(z) = Head(z) \o FlattenSeq(Tail(z))
      OBVIOUS
    <2>2. PICK y \in Seq(Bytes), x \in Bytes : z = Append(y, x)
      <3>1. z # <<>>
        BY <2>1
      <3> QED BY <3>1, SequenceEmptyOrAppend, Zenon
    <2>3. Len(y) = n + 1 /\ y # <<>>
      BY <2>1, <2>2
    <2>4. FlattenSeq(y) = Head(y) \o FlattenSeq(Tail(y))
      BY <2>3, <1>2
    <2>5. Head(z) = Head(y) /\ Tail(z) = Append(Tail(y), x)
      BY <2>2, <2>3, HeadTailAppend
    <2>6. Tail(y) \in Seq(Bytes) /\ Head(y) \in Bytes
      BY <2>3
    <2>7. FlattenSeq(z) = FlattenSeq(y) \o x
      BY <2>2, FlattenAppend
    <2>8. /\ FlattenSeq(Tail(z)) = FlattenSeq(Tail(y)) \o x
          /\ FlattenSeq(Tail(y)) \in Bytes
      BY <2>5, <2>6, FlattenAppend
    <2>9. (Head(y) \o FlattenSeq(Tail(y))) \o x = Head(y) \o (FlattenSeq(Tail(y)) \o x)
      BY <2>6, <2>8, BytesConcat
    <2> QED BY <2>4, <2>5, <2>7, <2>8, <2>9
  <1>3. Len(s) - 1 \in Nat
    OBVIOUS
  <1> HIDE DEF T
  <1>4. Len(s) - 1 \in T
    BY <1>1, <1>2, <1>3, NatInd
  <1> QED BY <1>4 DEF T

\* The bytes of a queue.
payload(z) == FlattenSeq([n \in 1 .. Len(z) |-> z[n].data])

\* What a queue carries, when it is empty, appended to and taken from.
LEMMA Payload ==
  ASSUME NEW z \in Seq(Packet), NEW p \in Packet
  PROVE  /\ payload(z) \in Bytes
         /\ payload(<<>>) = <<>>
         /\ payload(Append(z, p)) = payload(z) \o p.data
         /\ payload(<<p>>) = p.data
         /\ z # <<>> => payload(z) = Head(z).data \o payload(Tail(z))
  <1> DEFINE D(y) == [n \in 1 .. Len(y) |-> y[n].data]
  <1>1. ASSUME NEW y \in Seq(Packet)
        PROVE  D(y) \in Seq(Bytes) /\ Len(D(y)) = Len(y)
    <2>1. \A n \in 1 .. Len(y) : y[n].data \in Bytes
      <3>1. \A n \in 1 .. Len(y) : y[n] \in Packet
        BY ElementOfSeq
      <3> QED BY <3>1 DEF Packet, Bytes
    <2>2. Len(y) \in Nat
      OBVIOUS
    <2> QED BY <2>1, <2>2
  <1>2. p.data \in Bytes
    BY DEF Packet, Bytes
  <1>3. D(<<>>) = <<>>
    OBVIOUS
  <1>4. ASSUME NEW y \in Seq(Packet) PROVE D(Append(y, p)) = Append(D(y), p.data)
    <2>1. D(Append(y, p)) \in Seq(Bytes) /\ Len(D(Append(y, p))) = Len(y) + 1
      <3>1. Append(y, p) \in Seq(Packet) /\ Len(Append(y, p)) = Len(y) + 1
        BY AppendProperties
      <3> HIDE DEF D
      <3> QED BY <3>1, <1>1
    <2>2. Append(D(y), p.data) \in Seq(Bytes) /\ Len(Append(D(y), p.data)) = Len(y) + 1
      BY <1>1, <1>2
    <2>3. \A n \in 1 .. Len(y) + 1 : D(Append(y, p))[n] = Append(D(y), p.data)[n]
      BY <1>1, <1>2
    <2> QED BY <2>1, <2>2, <2>3, SeqEqual
  <1>5. z # <<>> => D(Tail(z)) = Tail(D(z)) /\ Head(D(z)) = Head(z).data
    <2>1. SUFFICES ASSUME z # <<>> PROVE D(Tail(z)) = Tail(D(z)) /\ Head(D(z)) = Head(z).data
      OBVIOUS
    <2>2. Tail(z) \in Seq(Packet) /\ Len(Tail(z)) = Len(z) - 1
      BY <2>1
    <2>3. D(Tail(z)) \in Seq(Bytes) /\ Len(D(Tail(z))) = Len(z) - 1
      BY <2>2, <1>1
    <2>4. D(z) # <<>> /\ Len(z) \in Nat \ {0} /\ D(z) \in Seq(Bytes) /\ Len(D(z)) = Len(z)
      BY <2>1, <1>1
    <2>5. /\ Tail(D(z)) \in Seq(Bytes) /\ Len(Tail(D(z))) = Len(z) - 1
          /\ \A n \in 1 .. Len(z) - 1 : Tail(D(z))[n] = D(z)[n + 1]
      BY <2>4, HeadTailProperties
    <2>6. \A n \in 1 .. Len(z) - 1 : D(Tail(z))[n] = Tail(D(z))[n]
      <3>1. SUFFICES ASSUME NEW n \in 1 .. Len(z) - 1 PROVE D(Tail(z))[n] = Tail(D(z))[n]
        OBVIOUS
      <3>2. n + 1 \in 1 .. Len(z) /\ n \in 1 .. Len(Tail(z))
        BY <2>4, <2>2
      <3>3. D(Tail(z))[n] = Tail(z)[n].data /\ D(z)[n + 1] = z[n + 1].data
        BY <3>2
      <3>4. Tail(z)[n] = z[n + 1]
        BY <3>2, <2>1, HeadTailProperties
      <3> QED BY <3>3, <3>4, <2>5
    <2>7. D(Tail(z)) = Tail(D(z))
      <3> HIDE DEF D
      <3> QED BY <2>3, <2>5, <2>6, SeqEqual
    <2>8. Head(D(z)) = D(z)[1] /\ Head(z) = z[1] /\ D(z)[1] = z[1].data
      BY <2>1, <2>4
    <2> QED BY <2>7, <2>8
  <1>6. \A y : payload(y) = FlattenSeq(D(y))
    BY DEF payload
  <1> HIDE DEF D
  <1>7. /\ payload(z) \in Bytes
        /\ payload(Append(z, p)) = payload(z) \o p.data
    BY <1>1, <1>2, <1>4, <1>6, FlattenAppend
  <1>8. payload(<<>>) = <<>>
    BY <1>3, <1>6, FlattenEmpty
  <1>9. payload(<<p>>) = p.data
    <2>1. <<>> \in Seq(Packet) /\ <<p>> = Append(<<>>, p)
      OBVIOUS
    <2>2. D(<<p>>) = Append(<<>>, p.data)
      BY <2>1, <1>3, <1>4
    <2>3. <<>> \in Seq(Bytes)
      OBVIOUS
    <2>4. FlattenSeq(Append(<<>>, p.data)) = FlattenSeq(<<>>) \o p.data
      BY <2>3, <1>2, FlattenAppend
    <2>5. <<>> \o p.data = p.data
      BY <1>2, BytesConcat
    <2> QED BY <2>2, <2>4, <2>5, <1>6, FlattenEmpty
  <1>10. z # <<>> => payload(z) = Head(z).data \o payload(Tail(z))
    <2>1. SUFFICES ASSUME z # <<>> PROVE payload(z) = Head(z).data \o payload(Tail(z))
      OBVIOUS
    <2>2. D(z) \in Seq(Bytes) /\ Len(D(z)) = Len(z)
      BY <1>1
    <2>3. D(z) # <<>>
      BY <2>1, <2>2
    <2>4. FlattenSeq(D(z)) = Head(D(z)) \o FlattenSeq(Tail(D(z)))
      BY <2>2, <2>3, FlattenTail
    <2> QED BY <2>4, <2>1, <1>5, <1>6
  <1> QED BY <1>7, <1>8, <1>9, <1>10

\* Joining three sequences, in either order.
LEMMA Assoc ==
  ASSUME NEW x \in Bytes, NEW y \in Bytes, NEW z \in Bytes
  PROVE  (x \o y) \o z = x \o (y \o z)
  BY BytesConcat

\* The empty sequence joined to another leaves it.
LEMMA Unit ==
  ASSUME NEW x \in Bytes
  PROVE  x \o <<>> = x /\ <<>> \o x = x
  BY BytesConcat

\* A read takes a beginning, all of it if it fits, and leaves the rest.
LEMMA UpTo ==
  ASSUME NEW s \in Bytes
  PROVE  /\ upTo(s) \in Bytes /\ Len(upTo(s)) \in Nat /\ Len(upTo(s)) <= buf_size
         /\ SubSeq(s, Len(upTo(s)) + 1, Len(s)) \in Bytes
         /\ s = upTo(s) \o SubSeq(s, Len(upTo(s)) + 1, Len(s))
         /\ s # <<>> => Len(upTo(s)) > 0
         /\ s = <<>> => SubSeq(s, Len(upTo(s)) + 1, Len(s)) = <<>>
         /\ Len(s) <= buf_size => upTo(s) = s /\ SubSeq(s, Len(upTo(s)) + 1, Len(s)) = <<>>
  <1> DEFINE m == IF Len(s) < buf_size THEN Len(s) ELSE buf_size
  <1>1. /\ buf_size \in Nat \ {0} /\ Len(s) \in Nat /\ m \in 0 .. Len(s) /\ m <= buf_size
        /\ (Len(s) # 0 => m # 0) /\ (Len(s) <= buf_size => m = Len(s))
        /\ (s = <<>> <=> Len(s) = 0) /\ s \in Seq(Nat)
    BY PipeAssumption DEF Bytes
  <1>2. upTo(s) = SubSeq(s, 1, m)
    BY DEF upTo
  <1> HIDE DEF m
  <1>3. SubSeq(s, 1, m) \in Seq(Nat) /\ Len(SubSeq(s, 1, m)) = m
    BY <1>1
  <1>4. SubSeq(s, m + 1, Len(s)) \in Seq(Nat)
    BY <1>1
  <1>5. s = SubSeq(s, 1, m) \o SubSeq(s, m + 1, Len(s))
    <2>1. SubSeq(s, 1, m) \o SubSeq(s, m + 1, Len(s)) = SubSeq(s, 1, Len(s))
      <3>1. 1 \in 1 .. Len(s) + 1 /\ m \in 1 - 1 .. Len(s) /\ Len(s) \in m .. Len(s)
        BY <1>1
      <3> QED BY <3>1, <1>1, ConcatAdjacentSubSeq
    <2> QED BY <2>1, <1>1, SubSeqFull
  <1>6. m = Len(s) => SubSeq(s, 1, m) = s /\ SubSeq(s, m + 1, Len(s)) = <<>>
    BY <1>1, SubSeqFull, SubSeqEmpty
  <1>7. Len(upTo(s)) = m
    BY <1>2, <1>3
  <1>8. s # <<>> => m > 0
    BY <1>1
  <1>9. SubSeq(s, Len(upTo(s)) + 1, Len(s)) = SubSeq(s, m + 1, Len(s))
    BY <1>7
  <1>10. upTo(s) \in Bytes /\ SubSeq(s, m + 1, Len(s)) \in Bytes
    BY <1>2, <1>3, <1>4 DEF Bytes
  <1>11. m \in Nat /\ (s = <<>> => m = Len(s))
    BY <1>1
  <1> HIDE DEF m
  <1> QED BY <1>1, <1>2, <1>5, <1>6, <1>7, <1>8, <1>9, <1>10, <1>11

\* What is on the way to an end is what its queue carries.
LEMMA BytesOf == \A e : bytes(e) = payload(q[e])
  BY DEF bytes, payload

\* A receive takes the beginning of what is in the queue and leaves the rest.
LEMMA Receive ==
  ASSUME NEW e \in End, q[e] \in Seq(Packet)
  PROVE  /\ received(e) \in Bytes /\ Len(received(e)) \in Nat
         /\ unread(e) \in Seq(Packet) /\ payload(unread(e)) \in Bytes
         /\ Len(unread(e)) <= Len(q[e])
         /\ bytes(e) \in Bytes /\ bytes(e) = received(e) \o payload(unread(e))
         /\ q[e] = <<>> => received(e) = <<>> /\ unread(e) = <<>>
         /\ fullOK(e) => /\ q[e] # <<>> => Len(received(e)) > 0
                         /\ \A n \in 1 .. Len(unread(e)) : unread(e)[n].data # <<>>
  <1> DEFINE p == [from |-> e, data |-> <<>>]
  <1>1. p \in Packet
    BY DEF Packet
  <1>2. bytes(e) = payload(q[e]) /\ payload(q[e]) \in Bytes /\ payload(<<>>) = <<>>
    BY <1>1, BytesOf, Payload DEF Bytes
  <1>3. CASE q[e] = <<>>
    <2>1. received(e) = <<>> /\ unread(e) = <<>>
      BY <1>3 DEF received, unread
    <2>2. <<>> \in Seq(Packet) /\ Len(<<>>) = 0 /\ <<>> \in Bytes /\ <<>> \o <<>> = <<>>
      BY BytesConcat
    <2> QED BY <1>2, <1>3, <2>1, <2>2
  <1>4. CASE q[e] # <<>>
    <2>1. /\ Head(q[e]) \in Packet /\ Tail(q[e]) \in Seq(Packet) /\ Head(q[e]) = q[e][1]
          /\ Len(q[e]) \in Nat \ {0} /\ Len(Tail(q[e])) = Len(q[e]) - 1
          /\ \A n \in 1 .. Len(q[e]) - 1 : Tail(q[e])[n] = q[e][n + 1]
      BY <1>4, HeadTailProperties
    <2>2. Head(q[e]).from \in End /\ Head(q[e]).data \in Bytes
      BY <2>1 DEF Packet, Bytes
    <2>3. payload(q[e]) = Head(q[e]).data \o payload(Tail(q[e])) /\ payload(Tail(q[e])) \in Bytes
      BY <1>1, <1>4, <2>1, Payload DEF Bytes
    <2>4. CASE setup.sock_type = "STREAM"
      <3> DEFINE rest == SubSeq(bytes(e), Len(upTo(bytes(e))) + 1, Len(bytes(e)))
                 pk == [from |-> Head(q[e]).from, data |-> rest]
      <3>1. received(e) = upTo(bytes(e))
        BY <1>4, <2>4 DEF received
      <3>2. unread(e) = IF rest = <<>> THEN <<>> ELSE <<pk>>
        BY <1>4, <2>4, <3>1 DEF unread, packet
      <3>3. /\ upTo(bytes(e)) \in Bytes /\ Len(upTo(bytes(e))) \in Nat /\ rest \in Bytes
            /\ bytes(e) = upTo(bytes(e)) \o rest
            /\ bytes(e) # <<>> => Len(upTo(bytes(e))) > 0
        BY <1>2, UpTo
      <3>4. pk \in Packet /\ pk.data = rest
        BY <2>2, <3>3 DEF Packet, Bytes
      <3> HIDE DEF rest, pk
      <3>5. payload(<<pk>>) = rest
        BY <3>4, <2>1, Payload
      <3>6. /\ unread(e) \in Seq(Packet) /\ Len(unread(e)) <= Len(q[e])
            /\ payload(unread(e)) = rest
        BY <3>2, <3>4, <3>5, <1>2, <2>1
      <3>7. \A n \in 1 .. Len(unread(e)) : unread(e)[n].data # <<>>
        BY <3>2, <3>4
      <3>8. fullOK(e) => bytes(e) # <<>>
        <4>1. SUFFICES ASSUME fullOK(e) PROVE bytes(e) # <<>>
          OBVIOUS
        <4>2. Head(q[e]).data # <<>>
          BY <4>1, <2>1 DEF fullOK
        <4>3. \A x, y \in Seq(Nat) : x \o y = <<>> => x = <<>>
          BY ConcatEqualIffEmpty
        <4> QED BY <4>2, <4>3, <2>2, <2>3, <1>2 DEF Bytes
      <3> QED BY <1>2, <1>4, <3>1, <3>3, <3>6, <3>7, <3>8
    <2>5. CASE setup.sock_type # "STREAM"
      <3>1. received(e) = Head(q[e]).data /\ unread(e) = Tail(q[e])
        BY <1>4, <2>5 DEF received, unread
      <3>2. Len(Head(q[e]).data) \in Nat /\ (Head(q[e]).data # <<>> => Len(Head(q[e]).data) > 0)
        BY <2>2 DEF Bytes
      <3>3. fullOK(e) => Head(q[e]).data # <<>>
        BY <2>1 DEF fullOK
      <3>4. fullOK(e) => \A n \in 1 .. Len(Tail(q[e])) : Tail(q[e])[n].data # <<>>
        BY <2>1 DEF fullOK
      <3> QED BY <1>2, <1>4, <2>1, <2>2, <2>3, <3>1, <3>2, <3>3, <3>4
    <2> QED BY <2>4, <2>5
  <1> QED BY <1>3, <1>4

-----------------------------------------------------------------------------
(***************************************************************************)
(* Types.                                                                  *)
(***************************************************************************)

Label ==
  {"unborn", "start", "dial", "generate", "check", "poll", "stdin", "write", "socket", "leave",
   "exit"}

\* The ends are the clients and the workers; each reads its own input, or the server's.
LEMMA Ends ==
  /\ End = Client \cup Worker /\ Client \cap Worker = {} /\ None \notin End
  /\ \A e \in End : stdin(e) \in Source
  /\ \A c \in Client : c \in End /\ stdin(c) = c
  /\ \A w \in Worker : w \in End /\ stdin(w) = "srv"
  /\ \A c \in Client : c # "srv"
  BY PipeAssumption DEF End, stdin, Source

\* What the command lines promise of the setup chosen.
LEMMA SetupFacts ==
  ASSUME setup \in Setups
  PROVE  /\ setup.data_num \in Nat /\ setup.tee \in BOOLEAN /\ setup.data_check \in BOOLEAN
         /\ setup.input \in [Source -> Seq(Nat)]
         /\ setup.mode \in {"single_listener", "multi_server"}
         /\ setup.ref \in [Client -> Nat]
  <1>1. setup \in Setup
    BY PipeAssumption
  <1> QED BY <1>1, Zenon DEF Setup

\* The labels an end has once it is connected, for each kind of work.
LEMMA ModeLabels ==
  /\ \A e : data_io(e) \in {"generate", "check", "poll"} /\ data_io(e) \in modeLabels(e)
  /\ \A e : data_io(e) = "poll" => modeLabels(e) = {"poll", "stdin", "write", "socket"}
  /\ \A e : data_io(e) # "poll" => modeLabels(e) = {data_io(e)}
  <1>1. \A e : data_io(e) \in {"generate", "check", "poll"}
    BY Zenon DEF data_io
  <1> QED BY <1>1, Zenon DEF modeLabels

\* The first state has the types.
LEMMA InitTypes == Init => pipeTypes
  <1> SUFFICES ASSUME Init PROVE pipeTypes
    OBVIOUS
  <1>1. setup \in Setups /\ setup.input \in [Source -> Seq(Nat)]
    BY SetupFacts DEF Init
  <1>2. /\ fed \in [Source -> Seq(Nat)] /\ coming \in [Source -> Seq(Nat)]
    BY <1>1 DEF Init
  <1>3. pc \in [End -> Label]
    BY DEF Init, Label
  <1>4. /\ rev \in [End -> SUBSET {"in0", "hup0", "in1", "hup1", "in2"}]
        /\ held \in [End -> Seq(Nat)] /\ data_in_len \in [End -> Nat]
        /\ q \in [End -> Seq(Packet)] /\ conn \in [End -> {"no", "syn", "up", "down"}]
        /\ peer \in [End -> End \cup {None}]
        /\ pair \in [End -> Seq(Nat)] /\ out \in [End -> Seq(Nat)] /\ copy \in [End -> Seq(Nat)]
    BY DEF Init
  <1>5. /\ seqno \in [Client -> Nat] /\ got \in [Client -> Nat] /\ lost \in [Client -> Int]
        /\ i \in [{slot(c) : c \in Client} -> Nat]
        /\ server \in {"bind", "listen", "io", "exit"} /\ backlog \in Seq(Client)
    BY DEF Init
  <1> QED BY <1>1, <1>2, <1>3, <1>4, <1>5, Zenon DEF pipeTypes, Label

\* A write of an end keeps the queues queues.
LEMMA WriteTypes ==
  ASSUME pipeTypes, NEW e \in End, NEW data \in Seq(Nat), tipc_write(e, data)
  PROVE  /\ q' \in [End -> Seq(Packet)]
         /\ \A x \in End : x # peer[e] => q'[x] = q[x]
         /\ q' = q \/ (/\ peer[e] \in End /\ q'[peer[e]] = Append(q[peer[e]], packet(e, data))
                       /\ Len(q[peer[e]]) < Window
                       /\ canWrite(e) /\ (data # <<>> \/ setup.sock_type # "STREAM"))
         /\ connected /\ canWrite(e) /\ (data # <<>> \/ setup.sock_type # "STREAM") =>
              q'[peer[e]] = Append(q[peer[e]], packet(e, data))
  <1>1. packet(e, data) \in Packet
    BY DEF packet, Packet
  <1>2. q \in [End -> Seq(Packet)] /\ peer[e] \in End \cup {None}
    BY DEF pipeTypes
  <1>3. CASE q' = [q EXCEPT ![peer[e]] = Append(@, packet(e, data))] /\ ~full(e) /\ canWrite(e)
             /\ (data # <<>> \/ setup.sock_type # "STREAM")
    <2>1. peer[e] \in End
      BY <1>2, <1>3 DEF canWrite
    <2>2. q'[peer[e]] = Append(q[peer[e]], packet(e, data))
      BY <1>2, <1>3, <2>1
    <2>3. Append(q[peer[e]], packet(e, data)) \in Seq(Packet)
      BY <1>1, <1>2, <2>1
    <2>4. Len(q[peer[e]]) < Window
      <3>1. Len(q[peer[e]]) \in Nat /\ Window \in Nat
        BY <1>2, <2>1, PipeAssumption
      <3> QED BY <3>1, <1>3 DEF full
    <2>5. /\ q' \in [End -> Seq(Packet)]
          /\ \A x \in End : x # peer[e] => q'[x] = q[x]
      BY <1>2, <1>3, <2>1, <2>3
    <2> QED BY <1>3, <2>1, <2>2, <2>4, <2>5
  <1>4. CASE q' = q /\ ~(connected /\ canWrite(e) /\ (data # <<>> \/ setup.sock_type # "STREAM"))
    BY <1>2, <1>4
  <1>5. \/ q' = [q EXCEPT ![peer[e]] = Append(@, packet(e, data))] /\ ~full(e) /\ canWrite(e)
           /\ (data # <<>> \/ setup.sock_type # "STREAM")
        \/ q' = q /\ ~(connected /\ canWrite(e) /\ (data # <<>> \/ setup.sock_type # "STREAM"))
    BY Zenon DEF tipc_write
  <1> QED BY <1>3, <1>4, <1>5

\* A worker is free for the first request: the others serve other clients.
LEMMA FreeWorker ==
  ASSUME PipeInv, connected, server = "listen", backlog # <<>>
  PROVE  \E w \in Worker : at(w, "unborn")
  <1>1. SUFFICES ASSUME \A w \in Worker : ~at(w, "unborn")
                 PROVE  FALSE
    OBVIOUS
  <1>2. /\ IsFiniteSet(Client) /\ IsFiniteSet(Worker) /\ Worker # {}
        /\ Cardinality(Worker) >= Cardinality(Client)
    BY PipeAssumption
  <1>3. setup.mode = "multi_server"
    <2>1. setup.mode = "single_listener" => \A w \in Worker : at(w, "unborn")
      BY DEF PipeInv, listenOK
    <2>2. setup.mode \in {"single_listener", "multi_server"}
      BY SetupFacts DEF PipeInv, pipeTypes
    <2> QED BY <1>1, <1>2, <2>1, <2>2
  <1> DEFINE c == Head(backlog)
             f == [w \in Worker |-> peer[w]]
  <1>4. c \in Client /\ peer[c] = None
    <2>1. backlog \in Seq(Client) /\ \A n \in 1 .. Len(backlog) : peer[backlog[n]] = None
      BY DEF PipeInv, pipeTypes, listenOK
    <2>2. c = backlog[1] /\ 1 \in 1 .. Len(backlog) /\ c \in Client
      BY <2>1
    <2> QED BY <2>1, <2>2
  <1>5. \A w \in Worker : peer[w] \in Client /\ peer[peer[w]] = w
    <2>1. \A w \in Worker : linkOK(w) /\ w \in End
      BY Ends DEF PipeInv
    <2>2. \A w \in Worker : peer[w] # None
      BY <2>1, <1>1, Zenon DEF linkOK
    <2> QED BY <2>1, <2>2, Zenon DEF linkOK
  <1>6. f \in Injection(Worker, Client \ {c})
    <2>1. \A w \in Worker : peer[w] # c
      BY <1>4, <1>5, Ends
    <2>2. f \in [Worker -> Client \ {c}]
      BY <1>5, <2>1
    <2>3. \A w, v \in Worker : f[w] = f[v] => w = v
      BY <1>5
    <2> HIDE DEF f, c
    <2> QED BY <2>2, <2>3 DEF Injection, IsInjective
  <1> HIDE DEF f, c
  <1>7. IsFiniteSet(Client \ {c}) /\ Cardinality(Client \ {c}) = Cardinality(Client) - 1
    BY <1>2, <1>4, FS_RemoveElement
  <1>8. Cardinality(Worker) <= Cardinality(Client \ {c})
    BY <1>6, <1>7, FS_Injection
  <1>9. Cardinality(Client) \in Nat /\ Cardinality(Worker) \in Nat
    BY <1>2, FS_CardinalityType
  <1> QED BY <1>2, <1>7, <1>8, <1>9

\* What each action does to the functions it changes.
LEMMA FeedDoes ==
  ASSUME pipeTypes, NEW s \in Source, Feed(s)
  PROVE  /\ UNCHANGED <<setup, pc, io, net, nums, server>>
         /\ fed' \in [Source -> Seq(Nat)] /\ coming' \in [Source -> Seq(Nat)]
         /\ coming[s] # <<>> /\ fed'[s] # <<>> /\ fed'[s] \o coming'[s] = fed[s] \o coming[s]
         /\ \A x \in Source : x # s => fed'[x] = fed[x] /\ coming'[x] = coming[x]
  <1> DEFINE f == Append(fed[s], Head(coming[s]))
             d == Tail(coming[s])
  <1>1. fed[s] \in Seq(Nat) /\ coming[s] \in Seq(Nat) /\ coming[s] # <<>>
    BY DEF Feed, pipeTypes
  <1>2. f \in Seq(Nat) /\ d \in Seq(Nat) /\ f # <<>>
    <2>1. Head(coming[s]) \in Nat /\ d \in Seq(Nat)
      BY <1>1
    <2> QED BY <1>1, <2>1, AppendProperties
  <1>3. f \o d = fed[s] \o coming[s]
    <2>1. Head(coming[s]) \in Nat /\ coming[s] = <<Head(coming[s])>> \o d
      BY <1>1
    <2>2. <<Head(coming[s])>> \in Seq(Nat)
      BY <2>1
    <2>3. f = fed[s] \o <<Head(coming[s])>>
      BY <1>1, <2>1, AppendIsConcat
    <2> HIDE DEF f, d
    <2>4. (fed[s] \o <<Head(coming[s])>>) \o d = fed[s] \o (<<Head(coming[s])>> \o d)
      <3>1. fed[s] \in Bytes /\ <<Head(coming[s])>> \in Bytes /\ d \in Bytes
        BY <1>1, <1>2, <2>2 DEF Bytes
      <3> QED BY <3>1, BytesConcat
    <2> QED BY <2>1, <2>3, <2>4
  <1>4. fed' = [fed EXCEPT ![s] = f] /\ coming' = [coming EXCEPT ![s] = d]
    BY DEF Feed
  <1> HIDE DEF f, d
  <1>5. UNCHANGED <<setup, pc, io, net, nums, server>>
    BY DEF Feed
  <1>6. fed \in [Source -> Seq(Nat)] /\ coming \in [Source -> Seq(Nat)]
    BY DEF pipeTypes
  <1> QED BY <1>1, <1>2, <1>3, <1>4, <1>5, <1>6

\* What run_server and listen_accept_and_io change.
LEMMA ServerDoes ==
  ASSUME pipeTypes, run_server
  PROVE  /\ UNCHANGED <<setup, fed, coming, io, nums, q, conn, backlog>> /\ server = "bind"
         /\ \/ connected /\ server' = "listen" /\ UNCHANGED <<pc, peer>>
            \/ /\ ~connected /\ server' = "io"
               /\ \E w \in Worker :
                    /\ pc' \in [End -> Label] /\ pc'[w] = data_io(w)
                    /\ \A x \in End : x # w => pc'[x] = pc[x]
                    /\ peer' = [e \in End |-> w]
  <1>1. Worker # {} /\ Worker \subseteq End
    BY PipeAssumption, Ends
  <1>2. PICK w \in Worker : w = CHOOSE v \in Worker : TRUE
    BY <1>1
  <1>3. data_io(w) \in Label
    BY ModeLabels DEF Label
  <1>4. \/ connected /\ server' = "listen" /\ UNCHANGED <<pc, peer>>
        \/ /\ ~connected /\ server' = "io"
           /\ pc' = [pc EXCEPT ![w] = data_io(w)] /\ peer' = [e \in End |-> w]
    BY <1>2, Zenon DEF run_server, to
  <1>5. ASSUME pc' = [pc EXCEPT ![w] = data_io(w)]
        PROVE  /\ pc' \in [End -> Label] /\ pc'[w] = data_io(w)
               /\ \A x \in End : x # w => pc'[x] = pc[x]
    BY <1>1, <1>3, <1>5 DEF pipeTypes, Label
  <1>6. UNCHANGED <<setup, fed, coming, io, nums, q, conn, backlog>> /\ server = "bind"
    BY DEF run_server
  <1> QED BY <1>4, <1>5, <1>6, Zenon

\* What the start of a connection's service changes.
LEMMA ServeDoes ==
  ASSUME PipeInv, listen_accept_and_io
  PROVE  /\ UNCHANGED <<setup, fed, coming, io, nums, q>> /\ connected
         /\ server = "listen" /\ backlog # <<>>
         /\ server' = IF setup.mode = "single_listener" THEN "io" ELSE "listen"
         /\ backlog' = Tail(backlog) /\ backlog' \in Seq(Client)
         /\ \E w \in Worker, c \in Client :
              /\ c = Head(backlog) /\ at(w, "unborn") /\ w # c /\ w \in End /\ c \in End
              /\ pc' \in [End -> Label] /\ pc'[w] = data_io(w)
              /\ \A x \in End : x # w => pc'[x] = pc[x]
              /\ conn' \in [End -> {"no", "syn", "up", "down"}]
              /\ \A x \in End : x \notin {c, w} => conn'[x] = conn[x] /\ peer'[x] = peer[x]
              /\ conn[c] = "syn" => conn'[c] = "up" /\ conn'[w] = "up"
              /\ conn[c] # "syn" => conn'[c] = conn[c] /\ conn'[w] = "down"
              /\ peer' \in [End -> End \cup {None}] /\ peer'[w] = c /\ peer'[c] = w
  <1>1. connected /\ server = "listen" /\ backlog # <<>>
    BY DEF listen_accept_and_io
  <1>2. PICK w \in Worker : at(w, "unborn") /\ w = CHOOSE v \in Worker : at(v, "unborn")
    BY <1>1, FreeWorker
  <1>3. PICK c \in Client : c = Head(backlog)
    BY <1>1 DEF PipeInv, pipeTypes
  <1>4. serve(w, c)
    BY <1>2, <1>3 DEF listen_accept_and_io
  <1>5. w # c /\ w \in End /\ c \in End
    BY Ends
  <1>6. data_io(w) \in Label
    BY ModeLabels DEF Label
  <1>7. pipeTypes
    BY DEF PipeInv
  <1>8. /\ pc' \in [End -> Label] /\ pc'[w] = data_io(w)
        /\ \A x \in End : x # w => pc'[x] = pc[x]
    BY <1>4, <1>5, <1>6, <1>7 DEF serve, to, pipeTypes, Label
  <1>9. /\ peer' \in [End -> End \cup {None}] /\ peer'[w] = c /\ peer'[c] = w
        /\ \A x \in End : x \notin {c, w} => peer'[x] = peer[x]
    BY <1>4, <1>5, <1>7 DEF serve, pipeTypes
  <1>10. /\ UNCHANGED <<setup, fed, coming, io, nums, q>> /\ connected
         /\ server = "listen" /\ backlog # <<>>
         /\ server' = IF setup.mode = "single_listener" THEN "io" ELSE "listen"
         /\ backlog' = Tail(backlog) /\ backlog' \in Seq(Client)
    <2>1. Tail(backlog) \in Seq(Client)
      BY <1>1, <1>7 DEF pipeTypes
    <2> QED BY <1>1, <1>4, <2>1, Zenon DEF listen_accept_and_io, serve
  <1>11. CASE conn[c] = "syn"
    <2>1. conn' = [conn EXCEPT ![c] = "up", ![w] = "up"]
      BY <1>4, <1>11 DEF serve
    <2>2. /\ conn' \in [End -> {"no", "syn", "up", "down"}] /\ conn'[c] = "up" /\ conn'[w] = "up"
          /\ \A x \in End : x \notin {c, w} => conn'[x] = conn[x]
      BY <2>1, <1>5, <1>7 DEF pipeTypes
    <2> QED BY <1>2, <1>3, <1>5, <1>8, <1>9, <1>11, <1>10, <2>2, Zenon
  <1>12. CASE conn[c] # "syn"
    <2>1. conn' = [conn EXCEPT ![w] = "down"]
      BY <1>4, <1>12 DEF serve
    <2>2. /\ conn' \in [End -> {"no", "syn", "up", "down"}] /\ conn'[c] = conn[c]
          /\ conn'[w] = "down" /\ \A x \in End : x \notin {c, w} => conn'[x] = conn[x]
      BY <2>1, <1>5, <1>7 DEF pipeTypes
    <2> QED BY <1>2, <1>3, <1>5, <1>8, <1>9, <1>12, <1>10, <2>2, Zenon
  <1> QED BY <1>11, <1>12

\* What the exit of the server changes.
LEMMA ExitDoes ==
  ASSUME pipeTypes, ServerExit
  PROVE  /\ UNCHANGED <<setup, fed, coming, pc, io, nums, q, peer>>
         /\ server = "io" /\ server' = "exit" /\ backlog' = <<>>
         /\ conn' \in [End -> {"no", "syn", "up", "down"}]
         /\ \A x \in End : conn'[x] = conn[x] \/ (conn[x] = "syn" /\ conn'[x] = "no")
  BY DEF ServerExit, pipeTypes

\* What run_client changes.
LEMMA ClientDoes ==
  ASSUME pipeTypes, NEW c \in Client, run_client(c)
  PROVE  /\ UNCHANGED <<setup, fed, coming, io, nums, server, q, peer>> /\ at(c, "start")
         /\ c \in End /\ pc' \in [End -> Label] /\ \A x \in End : x # c => pc'[x] = pc[x]
         /\ conn' \in [End -> {"no", "syn", "up", "down"}] /\ backlog' \in Seq(Client)
         /\ \A x \in End : x # c => conn'[x] = conn[x]
         /\ \/ /\ connected /\ server \in {"listen", "io"} /\ pc'[c] = "dial"
               /\ conn'[c] = "syn" /\ backlog' = Append(backlog, c)
            \/ pc'[c] = data_io(c) /\ UNCHANGED <<conn, backlog>>
  <1>1. c \in End /\ data_io(c) \in Label
    BY Ends, ModeLabels DEF Label
  <1>2. UNCHANGED <<setup, fed, coming, io, nums, server, q, peer>> /\ at(c, "start")
    BY DEF run_client
  <1>3. CASE /\ connected /\ server \in {"listen", "io"} /\ pc' = [pc EXCEPT ![c] = "dial"]
             /\ conn' = [conn EXCEPT ![c] = "syn"] /\ backlog' = Append(backlog, c)
    <2>1. backlog' \in Seq(Client)
      BY <1>3 DEF pipeTypes
    <2>2. pc' \in [End -> Label] /\ pc'[c] = "dial" /\ \A x \in End : x # c => pc'[x] = pc[x]
      BY <1>1, <1>3 DEF pipeTypes, Label
    <2>3. /\ conn' \in [End -> {"no", "syn", "up", "down"}] /\ conn'[c] = "syn"
          /\ \A x \in End : x # c => conn'[x] = conn[x]
      BY <1>1, <1>3 DEF pipeTypes
    <2> QED BY <1>1, <1>2, <1>3, <2>1, <2>2, <2>3, Zenon
  <1>4. CASE pc' = [pc EXCEPT ![c] = data_io(c)] /\ UNCHANGED <<conn, backlog>>
    <2>1. pc' \in [End -> Label] /\ pc'[c] = data_io(c) /\ \A x \in End : x # c => pc'[x] = pc[x]
      BY <1>1, <1>4 DEF pipeTypes, Label
    <2>2. conn \in [End -> {"no", "syn", "up", "down"}] /\ backlog \in Seq(Client)
      BY DEF pipeTypes
    <2> QED BY <1>1, <1>2, <1>4, <2>1, <2>2, Zenon
  <1>5. \/ /\ connected /\ server \in {"listen", "io"} /\ pc' = [pc EXCEPT ![c] = "dial"]
           /\ conn' = [conn EXCEPT ![c] = "syn"] /\ backlog' = Append(backlog, c)
        \/ pc' = [pc EXCEPT ![c] = data_io(c)] /\ UNCHANGED <<conn, backlog>>
    BY Zenon DEF run_client, to
  <1> QED BY <1>3, <1>4, <1>5

\* What a connect that is answered, or that times out, changes.
LEMMA DialDoes ==
  ASSUME pipeTypes, NEW c \in Client, Connected(c) \/ ConnectTimeout(c)
  PROVE  /\ UNCHANGED <<setup, fed, coming, io, nums, server, q, peer, backlog>> /\ at(c, "dial")
         /\ c \in End /\ pc' \in [End -> Label] /\ pc'[c] = data_io(c)
         /\ \A x \in End : x # c => pc'[x] = pc[x] /\ conn'[x] = conn[x]
         /\ conn' \in [End -> {"no", "syn", "up", "down"}]
         /\ \/ conn[c] # "syn" /\ conn' = conn
            \/ conn[c] = "syn" /\ conn'[c] = "no"
  <1>1. c \in End /\ data_io(c) \in Label
    BY Ends, ModeLabels DEF Label
  <1>2. /\ UNCHANGED <<setup, fed, coming, io, nums, server, q, peer, backlog>> /\ at(c, "dial")
        /\ pc' = [pc EXCEPT ![c] = data_io(c)]
        /\ \/ conn[c] # "syn" /\ conn' = conn
           \/ conn[c] = "syn" /\ conn' = [conn EXCEPT ![c] = "no"]
    BY DEF Connected, ConnectTimeout, to, net
  <1>3. /\ pc' \in [End -> Label] /\ pc'[c] = data_io(c)
        /\ \A x \in End : x # c => pc'[x] = pc[x]
    BY <1>1, <1>2 DEF pipeTypes, Label
  <1>4. CASE conn[c] # "syn" /\ conn' = conn
    BY <1>1, <1>2, <1>3, <1>4 DEF pipeTypes
  <1>5. CASE conn[c] = "syn" /\ conn' = [conn EXCEPT ![c] = "no"]
    <2>1. /\ conn' \in [End -> {"no", "syn", "up", "down"}] /\ conn'[c] = "no"
          /\ \A x \in End : x # c => conn'[x] = conn[x]
      BY <1>1, <1>5 DEF pipeTypes
    <2> QED BY <1>1, <1>2, <1>3, <1>5, <2>1, Zenon
  <1> QED BY <1>2, <1>4, <1>5

\* What a write leaves in the queues.
wrote(e, data) ==
  /\ q' \in [End -> Seq(Packet)]
  /\ \A x \in End : x # peer[e] => q'[x] = q[x]
  /\ q' = q \/ (/\ peer[e] \in End /\ q'[peer[e]] = Append(q[peer[e]], packet(e, data))
                /\ Len(q[peer[e]]) < Window
                /\ canWrite(e) /\ (data # <<>> \/ setup.sock_type # "STREAM"))
  /\ connected /\ canWrite(e) /\ (data # <<>> \/ setup.sock_type # "STREAM") =>
       q'[peer[e]] = Append(q[peer[e]], packet(e, data))

\* What generate_data changes.
LEMMA GenerateDoes ==
  ASSUME PipeInv, NEW e \in End, generate_data(e)
  PROVE  /\ UNCHANGED <<setup, fed, coming, io, conn, peer, backlog, i, lost, got, server>>
         /\ at(e, "generate") /\ e \in Client /\ data_io(e) = "generate"
         /\ \/ /\ seqno[e] < setup.data_num /\ wrote(e, <<seqno[e]>>) /\ seqno' \in [Client -> Nat]
               /\ seqno'[e] = seqno[e] + 1 /\ \A c \in Client : c # e => seqno'[c] = seqno[c]
               /\ pc' = pc
            \/ /\ pc' \in [End -> Label] /\ pc'[e] = "leave" /\ \A x \in End : x # e => pc'[x] = pc[x]
               /\ UNCHANGED <<q, seqno>>
  <1>1. pipeTypes /\ labelOK(e)
    BY DEF PipeInv
  <1>2. UNCHANGED <<setup, fed, coming, io, conn, peer, backlog, i, lost, got, server>> /\ at(e, "generate")
    BY DEF generate_data
  <1>3. data_io(e) = "generate"
    <2>1. "generate" \in modeLabels(e)
      BY <1>1, <1>2 DEF labelOK, at
    <2> QED BY <2>1, ModeLabels
  <1>4. e \in Client
    BY <1>3 DEF data_io
  <1>5. seqno[e] \in Nat /\ <<seqno[e]>> \in Seq(Nat)
    BY <1>1, <1>4 DEF pipeTypes
  <1>6. CASE /\ seqno[e] < setup.data_num /\ tipc_write(e, <<seqno[e]>>)
             /\ seqno' = [seqno EXCEPT ![e] = @ + 1] /\ pc' = pc
    <2>1. wrote(e, <<seqno[e]>>)
      BY <1>1, <1>5, <1>6, WriteTypes DEF wrote
    <2>2. /\ seqno' \in [Client -> Nat] /\ seqno'[e] = seqno[e] + 1
          /\ \A c \in Client : c # e => seqno'[c] = seqno[c]
      BY <1>1, <1>4, <1>5, <1>6 DEF pipeTypes
    <2> QED BY <1>2, <1>3, <1>4, <1>6, <2>1, <2>2, Zenon
  <1>7. CASE pc' = [pc EXCEPT ![e] = "leave"] /\ UNCHANGED <<q, seqno>>
    <2>1. pc' \in [End -> Label] /\ pc'[e] = "leave" /\ \A x \in End : x # e => pc'[x] = pc[x]
      BY <1>1, <1>7 DEF pipeTypes, Label
    <2> QED BY <1>2, <1>3, <1>4, <1>7, <2>1, Zenon
  <1>8. \/ /\ seqno[e] < setup.data_num /\ tipc_write(e, <<seqno[e]>>)
           /\ seqno' = [seqno EXCEPT ![e] = @ + 1] /\ pc' = pc
        \/ pc' = [pc EXCEPT ![e] = "leave"] /\ UNCHANGED <<q, seqno>>
    BY Zenon DEF generate_data, to
  <1> QED BY <1>6, <1>7, <1>8

\* What a receive leaves in the queue and on standard output.
took(e) ==
  /\ q' \in [End -> Seq(Packet)] /\ q'[e] = unread(e) /\ \A x \in End : x # e => q'[x] = q[x]
  /\ out' \in [End -> Seq(Nat)] /\ out'[e] = out[e] \o received(e)
  /\ \A x \in End : x # e => out'[x] = out[x]

\* A receive prints what it takes and leaves the rest.
LEMMA Took ==
  ASSUME pipeTypes, NEW e \in End, q' = [q EXCEPT ![e] = unread(e)],
         out' = [out EXCEPT ![e] = @ \o received(e)]
  PROVE  took(e)
  <1>1. /\ q \in [End -> Seq(Packet)] /\ out \in [End -> Seq(Nat)] /\ q[e] \in Seq(Packet)
        /\ out[e] \in Seq(Nat)
    BY DEF pipeTypes
  <1>2. unread(e) \in Seq(Packet) /\ received(e) \in Seq(Nat)
    BY <1>1, Receive DEF Bytes
  <1>3. out[e] \o received(e) \in Seq(Nat)
    BY <1>1, <1>2
  <1> QED BY <1>1, <1>2, <1>3 DEF took

\* What check_generated_data changes.
LEMMA CheckDoes ==
  ASSUME PipeInv, NEW e \in End, check_generated_data(e)
  PROVE  /\ UNCHANGED <<setup, fed, coming, rev, held, data_in_len, pair, copy, conn, peer,
                        backlog, seqno, server>>
         /\ at(e, "check") /\ e \in Worker /\ data_io(e) = "check"
         /\ \/ /\ pc' \in [End -> Label] /\ pc'[e] = "leave" /\ \A x \in End : x # e => pc'[x] = pc[x]
               /\ UNCHANGED <<i, lost, got, q, out>>
            \/ LET c == Head(q[e]).from
                   seq == Head(received(e))
               IN  /\ q[e] # <<>> /\ received(e) # <<>> /\ pc' = pc /\ took(e)
                   /\ \E v \in expected(c) : lost' = [lost EXCEPT ![c] = @ + seq - v]
                   /\ i' = [i EXCEPT ![slot(c)] = seq + 1]
                   /\ got' = [got EXCEPT ![c] = @ + Len(received(e))]
  <1>1. pipeTypes /\ labelOK(e)
    BY DEF PipeInv
  <1>2. /\ UNCHANGED <<setup, fed, coming, rev, held, data_in_len, pair, copy, conn, peer,
                       backlog, seqno, server>>
        /\ at(e, "check")
    BY DEF check_generated_data
  <1>3. data_io(e) = "check"
    <2>1. "check" \in modeLabels(e)
      BY <1>1, <1>2 DEF labelOK, at
    <2> QED BY <2>1, ModeLabels
  <1>4. e \in Worker
    BY <1>3 DEF data_io
  <1>5. CASE received(e) = <<>>
    <2>1. pc' = [pc EXCEPT ![e] = "leave"] /\ UNCHANGED <<i, lost, got, q, out>>
      BY <1>5 DEF check_generated_data, to
    <2>2. pc' \in [End -> Label] /\ pc'[e] = "leave" /\ \A x \in End : x # e => pc'[x] = pc[x]
      BY <1>1, <2>1 DEF pipeTypes, Label
    <2> QED BY <1>2, <1>3, <1>4, <2>1, <2>2, Zenon
  <1>6. CASE received(e) # <<>>
    <2> DEFINE c == Head(q[e]).from
               seq == Head(received(e))
    <2>1. /\ \E v \in expected(c) : lost' = [lost EXCEPT ![c] = @ + seq - v]
          /\ i' = [i EXCEPT ![slot(c)] = seq + 1]
          /\ got' = [got EXCEPT ![c] = @ + Len(received(e))]
          /\ q' = [q EXCEPT ![e] = unread(e)]
          /\ out' = [out EXCEPT ![e] = @ \o received(e)]
          /\ pc' = pc
      BY <1>6, Zenon DEF check_generated_data
    <2>2. took(e)
      BY <1>1, <2>1, Took
    <2>3. q[e] # <<>>
      BY <1>6 DEF received
    <2> QED BY <1>2, <1>3, <1>4, <1>6, <2>1, <2>2, <2>3, Zenon
  <1> QED BY <1>5, <1>6

\* What poll reports to an end, event by event.
LEMMA Revents ==
  ASSUME NEW e \in End
  PROVE  /\ revents(e) \in SUBSET {"in0", "hup0", "in1", "hup1", "in2"}
         /\ "in0" \in revents(e) <=> (fed[stdin(e)] # <<>> \/ kind(e) = "file")
         /\ "hup0" \in revents(e) <=> hangup(e)
         /\ "in1" \in revents(e) <=> readable(e)
         /\ "hup1" \in revents(e) <=> conn[e] = "down"
         /\ "in2" \in revents(e) <=> (setup.tee /\ pair[e] # <<>>)
  <1>1. /\ "in0" \in revents(e) <=> (fed[stdin(e)] # <<>> \/ kind(e) = "file")
        /\ "hup0" \in revents(e) <=> hangup(e)
    BY DEF revents
  <1>2. /\ "in1" \in revents(e) <=> readable(e)
        /\ "hup1" \in revents(e) <=> conn[e] = "down"
    BY DEF revents
  <1>3. "in2" \in revents(e) <=> (setup.tee /\ pair[e] # <<>>)
    BY DEF revents
  <1>4. revents(e) \in SUBSET {"in0", "hup0", "in1", "hup1", "in2"}
    BY DEF revents
  <1> QED BY <1>1, <1>2, <1>3, <1>4

\* The label of an end that copies.
LEMMA Piping ==
  ASSUME PipeInv, NEW e \in End, pc[e] \in {"poll", "stdin", "write", "socket"}
  PROVE  data_io(e) = "poll"
  <1>1. labelOK(e)
    BY DEF PipeInv
  <1>2. pc[e] \in modeLabels(e)
    BY <1>1 DEF labelOK
  <1> QED BY <1>2, ModeLabels

\* What the poll of a round changes.
LEMMA PollDoes ==
  ASSUME PipeInv, NEW e \in End, Poll(e)
  PROVE  /\ UNCHANGED <<setup, fed, coming, held, out, net, nums, server>> /\ at(e, "poll")
         /\ pc' \in [End -> Label] /\ pc'[e] = IF "in0" \in rev'[e] THEN "stdin" ELSE "socket"
         /\ rev' \in [End -> SUBSET {"in0", "hup0", "in1", "hup1", "in2"}]
         /\ rev'[e] = revents(e) /\ data_in_len' \in [End -> Nat]
         /\ copy' \in [End -> Seq(Nat)] /\ pair' \in [End -> Seq(Nat)]
         /\ \A x \in End : x # e => /\ pc'[x] = pc[x] /\ rev'[x] = rev[x] /\ copy'[x] = copy[x]
                                    /\ pair'[x] = pair[x] /\ data_in_len'[x] = data_in_len[x]
         /\ connected => copy'[e] = copy[e] \o pair[e] /\ pair'[e] = <<>>
  <1> DEFINE r == revents(e)
             l == IF "in0" \in r THEN "stdin" ELSE "socket"
  <1>1. pipeTypes
    BY DEF PipeInv
  <1>2. r \in SUBSET {"in0", "hup0", "in1", "hup1", "in2"} /\ l \in Label
    BY Revents DEF Label
  <1>3. /\ UNCHANGED <<setup, fed, coming, held, out, net, nums, server>> /\ at(e, "poll")
        /\ pc' = [pc EXCEPT ![e] = l] /\ rev' = [rev EXCEPT ![e] = r]
        /\ data_in_len' = [data_in_len EXCEPT ![e] = 0]
    BY DEF Poll, to
  <1> HIDE DEF l
  <1>4. pc' \in [End -> Label] /\ pc'[e] = l /\ \A x \in End : x # e => pc'[x] = pc[x]
    BY <1>1, <1>2, <1>3 DEF pipeTypes, Label
  <1>5. /\ rev' \in [End -> SUBSET {"in0", "hup0", "in1", "hup1", "in2"}] /\ rev'[e] = r
        /\ \A x \in End : x # e => rev'[x] = rev[x]
    <2> HIDE DEF r
    <2> QED BY <1>1, <1>2, <1>3 DEF pipeTypes
  <1>6. /\ data_in_len' \in [End -> Nat]
        /\ \A x \in End : x # e => data_in_len'[x] = data_in_len[x]
    BY <1>1, <1>3 DEF pipeTypes
  <1>7. copy[e] \in Seq(Nat) /\ pair[e] \in Seq(Nat)
    BY <1>1 DEF pipeTypes
  <1>8. /\ copy' \in [End -> Seq(Nat)] /\ pair' \in [End -> Seq(Nat)]
        /\ \A x \in End : x # e => copy'[x] = copy[x] /\ pair'[x] = pair[x]
        /\ connected => copy'[e] = copy[e] \o pair[e] /\ pair'[e] = <<>>
    <2>1. CASE "in2" \in r
      <3> DEFINE u == upTo(pair[e])
                 rest == SubSeq(pair[e], Len(u) + 1, Len(pair[e]))
      <3>1. copy' = [copy EXCEPT ![e] = @ \o u] /\ pair' = [pair EXCEPT ![e] = rest]
        BY <2>1 DEF Poll
      <3>2. /\ u \in Seq(Nat) /\ rest \in Seq(Nat)
            /\ Len(pair[e]) <= buf_size => u = pair[e] /\ rest = <<>>
        BY <1>7, UpTo DEF Bytes
      <3>3. connected => Len(pair[e]) <= buf_size
        BY DEF PipeInv, roundOK
      <3> HIDE DEF u, rest
      <3>4. copy[e] \o u \in Seq(Nat)
        BY <1>7, <3>2
      <3>5. /\ copy' \in [End -> Seq(Nat)] /\ copy'[e] = copy[e] \o u
            /\ \A x \in End : x # e => copy'[x] = copy[x]
        BY <1>1, <3>1, <3>4 DEF pipeTypes
      <3>6. /\ pair' \in [End -> Seq(Nat)] /\ pair'[e] = rest
            /\ \A x \in End : x # e => pair'[x] = pair[x]
        BY <1>1, <3>1, <3>2 DEF pipeTypes
      <3> QED BY <3>2, <3>3, <3>5, <3>6
    <2>2. CASE "in2" \notin r
      <3>1. copy' = copy /\ pair' = pair
        BY <2>2 DEF Poll
      <3>2. ~(setup.tee /\ pair[e] # <<>>)
        BY <2>2, Revents
      <3>3. connected => pair[e] = <<>>
        BY <3>2, Zenon DEF PipeInv, roundOK
      <3>4. copy[e] \o <<>> = copy[e]
        BY <1>7
      <3> QED BY <1>1, <3>1, <3>3, <3>4 DEF pipeTypes
    <2> QED BY <2>1, <2>2
  <1>9. pc'[e] = IF "in0" \in rev'[e] THEN "stdin" ELSE "socket"
    BY <1>4, <1>5 DEF l
  <1> QED BY <1>3, <1>4, <1>5, <1>6, <1>8, <1>9, Zenon

\* What the read of the input changes.
LEMMA StdinDoes ==
  ASSUME PipeInv, NEW e \in End, ReadStdin(e)
  PROVE  LET s == stdin(e)
         IN  /\ UNCHANGED <<setup, coming, rev, pair, out, copy, net, nums, server>>
             /\ at(e, "stdin")
             /\ fed[s] # <<>> \/ hangup(e) \/ kind(e) = "file"
             /\ pc' \in [End -> Label] /\ pc'[e] = "write"
             /\ held' \in [End -> Seq(Nat)] /\ data_in_len' \in [End -> Nat]
             /\ fed' \in [Source -> Seq(Nat)] /\ fed[s] = held'[e] \o fed'[s]
             /\ Len(held'[e]) <= buf_size /\ data_in_len'[e] = Len(held'[e])
             /\ fed[s] # <<>> => held'[e] # <<>> /\ data_in_len'[e] > 0
             /\ fed[s] = <<>> => fed'[s] = <<>>
             /\ \A x \in End : x # e => /\ pc'[x] = pc[x] /\ held'[x] = held[x]
                                        /\ data_in_len'[x] = data_in_len[x]
             /\ \A x \in Source : x # s => fed'[x] = fed[x]
  <1> DEFINE s == stdin(e)
             u == upTo(fed[s])
             rest == SubSeq(fed[s], Len(u) + 1, Len(fed[s]))
  <1>1. pipeTypes /\ s \in Source
    BY Ends DEF PipeInv
  <1>2. fed[s] \in Bytes
    BY <1>1 DEF pipeTypes, Bytes
  <1>3. /\ u \in Seq(Nat) /\ Len(u) \in Nat /\ Len(u) <= buf_size /\ rest \in Seq(Nat)
        /\ fed[s] = u \o rest /\ (fed[s] # <<>> => Len(u) > 0) /\ (fed[s] = <<>> => rest = <<>>)
    BY <1>2, UpTo DEF Bytes
  <1>4. /\ UNCHANGED <<setup, coming, rev, pair, out, copy, net, nums, server>>
        /\ at(e, "stdin") /\ (fed[s] # <<>> \/ hangup(e) \/ kind(e) = "file")
        /\ pc' = [pc EXCEPT ![e] = "write"] /\ held' = [held EXCEPT ![e] = u]
        /\ data_in_len' = [data_in_len EXCEPT ![e] = Len(u)]
        /\ fed' = [fed EXCEPT ![s] = rest]
    BY DEF ReadStdin, to
  <1> HIDE DEF u, rest, s
  <1>5. pc' \in [End -> Label] /\ pc'[e] = "write" /\ \A x \in End : x # e => pc'[x] = pc[x]
    BY <1>1, <1>4 DEF pipeTypes, Label
  <1>6. held' \in [End -> Seq(Nat)] /\ held'[e] = u /\ \A x \in End : x # e => held'[x] = held[x]
    BY <1>1, <1>3, <1>4 DEF pipeTypes
  <1>7. /\ data_in_len' \in [End -> Nat] /\ data_in_len'[e] = Len(u)
        /\ \A x \in End : x # e => data_in_len'[x] = data_in_len[x]
    BY <1>1, <1>3, <1>4 DEF pipeTypes
  <1>8. /\ fed' \in [Source -> Seq(Nat)] /\ fed'[s] = rest
        /\ \A x \in Source : x # s => fed'[x] = fed[x]
    BY <1>1, <1>3, <1>4 DEF pipeTypes
  <1>9. Len(u) > 0 => u # <<>>
    BY <1>3
  <1> QED BY <1>3, <1>4, <1>5, <1>6, <1>7, <1>8, <1>9 DEF s

\* What the write to the connection changes.
LEMMA WriteDoes ==
  ASSUME PipeInv, NEW e \in End, Write(e)
  PROVE  /\ UNCHANGED <<setup, fed, coming, rev, data_in_len, out, conn, peer, backlog, nums,
                        server>>
         /\ at(e, "write") /\ wrote(e, held[e])
         /\ pc' \in [End -> Label] /\ pc'[e] = "socket"
         /\ held' \in [End -> Seq(Nat)] /\ held'[e] = <<>>
         /\ pair' \in [End -> Seq(Nat)] /\ copy' \in [End -> Seq(Nat)]
         /\ \A x \in End : x # e => /\ pc'[x] = pc[x] /\ held'[x] = held[x]
                                    /\ pair'[x] = pair[x] /\ copy'[x] = copy[x]
         /\ setup.tee => copy'[e] = copy[e] /\ (connected => pair'[e] = pair[e] \o held[e])
         /\ ~setup.tee => pair'[e] = pair[e]
  <1>1. pipeTypes
    BY DEF PipeInv
  <1>2. held[e] \in Seq(Nat) /\ pair[e] \in Seq(Nat) /\ copy[e] \in Seq(Nat)
    BY <1>1 DEF pipeTypes
  <1>3. /\ UNCHANGED <<setup, fed, coming, rev, data_in_len, out, conn, peer, backlog, nums,
                       server>>
        /\ at(e, "write") /\ tipc_write(e, held[e]) /\ writeCopy(e)
        /\ pc' = [pc EXCEPT ![e] = "socket"] /\ held' = [held EXCEPT ![e] = <<>>]
    BY DEF Write, to
  <1>4. wrote(e, held[e])
    BY <1>1, <1>2, <1>3, WriteTypes DEF wrote
  <1>5. pc' \in [End -> Label] /\ pc'[e] = "socket" /\ \A x \in End : x # e => pc'[x] = pc[x]
    BY <1>1, <1>3 DEF pipeTypes, Label
  <1>6. held' \in [End -> Seq(Nat)] /\ held'[e] = <<>> /\ \A x \in End : x # e => held'[x] = held[x]
    BY <1>1, <1>3 DEF pipeTypes
  <1>7. pair[e] \o held[e] \in Seq(Nat) /\ copy[e] \o held[e] \in Seq(Nat)
    BY <1>2
  <1>8. /\ pair' \in [End -> Seq(Nat)] /\ copy' \in [End -> Seq(Nat)]
        /\ \A x \in End : x # e => pair'[x] = pair[x] /\ copy'[x] = copy[x]
        /\ setup.tee => copy'[e] = copy[e] /\ (connected => pair'[e] = pair[e] \o held[e])
        /\ ~setup.tee => pair'[e] = pair[e]
    <2>1. CASE setup.tee
      <3>1. copy' = copy /\ pair' = [pair EXCEPT ![e] = IF connected THEN @ \o held[e] ELSE @]
        BY <1>3, <2>1, Zenon DEF writeCopy
      <3>2. PICK p : p = IF connected THEN pair[e] \o held[e] ELSE pair[e]
        OBVIOUS
      <3>3. p \in Seq(Nat) /\ pair' = [pair EXCEPT ![e] = p]
        BY <1>2, <1>7, <3>1, <3>2
      <3>4. /\ pair' \in [End -> Seq(Nat)] /\ pair'[e] = p
            /\ \A x \in End : x # e => pair'[x] = pair[x]
        BY <1>1, <3>3 DEF pipeTypes
      <3> QED BY <1>1, <2>1, <3>1, <3>2, <3>4, Zenon DEF pipeTypes
    <2>2. CASE ~setup.tee
      <3>1. /\ pair' = pair
            /\ \E d \in Stray : copy' = [copy EXCEPT ![e] = IF d = "stdout" THEN @ \o held[e] ELSE @]
        BY <1>3, <2>2, Zenon DEF writeCopy
      <3>2. PICK d : copy' = [copy EXCEPT ![e] = IF d = "stdout" THEN @ \o held[e] ELSE @]
        BY <3>1
      <3>3. PICK p : p = IF d = "stdout" THEN copy[e] \o held[e] ELSE copy[e]
        OBVIOUS
      <3>4. p \in Seq(Nat) /\ copy' = [copy EXCEPT ![e] = p]
        BY <1>2, <1>7, <3>2, <3>3
      <3>5. copy' \in [End -> Seq(Nat)] /\ \A x \in End : x # e => copy'[x] = copy[x]
        BY <1>1, <3>4 DEF pipeTypes
      <3> QED BY <1>1, <2>2, <3>1, <3>5, Zenon DEF pipeTypes
    <2> QED BY <2>1, <2>2
  <1> QED BY <1>3, <1>4, <1>5, <1>6, <1>8, Zenon

\* What the read of the connection changes.
LEMMA SocketDoes ==
  ASSUME PipeInv, NEW e \in End, ReadSocket(e)
  PROVE  LET len == IF "in1" \in rev[e] THEN Len(received(e)) ELSE data_in_len[e]
         IN  /\ UNCHANGED <<setup, fed, coming, held, pair, copy, conn, backlog, nums, server>>
             /\ at(e, "socket")
             /\ pc' \in [End -> Label]
             /\ pc'[e] = IF checkHangup(e, len) THEN "leave" ELSE "poll"
             /\ rev' \in [End -> SUBSET {"in0", "hup0", "in1", "hup1", "in2"}] /\ rev'[e] = {}
             /\ data_in_len' \in [End -> Nat]
             /\ peer' \in [End -> End \cup {None}] /\ (connected => peer' = peer)
             /\ \A x \in End : x # e => /\ pc'[x] = pc[x] /\ rev'[x] = rev[x]
                                        /\ data_in_len'[x] = data_in_len[x]
             /\ took(e) \/ (out' = out /\ q' = q)
  <1> DEFINE len == IF "in1" \in rev[e] THEN Len(received(e)) ELSE data_in_len[e]
             l == IF checkHangup(e, len) THEN "leave" ELSE "poll"
  <1>1. pipeTypes
    BY DEF PipeInv
  <1>2. /\ UNCHANGED <<setup, fed, coming, held, pair, copy, conn, backlog, nums, server>>
        /\ at(e, "socket") /\ pc' = [pc EXCEPT ![e] = l]
        /\ rev' = [rev EXCEPT ![e] = {}] /\ data_in_len' = [data_in_len EXCEPT ![e] = 0]
    BY DEF ReadSocket, to
  <1>3. l \in Label
    BY DEF Label
  <1> HIDE DEF l
  <1>4. pc' \in [End -> Label] /\ pc'[e] = l /\ \A x \in End : x # e => pc'[x] = pc[x]
    BY <1>1, <1>2, <1>3 DEF pipeTypes, Label
  <1>5. /\ rev' \in [End -> SUBSET {"in0", "hup0", "in1", "hup1", "in2"}] /\ rev'[e] = {}
        /\ \A x \in End : x # e => rev'[x] = rev[x]
    BY <1>1, <1>2 DEF pipeTypes
  <1>6. /\ data_in_len' \in [End -> Nat]
        /\ \A x \in End : x # e => data_in_len'[x] = data_in_len[x]
    BY <1>1, <1>2 DEF pipeTypes
  <1>7. /\ took(e) \/ (out' = out /\ q' = q)
        /\ peer' \in [End -> End \cup {None}] /\ (connected => peer' = peer)
    <2>1. CASE "in1" \in rev[e]
      <3>1. /\ out' = [out EXCEPT ![e] = @ \o received(e)] /\ q' = [q EXCEPT ![e] = unread(e)]
            /\ peer' = [peer EXCEPT ![e] = IF setup.replay /\ ~connected /\ q[e] # <<>>
                                           THEN Head(q[e]).from ELSE @]
        BY <2>1, Zenon DEF ReadSocket
      <3>2. took(e)
        BY <1>1, <3>1, Took
      <3>3. CASE peer' = [peer EXCEPT ![e] = Head(q[e]).from] /\ ~connected /\ q[e] # <<>>
        <4>1. Head(q[e]) \in Packet
          BY <1>1, <3>3 DEF pipeTypes
        <4>2. Head(q[e]).from \in End
          BY <4>1 DEF Packet
        <4> QED BY <1>1, <3>2, <3>3, <4>2 DEF pipeTypes
      <3>4. CASE peer' = [peer EXCEPT ![e] = peer[e]]
        <4>1. peer' = peer
          BY <1>1, <3>4 DEF pipeTypes
        <4> QED BY <1>1, <3>2, <4>1 DEF pipeTypes
      <3>5. \/ peer' = [peer EXCEPT ![e] = Head(q[e]).from] /\ ~connected /\ q[e] # <<>>
            \/ peer' = [peer EXCEPT ![e] = peer[e]]
        BY <3>1, Zenon
      <3> QED BY <3>3, <3>4, <3>5
    <2>2. CASE "in1" \notin rev[e]
      <3>1. out' = out /\ q' = q /\ peer' = peer
        BY <2>2, Zenon DEF ReadSocket
      <3> QED BY <1>1, <3>1 DEF pipeTypes
    <2> QED BY <2>1, <2>2
  <1> HIDE DEF len
  <1>8. pc'[e] = IF checkHangup(e, len) THEN "leave" ELSE "poll"
    BY <1>4 DEF l
  <1> QED BY <1>2, <1>4, <1>5, <1>6, <1>7, <1>8, Zenon DEF len

\* What an end that leaves changes.
LEMMA LeaveDoes ==
  ASSUME PipeInv, NEW e \in End, Leave(e)
  PROVE  /\ UNCHANGED <<setup, fed, coming, rev, held, data_in_len, out, copy, peer, backlog,
                        nums, server>>
         /\ at(e, "leave") /\ pc' \in [End -> Label] /\ pc'[e] = "exit"
         /\ q' \in [End -> Seq(Packet)] /\ q'[e] = <<>>
         /\ pair' \in [End -> Seq(Nat)] /\ pair'[e] = <<>>
         /\ conn' \in [End -> {"no", "syn", "up", "down"}]
         /\ \A x \in End : x # e => pc'[x] = pc[x] /\ q'[x] = q[x] /\ pair'[x] = pair[x]
         /\ \A x \in End : x \notin {e, peer[e]} => conn'[x] = conn[x]
         /\ peer[e] = None => conn' = conn
         /\ connected /\ peer[e] # None =>
              /\ conn'[e] = "no" /\ peer[e] # e /\ peer[e] \in End
              /\ conn'[peer[e]] = IF conn[peer[e]] = "up" THEN "down" ELSE conn[peer[e]]
  <1>1. pipeTypes
    BY DEF PipeInv
  <1>2. /\ UNCHANGED <<setup, fed, coming, rev, held, data_in_len, out, copy, peer, backlog,
                       nums, server>>
        /\ at(e, "leave") /\ pc' = [pc EXCEPT ![e] = "exit"] /\ conn' = broken(e)
        /\ q' = [q EXCEPT ![e] = <<>>] /\ pair' = [pair EXCEPT ![e] = <<>>]
    BY DEF Leave, to
  <1>3. pc' \in [End -> Label] /\ pc'[e] = "exit" /\ \A x \in End : x # e => pc'[x] = pc[x]
    BY <1>1, <1>2 DEF pipeTypes, Label
  <1>4. q' \in [End -> Seq(Packet)] /\ q'[e] = <<>> /\ \A x \in End : x # e => q'[x] = q[x]
    BY <1>1, <1>2 DEF pipeTypes
  <1>5. pair' \in [End -> Seq(Nat)] /\ pair'[e] = <<>> /\ \A x \in End : x # e => pair'[x] = pair[x]
    BY <1>1, <1>2 DEF pipeTypes
  <1>6. /\ conn' \in [End -> {"no", "syn", "up", "down"}]
        /\ \A x \in End : x \notin {e, peer[e]} => conn'[x] = conn[x]
        /\ peer[e] = None => conn' = conn
        /\ connected /\ peer[e] # None =>
              /\ conn'[e] = "no" /\ peer[e] # e /\ peer[e] \in End
              /\ conn'[peer[e]] = IF conn[peer[e]] = "up" THEN "down" ELSE conn[peer[e]]
    <2>1. CASE connected /\ peer[e] # None
      <3>1. peer[e] \in End /\ peer[e] # e
        <4>1. linkOK(e)
          BY <2>1 DEF PipeInv
        <4>2. peer[e] \in End
          BY <1>1, <2>1 DEF pipeTypes
        <4> QED BY <2>1, <4>1, <4>2, Ends DEF linkOK
      <3>2. PICK v : v = IF conn[peer[e]] = "up" THEN "down" ELSE conn[peer[e]]
        OBVIOUS
      <3>3. v \in {"no", "syn", "up", "down"} /\ conn \in [End -> {"no", "syn", "up", "down"}]
        BY <1>1, <3>1, <3>2 DEF pipeTypes
      <3>4. conn' = [conn EXCEPT ![e] = "no", ![peer[e]] = v]
        <4>1. conn' = [conn EXCEPT ![e] = "no", ![peer[e]] = IF @ = "up" THEN "down" ELSE @]
          BY <1>2, <2>1 DEF broken
        <4> QED BY <3>1, <3>2, <3>3, <4>1
      <3>5. /\ conn' \in [End -> {"no", "syn", "up", "down"}] /\ conn'[e] = "no"
            /\ conn'[peer[e]] = v /\ \A x \in End : x \notin {e, peer[e]} => conn'[x] = conn[x]
        BY <3>1, <3>3, <3>4
      <3> QED BY <2>1, <3>1, <3>2, <3>5
    <2>2. CASE ~(connected /\ peer[e] # None)
      <3>1. conn' = conn
        BY <1>2, <2>2 DEF broken
      <3> QED BY <1>1, <2>2, <3>1 DEF pipeTypes
    <2> QED BY <2>1, <2>2
  <1> QED BY <1>2, <1>3, <1>4, <1>5, <1>6, Zenon

\* Every step keeps the types.
LEMMA StepTypes ==
  ASSUME PipeInv, Next
  PROVE  pipeTypes' /\ setup' = setup
  <1> USE DEF io, net, nums
  <1>a. ASSUME setup' = setup PROVE {slot(c) : c \in Client}' = {slot(c) : c \in Client}
    BY <1>a DEF slot
  <1>b. pipeTypes
    BY DEF PipeInv
  <1>1. ASSUME NEW s \in Source, Feed(s) PROVE pipeTypes' /\ setup' = setup
    BY <1>a, <1>b, <1>1, FeedDoes DEF pipeTypes
  <1>2. CASE run_server
    <2>1. /\ setup' = setup /\ pc' \in [End -> Label] /\ peer' \in [End -> End \cup {None}]
          /\ server' \in {"bind", "listen", "io", "exit"}
      <3>1. CASE server' = "listen" /\ UNCHANGED <<pc, peer>>
        BY <1>b, <1>2, <3>1, ServerDoes DEF pipeTypes, Label
      <3>2. CASE server' = "io" /\ pc' \in [End -> Label] /\ \E w \in Worker : peer' = [e \in End |-> w]
        BY <1>b, <1>2, <3>2, ServerDoes, Ends
      <3> QED BY <1>b, <1>2, <3>1, <3>2, ServerDoes, Zenon
    <2> QED BY <1>a, <1>b, <1>2, <2>1, ServerDoes DEF pipeTypes, Label
  <1>3. CASE listen_accept_and_io
    <2>1. /\ UNCHANGED <<setup, fed, coming, io, nums, q>> /\ pc' \in [End -> Label]
          /\ server' \in {"bind", "listen", "io", "exit"} /\ backlog' \in Seq(Client)
          /\ conn' \in [End -> {"no", "syn", "up", "down"}]
          /\ peer' \in [End -> End \cup {None}]
      BY <1>3, ServeDoes
    <2> QED BY <1>a, <1>b, <2>1 DEF pipeTypes, Label
  <1>4. CASE ServerExit
    <2>1. /\ UNCHANGED <<setup, fed, coming, pc, io, nums, q, peer>> /\ backlog' \in Seq(Client)
          /\ server' \in {"bind", "listen", "io", "exit"}
          /\ conn' \in [End -> {"no", "syn", "up", "down"}]
      BY <1>b, <1>4, ExitDoes
    <2> QED BY <1>a, <1>b, <2>1 DEF pipeTypes
  <1>5. ASSUME NEW c \in Client, run_client(c) PROVE pipeTypes' /\ setup' = setup
    <2>1. /\ UNCHANGED <<setup, fed, coming, io, nums, server, q, peer>> /\ pc' \in [End -> Label]
          /\ conn' \in [End -> {"no", "syn", "up", "down"}] /\ backlog' \in Seq(Client)
      BY <1>b, <1>5, ClientDoes, Zenon
    <2> QED BY <1>a, <1>b, <2>1 DEF pipeTypes, Label
  <1>6. ASSUME NEW c \in Client, Connected(c) \/ ConnectTimeout(c)
        PROVE  pipeTypes' /\ setup' = setup
    <2>1. /\ UNCHANGED <<setup, fed, coming, io, nums, server, q, peer, backlog>>
          /\ pc' \in [End -> Label] /\ conn' \in [End -> {"no", "syn", "up", "down"}]
      BY <1>b, <1>6, DialDoes, Zenon
    <2> QED BY <1>a, <1>b, <2>1 DEF pipeTypes, Label
  <1>7. ASSUME NEW e \in End, generate_data(e) PROVE pipeTypes' /\ setup' = setup
    <2>1. /\ UNCHANGED <<setup, fed, coming, io, conn, peer, backlog, i, lost, got, server>>
          /\ pc' \in [End -> Label] /\ q' \in [End -> Seq(Packet)] /\ seqno' \in [Client -> Nat]
      BY <1>b, <1>7, GenerateDoes DEF wrote, pipeTypes, Label
    <2> QED BY <1>a, <1>b, <2>1 DEF pipeTypes, Label
  <1>8. ASSUME NEW e \in End, check_generated_data(e) PROVE pipeTypes' /\ setup' = setup
    <2>1. UNCHANGED <<setup, fed, coming, rev, held, data_in_len, pair, copy, conn, peer,
                      backlog, seqno, server>>
      BY <1>8, CheckDoes
    <2>2. CASE pc' \in [End -> Label] /\ UNCHANGED <<i, lost, got, q, out>>
      BY <1>a, <1>b, <2>1, <2>2 DEF pipeTypes, Label
    <2>3. CASE LET c == Head(q[e]).from
                   seq == Head(received(e))
               IN  /\ q[e] # <<>> /\ received(e) # <<>> /\ pc' = pc /\ took(e)
                   /\ \E v \in expected(c) : lost' = [lost EXCEPT ![c] = @ + seq - v]
                   /\ i' = [i EXCEPT ![slot(c)] = seq + 1]
                   /\ got' = [got EXCEPT ![c] = @ + Len(received(e))]
      <3> DEFINE c == Head(q[e]).from
                 seq == Head(received(e))
      <3>1. received(e) \in Seq(Nat) /\ Len(received(e)) \in Nat
        BY <1>b, Receive DEF pipeTypes, Bytes
      <3>2. seq \in Nat
        BY <2>3, <3>1
      <3>3. i' \in [{slot(d) : d \in Client} -> Nat]
        <4> HIDE DEF seq, c
        <4>1. i \in [{slot(d) : d \in Client} -> Nat] /\ i' = [i EXCEPT ![slot(c)] = seq + 1]
          BY <1>b, <2>3 DEF pipeTypes, seq, c
        <4>2. \A n \in {slot(d) : d \in Client} : i'[n] = IF n = slot(c) THEN seq + 1 ELSE i[n]
          BY <4>1
        <4>3. DOMAIN i' = {slot(d) : d \in Client}
          BY <4>1
        <4>4. i' = [n \in {slot(d) : d \in Client} |-> i'[n]]
          BY <4>1, <4>3
        <4>5. \A n \in {slot(d) : d \in Client} : i'[n] \in Nat
          BY <3>2, <4>1, <4>2
        <4> QED BY <4>4, <4>5
      <3>4. got' \in [Client -> Nat]
        <4>1. got \in [Client -> Nat] /\ got' = [got EXCEPT ![c] = @ + Len(received(e))]
          BY <1>b, <2>3 DEF pipeTypes
        <4> HIDE DEF c
        <4>2. /\ \A d \in Client : got'[d] = IF d = c THEN got[c] + Len(received(e)) ELSE got[d]
              /\ got' = [d \in Client |-> got'[d]]
          BY <4>1
        <4>3. \A d \in Client : got'[d] \in Nat
          BY <3>1, <4>1, <4>2
        <4> QED BY <4>2, <4>3
      <3>5. lost' \in [Client -> Int]
        <4>1. PICK v \in expected(c) : lost' = [lost EXCEPT ![c] = @ + seq - v]
          BY <2>3
        <4>2. lost \in [Client -> Int] /\ (c \in Client => v \in Int)
          BY <1>b, PipeAssumption DEF pipeTypes, expected
        <4> HIDE DEF seq, c
        <4>3. /\ \A d \in Client : lost'[d] = IF d = c THEN lost[c] + seq - v ELSE lost[d]
              /\ lost' = [d \in Client |-> lost'[d]]
          BY <4>1, <4>2
        <4>4. \A d \in Client : lost'[d] \in Int
          BY <3>2, <4>1, <4>2, <4>3
        <4> QED BY <4>3, <4>4
      <3>6. pc' = pc /\ q' \in [End -> Seq(Packet)] /\ out' \in [End -> Seq(Nat)]
        BY <2>3 DEF took
      <3> QED BY <1>a, <1>b, <2>1, <3>3, <3>4, <3>5, <3>6 DEF pipeTypes
    <2> QED BY <1>8, <2>2, <2>3, CheckDoes, Zenon
  <1>9. ASSUME NEW e \in End, Poll(e) PROVE pipeTypes' /\ setup' = setup
    <2>1. /\ UNCHANGED <<setup, fed, coming, held, out, net, nums, server>>
          /\ pc' \in [End -> Label]
          /\ rev' \in [End -> SUBSET {"in0", "hup0", "in1", "hup1", "in2"}]
          /\ data_in_len' \in [End -> Nat]
          /\ copy' \in [End -> Seq(Nat)] /\ pair' \in [End -> Seq(Nat)]
      BY <1>9, PollDoes, Zenon
    <2> QED BY <1>a, <1>b, <2>1 DEF pipeTypes, Label
  <1>10. ASSUME NEW e \in End, ReadStdin(e) PROVE pipeTypes' /\ setup' = setup
    <2>1. /\ UNCHANGED <<setup, coming, rev, pair, out, copy, net, nums, server>>
          /\ pc' \in [End -> Label] /\ fed' \in [Source -> Seq(Nat)]
          /\ held' \in [End -> Seq(Nat)] /\ data_in_len' \in [End -> Nat]
      BY <1>10, StdinDoes, Zenon
    <2> QED BY <1>a, <1>b, <2>1 DEF pipeTypes, Label
  <1>11. ASSUME NEW e \in End, Write(e) PROVE pipeTypes' /\ setup' = setup
    <2>1. /\ UNCHANGED <<setup, fed, coming, rev, data_in_len, out, conn, peer, backlog, nums,
                         server>>
          /\ pc' \in [End -> Label] /\ held' \in [End -> Seq(Nat)]
          /\ pair' \in [End -> Seq(Nat)] /\ copy' \in [End -> Seq(Nat)]
          /\ q' \in [End -> Seq(Packet)]
      BY <1>11, WriteDoes, Zenon DEF wrote
    <2> QED BY <1>a, <1>b, <2>1 DEF pipeTypes, Label
  <1>12. ASSUME NEW e \in End, ReadSocket(e) PROVE pipeTypes' /\ setup' = setup
    <2>1. /\ UNCHANGED <<setup, fed, coming, held, pair, copy, conn, backlog, nums, server>>
          /\ pc' \in [End -> Label]
          /\ rev' \in [End -> SUBSET {"in0", "hup0", "in1", "hup1", "in2"}]
          /\ data_in_len' \in [End -> Nat] /\ peer' \in [End -> End \cup {None}]
          /\ took(e) \/ (out' = out /\ q' = q)
      BY <1>12, SocketDoes, Zenon
    <2>2. q' \in [End -> Seq(Packet)] /\ out' \in [End -> Seq(Nat)]
      BY <1>b, <2>1 DEF took, pipeTypes
    <2> QED BY <1>a, <1>b, <2>1, <2>2 DEF pipeTypes, Label
  <1>13. ASSUME NEW e \in End, Leave(e) PROVE pipeTypes' /\ setup' = setup
    <2>1. /\ UNCHANGED <<setup, fed, coming, rev, held, data_in_len, out, copy, peer, backlog,
                         nums, server>>
          /\ pc' \in [End -> Label] /\ q' \in [End -> Seq(Packet)]
          /\ pair' \in [End -> Seq(Nat)] /\ conn' \in [End -> {"no", "syn", "up", "down"}]
      BY <1>13, LeaveDoes, Zenon
    <2> QED BY <1>a, <1>b, <2>1 DEF pipeTypes, Label
  <1> QED BY <1>1, <1>2, <1>3, <1>4, <1>5, <1>6, <1>7, <1>8, <1>9, <1>10, <1>11, <1>12, <1>13,
             Zenon DEF Next, Open, Work, Serve

-----------------------------------------------------------------------------
(***************************************************************************)
(* Labels, and what has not been read or printed.                          *)
(***************************************************************************)

\* Facts of the setup hold as long as the setup stays.
LEMMA SetupFrame ==
  ASSUME setup' = setup
  PROVE  /\ connected' = connected /\ counting' = counting
         /\ \A e : /\ data_io(e)' = data_io(e) /\ modeLabels(e)' = modeLabels(e)
                   /\ pipes(e)' = pipes(e) /\ alone(e)' = alone(e) /\ kind(e)' = kind(e)
                   /\ slot(e)' = slot(e)
  <1>1. \A e : data_io(e)' = data_io(e)
    BY DEF data_io
  <1>2. connected' = connected /\ counting' = counting
    BY DEF connected, counting
  <1>3. \A e : modeLabels(e)' = modeLabels(e)
    BY <1>1 DEF modeLabels
  <1>4. \A e : pipes(e)' = pipes(e) /\ alone(e)' = alone(e)
    BY <1>1, <1>2 DEF pipes, alone
  <1>5. \A e : kind(e)' = kind(e) /\ slot(e)' = slot(e)
    BY DEF kind, stdin, slot
  <1> QED BY <1>1, <1>2, <1>3, <1>4, <1>5

\* A label stays, or moves on within those of the end.
LEMMA LabelTo ==
  ASSUME NEW x \in End, setup' = setup, labelOK(x),
         \/ pc'[x] = pc[x] \/ pc'[x] \in modeLabels(x) \cup {"leave", "exit"}
         \/ x \in Client /\ pc'[x] = "dial"
  PROVE  labelOK(x)'
  <1>1. modeLabels(x)' = modeLabels(x)
    BY SetupFrame
  <1> QED BY <1>1 DEF labelOK

\* An end that has not started stays so while its own state stays.
LEMMA FreshFrame ==
  ASSUME NEW x \in End, setup' = setup, freshOK(x), pc'[x] = pc[x], held'[x] = held[x],
         pc[x] \in {"unborn", "start", "dial"} =>
           out'[x] = out[x] /\ pair'[x] = pair[x] /\ copy'[x] = copy[x],
         pc[x] \in {"start", "dial"} =>
           fed'[stdin(x)] \o coming'[stdin(x)] = fed[stdin(x)] \o coming[stdin(x)]
  PROVE  freshOK(x)'
  <1>1. held'[x] # <<>> => pc'[x] = "write"
    BY DEF freshOK, at
  <1>2. pc'[x] \in {"unborn", "start", "dial"} => out'[x] = <<>> /\ pair'[x] = <<>> /\ copy'[x] = <<>>
    BY DEF freshOK
  <1>3. pc'[x] \in {"start", "dial"} => fed'[stdin(x)] \o coming'[stdin(x)] = setup'.input[stdin(x)]
    BY DEF freshOK, inputOf
  <1> QED BY <1>1, <1>2, <1>3 DEF freshOK, inputOf, at, stdin

\* An end past its start owes nothing but holding bytes only while it writes them.
LEMMA FreshMove ==
  ASSUME NEW x \in End, pc'[x] \notin {"unborn", "start", "dial"},
         held'[x] = <<>> \/ pc'[x] = "write"
  PROVE  freshOK(x)'
  BY DEF freshOK, at

\* Every step keeps what holds of the ends that have not started.
LEMMA StepFresh ==
  ASSUME PipeInv, Next, NEW x \in End
  PROVE  labelOK(x)' /\ freshOK(x)'
  <1> USE DEF io, net, nums
  <1>a. setup' = setup
    BY StepTypes
  <1>b. pipeTypes /\ bindOK /\ labelOK(x) /\ freshOK(x)
    BY DEF PipeInv
  <1>c. \A e : data_io(e) \in {"generate", "check", "poll"} /\ data_io(e) \in modeLabels(e)
    BY ModeLabels
  <1>d. ASSUME x \in Worker PROVE pc[x] \notin {"start", "dial"}
    <2>1. pc[x] \in modeLabels(x) \cup {"leave", "exit", "unborn"}
      BY <1>b, <1>d, Ends DEF labelOK
    <2>2. modeLabels(x) \subseteq {"poll", "stdin", "write", "socket", "generate", "check"}
      BY ModeLabels
    <2> QED BY <2>1, <2>2
  <1>e. held[x] # <<>> => pc[x] = "write"
    BY <1>b DEF freshOK, at
  <1>1. ASSUME NEW s \in Source, Feed(s) PROVE labelOK(x)' /\ freshOK(x)'
    <2>1. /\ UNCHANGED <<setup, pc, io, net, nums, server>>
          /\ fed'[s] \o coming'[s] = fed[s] \o coming[s]
          /\ \A y \in Source : y # s => fed'[y] = fed[y] /\ coming'[y] = coming[y]
      BY <1>b, <1>1, FeedDoes
    <2>2. fed'[stdin(x)] \o coming'[stdin(x)] = fed[stdin(x)] \o coming[stdin(x)]
      BY <2>1, Ends
    <2> QED BY <1>b, <2>1, <2>2, LabelTo, FreshFrame
  <1>2. CASE run_server
    <2>1. /\ UNCHANGED <<setup, fed, coming, io, nums, q, conn, backlog>> /\ server = "bind"
          /\ \/ connected /\ server' = "listen" /\ UNCHANGED <<pc, peer>>
             \/ /\ ~connected /\ server' = "io"
                /\ \E w \in Worker :
                     /\ pc' \in [End -> Label] /\ pc'[w] = data_io(w)
                     /\ \A y \in End : y # w => pc'[y] = pc[y]
                     /\ peer' = [e \in End |-> w]
      BY <1>b, <1>2, ServerDoes, Zenon
    <2>2. CASE UNCHANGED pc
      BY <1>b, <2>1, <2>2, LabelTo, FreshFrame
    <2>3. ASSUME NEW w \in Worker, pc'[w] = data_io(w), \A y \in End : y # w => pc'[y] = pc[y]
          PROVE  labelOK(x)' /\ freshOK(x)'
      <3>1. CASE x # w
        BY <1>b, <2>1, <2>3, <3>1, LabelTo, FreshFrame
      <3>2. CASE x = w
        <4>1. pc[x] = "unborn"
          BY <1>b, <2>1, <3>2 DEF bindOK, at
        <4>2. held'[x] = <<>>
          BY <1>e, <2>1, <4>1
        <4>3. labelOK(x)'
          BY <1>a, <1>b, <1>c, <2>3, <3>2, LabelTo
        <4>4. pc'[x] \notin {"unborn", "start", "dial"}
          BY <1>c, <2>3, <3>2
        <4> QED BY <4>2, <4>3, <4>4, FreshMove
      <3> QED BY <3>1, <3>2
    <2> QED BY <2>1, <2>2, <2>3, Zenon
  <1>3. CASE listen_accept_and_io
    <2>1. UNCHANGED <<setup, fed, coming, io, nums, q>>
      BY <1>3, ServeDoes
    <2>2. PICK w \in Worker : /\ at(w, "unborn") /\ pc'[w] = data_io(w)
                              /\ \A y \in End : y # w => pc'[y] = pc[y]
      BY <1>3, ServeDoes, Zenon
    <2>3. CASE x # w
      BY <1>b, <2>1, <2>2, <2>3, LabelTo, FreshFrame
    <2>4. CASE x = w
      <3>1. held'[x] = <<>>
        BY <1>e, <2>1, <2>2, <2>4 DEF at
      <3>2. labelOK(x)'
        BY <1>a, <1>b, <1>c, <2>2, <2>4, LabelTo
      <3>3. pc'[x] \notin {"unborn", "start", "dial"}
        BY <1>c, <2>2, <2>4
      <3> QED BY <3>1, <3>2, <3>3, FreshMove
    <2> QED BY <2>3, <2>4
  <1>4. CASE ServerExit
    BY <1>b, <1>4, ExitDoes, LabelTo, FreshFrame
  <1>5. ASSUME NEW c \in Client, run_client(c) PROVE labelOK(x)' /\ freshOK(x)'
    <2>1. /\ UNCHANGED <<setup, fed, coming, io, nums, server, q, peer>> /\ at(c, "start")
          /\ \A y \in End : y # c => pc'[y] = pc[y]
          /\ pc'[c] = "dial" \/ pc'[c] = data_io(c)
      BY <1>b, <1>5, ClientDoes, Zenon
    <2>2. CASE x # c
      BY <1>b, <2>1, <2>2, LabelTo, FreshFrame
    <2>3. CASE x = c /\ pc'[c] = "dial"
      <3>1. labelOK(x)'
        BY <1>a, <1>b, <2>3, LabelTo
      <3>2. /\ held'[x] = <<>> /\ out'[x] = <<>> /\ pair'[x] = <<>> /\ copy'[x] = <<>>
            /\ fed'[stdin(x)] \o coming'[stdin(x)] = setup'.input[stdin(x)]
        BY <1>b, <2>1, <2>3 DEF freshOK, at, inputOf
      <3> QED BY <3>1, <3>2 DEF freshOK, at, inputOf, stdin
    <2>4. CASE x = c /\ pc'[c] = data_io(c)
      <3>1. labelOK(x)'
        BY <1>a, <1>b, <1>c, <2>4, LabelTo
      <3>2. held'[x] = <<>>
        BY <1>e, <2>1, <2>4 DEF at
      <3> QED BY <1>c, <2>4, <3>1, <3>2, FreshMove
    <2> QED BY <2>1, <2>2, <2>3, <2>4
  <1>6. ASSUME NEW c \in Client, Connected(c) \/ ConnectTimeout(c) PROVE labelOK(x)' /\ freshOK(x)'
    <2>1. /\ UNCHANGED <<setup, fed, coming, io, nums, server, q, peer, backlog>> /\ at(c, "dial")
          /\ \A y \in End : y # c => pc'[y] = pc[y]
          /\ pc'[c] = data_io(c)
      BY <1>b, <1>6, DialDoes, Zenon
    <2>2. CASE x # c
      BY <1>b, <2>1, <2>2, LabelTo, FreshFrame
    <2>3. CASE x = c
      <3>1. labelOK(x)'
        BY <1>a, <1>b, <1>c, <2>1, <2>3, LabelTo
      <3>2. held'[x] = <<>>
        BY <1>e, <2>1, <2>3 DEF at
      <3> QED BY <1>c, <2>1, <2>3, <3>1, <3>2, FreshMove
    <2> QED BY <2>2, <2>3
  <1>7. ASSUME NEW e \in End, generate_data(e) PROVE labelOK(x)' /\ freshOK(x)'
    <2>1. /\ UNCHANGED <<setup, fed, coming, io, conn, peer, backlog, i, lost, got, server>>
          /\ at(e, "generate")
          /\ pc' = pc \/ (pc'[e] = "leave" /\ \A y \in End : y # e => pc'[y] = pc[y])
      BY <1>7, GenerateDoes, Zenon
    <2>2. CASE pc'[x] = pc[x]
      BY <1>b, <2>1, <2>2, LabelTo, FreshFrame
    <2>3. CASE x = e /\ pc'[e] = "leave"
      <3>1. labelOK(x)'
        BY <1>a, <1>b, <2>3, LabelTo
      <3>2. held'[x] = <<>>
        BY <1>e, <2>1, <2>3 DEF at
      <3> QED BY <2>3, <3>1, <3>2, FreshMove
    <2> QED BY <2>1, <2>2, <2>3
  <1>8. ASSUME NEW e \in End, check_generated_data(e) PROVE labelOK(x)' /\ freshOK(x)'
    <2>1. /\ UNCHANGED <<setup, fed, coming, rev, held, data_in_len, pair, copy, conn, peer,
                         backlog, seqno, server>>
          /\ at(e, "check") /\ (pc'[e] = "leave" \/ pc'[e] = pc[e])
          /\ \A y \in End : y # e => pc'[y] = pc[y] /\ out'[y] = out[y]
      BY <1>8, CheckDoes, Zenon DEF took
    <2>2. CASE x # e
      BY <1>b, <2>1, <2>2, LabelTo, FreshFrame
    <2>3. CASE x = e
      <3>1. labelOK(x)'
        BY <1>a, <1>b, <2>1, <2>3, LabelTo
      <3>2. held'[x] = <<>> /\ pc'[x] \notin {"unborn", "start", "dial"}
        BY <1>e, <2>1, <2>3 DEF at
      <3> QED BY <3>1, <3>2, FreshMove
    <2> QED BY <2>2, <2>3
  <1>9. ASSUME NEW e \in End, Poll(e) PROVE labelOK(x)' /\ freshOK(x)'
    <2>1. /\ UNCHANGED <<setup, fed, coming, held, out, net, nums, server>> /\ at(e, "poll")
          /\ pc'[e] \in {"stdin", "socket"}
          /\ \A y \in End : y # e => pc'[y] = pc[y] /\ copy'[y] = copy[y] /\ pair'[y] = pair[y]
      BY <1>9, PollDoes
    <2>2. CASE x # e
      BY <1>b, <2>1, <2>2, LabelTo, FreshFrame
    <2>3. CASE x = e
      <3>1. labelOK(x)'
        <4>1. data_io(x) = "poll"
          BY <2>1, <2>3, Piping DEF at
        <4>2. pc'[x] \in modeLabels(x)
          BY <2>1, <2>3, <4>1, ModeLabels
        <4> QED BY <1>a, <1>b, <4>2, LabelTo
      <3>2. held'[x] = <<>> /\ pc'[x] \notin {"unborn", "start", "dial"}
        BY <1>e, <2>1, <2>3 DEF at
      <3> QED BY <3>1, <3>2, FreshMove
    <2> QED BY <2>2, <2>3
  <1>10. ASSUME NEW e \in End, ReadStdin(e) PROVE labelOK(x)' /\ freshOK(x)'
    <2>1. /\ UNCHANGED <<setup, coming, rev, pair, out, copy, net, nums, server>> /\ at(e, "stdin")
          /\ pc'[e] = "write"
          /\ \A y \in End : y # e => pc'[y] = pc[y] /\ held'[y] = held[y]
          /\ \A y \in Source : y # stdin(e) => fed'[y] = fed[y]
      BY <1>10, StdinDoes, Zenon
    <2>2. CASE x # e
      <3>1. pc[x] \in {"start", "dial"} => fed'[stdin(x)] = fed[stdin(x)]
        BY <1>d, <2>1, <2>2, Ends
      <3> QED BY <1>b, <2>1, <2>2, <3>1, LabelTo, FreshFrame
    <2>3. CASE x = e
      <3>1. labelOK(x)'
        <4>1. data_io(x) = "poll"
          BY <2>1, <2>3, Piping DEF at
        <4>2. pc'[x] \in modeLabels(x)
          BY <2>1, <2>3, <4>1, ModeLabels
        <4> QED BY <1>a, <1>b, <4>2, LabelTo
      <3> QED BY <2>1, <2>3, <3>1, FreshMove
    <2> QED BY <2>2, <2>3
  <1>11. ASSUME NEW e \in End, Write(e) PROVE labelOK(x)' /\ freshOK(x)'
    <2>1. /\ UNCHANGED <<setup, fed, coming, rev, data_in_len, out, conn, peer, backlog, nums, server>>
          /\ at(e, "write") /\ pc'[e] = "socket" /\ held'[e] = <<>>
          /\ \A y \in End : y # e => /\ pc'[y] = pc[y] /\ held'[y] = held[y]
                                     /\ pair'[y] = pair[y] /\ copy'[y] = copy[y]
      BY <1>11, WriteDoes, Zenon
    <2>2. CASE x # e
      BY <1>b, <2>1, <2>2, LabelTo, FreshFrame
    <2>3. CASE x = e
      <3>1. labelOK(x)'
        <4>1. data_io(x) = "poll"
          BY <2>1, <2>3, Piping DEF at
        <4>2. pc'[x] \in modeLabels(x)
          BY <2>1, <2>3, <4>1, ModeLabels
        <4> QED BY <1>a, <1>b, <4>2, LabelTo
      <3> QED BY <2>1, <2>3, <3>1, FreshMove
    <2> QED BY <2>2, <2>3
  <1>12. ASSUME NEW e \in End, ReadSocket(e) PROVE labelOK(x)' /\ freshOK(x)'
    <2>1. /\ UNCHANGED <<setup, fed, coming, held, pair, copy, conn, backlog, nums, server>>
          /\ at(e, "socket") /\ pc'[e] \in {"poll", "leave"}
          /\ \A y \in End : y # e => pc'[y] = pc[y] /\ out'[y] = out[y]
      BY <1>12, SocketDoes DEF took
    <2>2. CASE x # e
      BY <1>b, <2>1, <2>2, LabelTo, FreshFrame
    <2>3. CASE x = e
      <3>1. labelOK(x)'
        <4>1. data_io(x) = "poll"
          BY <2>1, <2>3, Piping DEF at
        <4>2. pc'[x] \in modeLabels(x) \cup {"leave", "exit"}
          BY <2>1, <2>3, <4>1, ModeLabels
        <4> QED BY <1>a, <1>b, <4>2, LabelTo
      <3>2. held'[x] = <<>> /\ pc'[x] \notin {"unborn", "start", "dial"}
        BY <1>e, <2>1, <2>3 DEF at
      <3> QED BY <3>1, <3>2, FreshMove
    <2> QED BY <2>2, <2>3
  <1>13. ASSUME NEW e \in End, Leave(e) PROVE labelOK(x)' /\ freshOK(x)'
    <2>1. /\ UNCHANGED <<setup, fed, coming, rev, held, data_in_len, out, copy, peer, backlog,
                         nums, server>>
          /\ at(e, "leave") /\ pc'[e] = "exit"
          /\ \A y \in End : y # e => pc'[y] = pc[y] /\ pair'[y] = pair[y]
      BY <1>13, LeaveDoes
    <2>2. CASE x # e
      BY <1>b, <2>1, <2>2, LabelTo, FreshFrame
    <2>3. CASE x = e
      <3>1. labelOK(x)'
        BY <1>a, <1>b, <2>1, <2>3, LabelTo
      <3>2. held'[x] = <<>> /\ pc'[x] \notin {"unborn", "start", "dial"}
        BY <1>e, <2>1, <2>3 DEF at
      <3> QED BY <3>1, <3>2, FreshMove
    <2> QED BY <2>2, <2>3
  <1> QED BY <1>1, <1>2, <1>3, <1>4, <1>5, <1>6, <1>7, <1>8, <1>9, <1>10, <1>11, <1>12, <1>13,
             Zenon DEF Next, Open, Work, Serve

\* Before the server has bound its name; the last number generated.
LEMMA StepBind ==
  ASSUME PipeInv, Next
  PROVE  bindOK' /\ \A c \in Client : seqno'[c] <= setup'.data_num
  <1> USE DEF io, net, nums
  <1>a. pipeTypes /\ bindOK /\ setup' = setup /\ \A c \in Client : seqno[c] <= setup.data_num
    BY StepTypes DEF PipeInv
  <1>b. \A e \in End : data_io(e) # "unborn"
    BY ModeLabels
  <1>c. server' = "bind" => server = "bind"
    <2>1. CASE Serve
      BY <2>1, <1>a, ServerDoes, ServeDoes, ExitDoes DEF Serve
    <2>2. CASE \E s \in Source : Feed(s)
      BY <2>2 DEF Feed
    <2>3. CASE \E c \in Client : Open(c) \/ ConnectTimeout(c)
      BY <2>3 DEF Open, run_client, Connected, ConnectTimeout
    <2>4. CASE \E e \in End : Work(e)
      BY <2>4 DEF Work, generate_data, check_generated_data, Poll, ReadStdin, Write, ReadSocket, Leave
    <2> QED BY <2>1, <2>2, <2>3, <2>4 DEF Next
  <1>d. ASSUME ~ \E e \in End : generate_data(e)
        PROVE  seqno' = seqno
    <2>1. CASE Serve
      BY <2>1 DEF Serve, run_server, listen_accept_and_io, ServerExit
    <2>2. CASE \E s \in Source : Feed(s)
      BY <2>2 DEF Feed
    <2>3. CASE \E c \in Client : Open(c) \/ ConnectTimeout(c)
      BY <2>3 DEF Open, run_client, Connected, ConnectTimeout
    <2>4. CASE \E e \in End : Work(e)
      BY <1>d, <2>4 DEF Work, check_generated_data, Poll, ReadStdin, Write, ReadSocket, Leave
    <2> QED BY <2>1, <2>2, <2>3, <2>4 DEF Next
  <1>1. \A c \in Client : seqno'[c] <= setup'.data_num
    <2>1. CASE \E e \in End : generate_data(e)
      <3>1. PICK e \in End : generate_data(e)
        BY <2>1
      <3>2. \/ /\ e \in Client /\ seqno[e] < setup.data_num /\ seqno'[e] = seqno[e] + 1
               /\ \A c \in Client : c # e => seqno'[c] = seqno[c]
            \/ seqno' = seqno
        BY <3>1, GenerateDoes, Zenon
      <3>3. setup.data_num \in Nat /\ \A c \in Client : seqno[c] \in Nat
        BY <1>a, SetupFacts DEF pipeTypes
      <3> QED BY <1>a, <3>2, <3>3
    <2> QED BY <1>a, <1>d, <2>1
  <1>2. bindOK'
    <2>1. SUFFICES ASSUME server' = "bind"
                   PROVE  /\ backlog' = <<>> /\ \A w \in Worker : pc'[w] = "unborn"
                          /\ \A x \in End : peer'[x] = None /\ conn'[x] = "no" /\ q'[x] = <<>>
      BY DEF bindOK, at
    <2>2. /\ server = "bind" /\ backlog = <<>> /\ \A w \in Worker : pc[w] = "unborn"
          /\ \A x \in End : peer[x] = None /\ conn[x] = "no" /\ q[x] = <<>>
      BY <1>a, <1>c, <2>1 DEF bindOK, at
    <2>a. \A w \in Worker : w \in End
      BY Ends
    <2>b. \A e \in End : ~canWrite(e)
      BY <2>2 DEF canWrite
    <2>3. ASSUME NEW s \in Source, Feed(s)
          PROVE  UNCHANGED <<backlog, pc, peer, conn, q>>
      BY <2>3 DEF Feed
    <2>4. ~Serve
      BY <2>1, <2>2, <1>a, ServerDoes, ServeDoes, ExitDoes DEF Serve
    <2>5. ASSUME NEW c \in Client, Open(c) \/ ConnectTimeout(c)
          PROVE  UNCHANGED <<backlog, peer, conn, q>> /\ \A x \in End : x # c => pc'[x] = pc[x]
      <3>1. CASE run_client(c)
        <4>1. /\ UNCHANGED <<q, peer>> /\ \A x \in End : x # c => pc'[x] = pc[x]
              /\ server \in {"listen", "io"} \/ UNCHANGED <<conn, backlog>>
          BY <1>a, <3>1, ClientDoes, Zenon
        <4> QED BY <2>2, <4>1
      <3>2. CASE Connected(c) \/ ConnectTimeout(c)
        <4>1. /\ UNCHANGED <<q, peer, backlog>> /\ \A x \in End : x # c => pc'[x] = pc[x]
              /\ conn[c] = "syn" \/ conn' = conn
              /\ c \in End
          BY <1>a, <3>2, DialDoes, Zenon
        <4> QED BY <2>2, <4>1, Ends
      <3> QED BY <2>5, <3>1, <3>2 DEF Open
    <2>6. ASSUME NEW e \in End, Work(e)
          PROVE  /\ UNCHANGED <<backlog, peer>> /\ (\A x \in End : conn'[x] = "no" /\ q'[x] = <<>>)
                 /\ \A w \in Worker : pc'[w] = pc[w]
      <3>1. CASE generate_data(e)
        <4>1. /\ UNCHANGED <<backlog, peer, conn>> /\ at(e, "generate")
              /\ wrote(e, <<seqno[e]>>) \/ q' = q
              /\ \A x \in End : x # e => pc'[x] = pc[x]
          BY <3>1, GenerateDoes, Zenon
        <4>2. q' = q
          BY <2>b, <4>1 DEF wrote
        <4> QED BY <2>2, <2>a, <4>1, <4>2 DEF at
      <3>2. CASE Write(e)
        <4>1. /\ UNCHANGED <<backlog, peer, conn>> /\ at(e, "write") /\ wrote(e, held[e])
              /\ \A x \in End : x # e => pc'[x] = pc[x]
          BY <3>2, WriteDoes, Zenon
        <4>2. q' = q
          BY <2>b, <4>1 DEF wrote
        <4> QED BY <2>2, <2>a, <4>1, <4>2 DEF at
      <3>3. CASE check_generated_data(e)
        <4>1. at(e, "check") /\ e \in Worker
          BY <3>3, CheckDoes
        <4> QED BY <2>2, <4>1 DEF at
      <3>4. CASE Poll(e)
        <4>1. at(e, "poll") /\ UNCHANGED net /\ \A x \in End : x # e => pc'[x] = pc[x]
          BY <3>4, PollDoes
        <4> QED BY <2>2, <2>a, <4>1 DEF at
      <3>5. CASE ReadStdin(e)
        <4>1. at(e, "stdin") /\ UNCHANGED net /\ \A x \in End : x # e => pc'[x] = pc[x]
          BY <3>5, StdinDoes
        <4> QED BY <2>2, <2>a, <4>1 DEF at
      <3>6. CASE ReadSocket(e)
        <4>1. /\ at(e, "socket") /\ UNCHANGED <<conn, backlog>>
              /\ \A x \in End : x # e => pc'[x] = pc[x]
              /\ took(e) \/ q' = q
          BY <3>6, SocketDoes
        <4>2. \A x \in End : q'[x] = <<>>
          BY <2>2, <4>1 DEF took, unread
        <4>3. peer' = peer
          <5>1. \/ peer' = [peer EXCEPT ![e] = peer[e]]
                \/ peer' = peer
            BY <3>6, <2>2, Zenon DEF ReadSocket
          <5> QED BY <1>a, <5>1 DEF pipeTypes
        <4> QED BY <2>2, <2>a, <4>1, <4>2, <4>3 DEF at
      <3>7. CASE Leave(e)
        <4>1. /\ at(e, "leave") /\ UNCHANGED <<peer, backlog>>
              /\ \A x \in End : x # e => pc'[x] = pc[x] /\ q'[x] = q[x]
              /\ q'[e] = <<>> /\ (peer[e] = None => conn' = conn)
          BY <3>7, LeaveDoes
        <4> QED BY <2>2, <2>a, <4>1 DEF at
      <3> QED BY <2>6, <3>1, <3>2, <3>3, <3>4, <3>5, <3>6, <3>7 DEF Work
    <2>7. CASE \E s \in Source : Feed(s)
      BY <2>2, <2>3, <2>7
    <2>8. CASE \E c \in Client : Open(c) \/ ConnectTimeout(c)
      BY <2>2, <2>5, <2>8, <2>a, Ends
    <2>9. CASE \E e \in End : Work(e)
      BY <2>2, <2>6, <2>9
    <2> QED BY <2>4, <2>7, <2>8, <2>9 DEF Next
  <1> QED BY <1>1, <1>2

-----------------------------------------------------------------------------
(***************************************************************************)
(* Connections.                                                            *)
(***************************************************************************)
unbound == {"unborn", "start", "dial"}

\* Who has a connection has an other end, which has it as its other end.
LEMMA OtherEnd ==
  ASSUME PipeInv, connected, NEW x \in End
  PROVE  /\ conn[x] \in {"up", "down"} => peer[x] # None
         /\ peer[x] # None => peer[x] \in End /\ peer[peer[x]] = x /\ peer[x] # x
         /\ x \in Client /\ peer[x] # None => peer[x] \in Worker
         /\ x \in Worker /\ peer[x] # None => peer[x] \in Client
         /\ conn[x] = "up" => conn[peer[x]] = "up"
         /\ pc[x] \in {"start", "unborn"} => peer[x] = None
  <1>1. linkOK(x) /\ pipeTypes /\ labelOK(x)
    BY DEF PipeInv
  <1>2. peer[x] = None => conn[x] \in {"no", "syn"}
    BY <1>1 DEF linkOK
  <1>3. peer[x] # None => /\ peer[peer[x]] = x /\ (x \in Client => peer[x] \in Worker)
                          /\ (x \in Worker => peer[x] \in Client)
    BY <1>1, Zenon DEF linkOK
  <1>4. peer[x] \in End \cup {None}
    BY <1>1 DEF pipeTypes
  <1>5. pc[x] = "start" => peer[x] = None
    BY <1>1, Zenon DEF linkOK, at
  <1>6. pc[x] = "unborn" => peer[x] = None
    <2>1. CASE x \in Worker
      BY <1>1, <2>1, Zenon DEF linkOK, at
    <2>2. CASE x \in Client
      <3>1. pc[x] \in modeLabels(x) \cup {"leave", "exit", "start", "dial"}
        BY <1>1, <2>2 DEF labelOK
      <3>2. modeLabels(x) \subseteq {"poll", "stdin", "write", "socket", "generate", "check"}
        BY ModeLabels
      <3> QED BY <3>1, <3>2
    <2> QED BY <2>1, <2>2, Ends
  <1>7. conn[x] = "up" => conn[peer[x]] = "up"
    BY <1>1, Zenon DEF linkOK
  <1> QED BY <1>2, <1>3, <1>4, <1>5, <1>6, <1>7, Ends

\* What the work of an end leaves alone.
LEMMA WorkKeeps ==
  ASSUME PipeInv, connected, NEW e \in End, Work(e)
  PROVE  /\ UNCHANGED <<setup, peer, backlog, server>> /\ coming' = coming
         /\ pc[e] \notin unbound /\ pc'[e] \notin unbound
         /\ \A x \in End : x # e => pc'[x] = pc[x]
         /\ \A x \in End : peer[x] = None => q'[x] = <<>>
         /\ Leave(e) \/ conn' = conn
  <1> USE DEF io, net, nums
  <1>a. \A x \in End : peer[x] = None => q[x] = <<>>
    BY Zenon DEF PipeInv, linkOK
  <1>b. ASSUME took(e) PROVE \A x \in End : peer[x] = None => q'[x] = <<>>
    BY <1>a, <1>b DEF took, unread
  <1>c. ASSUME NEW d, wrote(e, d) PROVE \A x \in End : peer[x] = None => q'[x] = <<>>
    <2>1. q' = q \/ (canWrite(e) /\ \A x \in End : x # peer[e] => q'[x] = q[x])
      BY <1>c, Zenon DEF wrote
    <2>2. canWrite(e) => peer[e] # None
      BY DEF canWrite
    <2>3. canWrite(e) => peer[peer[e]] # None
      <3>1. linkOK(e)
        BY DEF PipeInv
      <3> QED BY <2>2, <3>1, Ends, Zenon DEF linkOK
    <2> QED BY <1>a, <2>1, <2>3
  <1>1. CASE generate_data(e)
    <2>1. /\ UNCHANGED <<setup, peer, backlog, server, coming, conn>> /\ at(e, "generate")
          /\ wrote(e, <<seqno[e]>>) \/ q' = q
          /\ \A x \in End : x # e => pc'[x] = pc[x]
          /\ pc'[e] = "leave" \/ pc' = pc
      BY <1>1, GenerateDoes, Zenon
    <2> QED BY <1>a, <1>c, <2>1 DEF at, unbound
  <1>2. CASE check_generated_data(e)
    <2>1. /\ UNCHANGED <<setup, peer, backlog, server, coming, conn>> /\ at(e, "check")
          /\ took(e) \/ q' = q
          /\ \A x \in End : x # e => pc'[x] = pc[x]
          /\ pc'[e] = "leave" \/ pc' = pc
      BY <1>2, CheckDoes, Zenon
    <2> QED BY <1>a, <1>b, <2>1 DEF at, unbound
  <1>3. CASE Poll(e)
    <2>1. /\ UNCHANGED <<setup, net, server, coming>> /\ at(e, "poll") /\ pc'[e] \in {"stdin", "socket"}
          /\ \A x \in End : x # e => pc'[x] = pc[x]
      BY <1>3, PollDoes
    <2> QED BY <1>a, <2>1 DEF at, unbound
  <1>4. CASE ReadStdin(e)
    <2>1. /\ UNCHANGED <<setup, net, server, coming>> /\ at(e, "stdin") /\ pc'[e] = "write"
          /\ \A x \in End : x # e => pc'[x] = pc[x]
      BY <1>4, StdinDoes
    <2> QED BY <1>a, <2>1 DEF at, unbound
  <1>5. CASE Write(e)
    <2>1. /\ UNCHANGED <<setup, peer, backlog, server, coming, conn>> /\ at(e, "write")
          /\ wrote(e, held[e]) /\ pc'[e] = "socket"
          /\ \A x \in End : x # e => pc'[x] = pc[x]
      BY <1>5, WriteDoes
    <2> QED BY <1>c, <2>1 DEF at, unbound
  <1>6. CASE ReadSocket(e)
    <2>1. /\ UNCHANGED <<setup, peer, backlog, server, coming, conn>> /\ at(e, "socket")
          /\ took(e) \/ q' = q
          /\ pc'[e] \in {"poll", "leave"} /\ \A x \in End : x # e => pc'[x] = pc[x]
      BY <1>6, SocketDoes
    <2> QED BY <1>a, <1>b, <2>1 DEF at, unbound
  <1>7. CASE Leave(e)
    <2>1. /\ UNCHANGED <<setup, peer, backlog, server, coming>> /\ at(e, "leave") /\ pc'[e] = "exit"
          /\ \A x \in End : x # e => pc'[x] = pc[x] /\ q'[x] = q[x]
          /\ q'[e] = <<>>
      BY <1>7, LeaveDoes
    <2> QED BY <1>a, <1>7, <2>1 DEF at, unbound
  <1> QED BY <1>1, <1>2, <1>3, <1>4, <1>5, <1>6, <1>7 DEF Work

\* The parts of linkOK, with the other end's connection.
LEMMA LinkFrame ==
  ASSUME NEW x \in End, linkOK(x), peer' = peer,
         peer[x] = None => q'[x] = <<>>,
         \A n \in 1 .. Len(backlog') : \E m \in 1 .. Len(backlog) : backlog'[n] = backlog[m],
         pc'[x] = pc[x] \/ (pc[x] \notin unbound /\ pc'[x] \notin unbound),
         conn'[x] = conn[x] \/ (conn[x] = "up" /\ conn'[x] = "down") \/ conn'[x] = "no",
         conn'[x] = "up" => conn'[peer[x]] = "up"
  PROVE  linkOK(x)'
  <1>1. /\ peer'[x] # None => /\ peer'[peer'[x]] = x
                              /\ x \in Client => peer'[x] \in Worker
                              /\ x \in Worker => peer'[x] \in Client
    BY Zenon DEF linkOK
  <1>2. peer[x] = None => conn[x] \in {"no", "syn"}
    BY DEF linkOK
  <1>3. conn[x] = "syn" => pc[x] = "dial" /\ peer[x] = None
    BY DEF linkOK, at
  <1>4. x \in Worker => (peer[x] = None <=> pc[x] = "unborn")
    BY Zenon DEF linkOK, at
  <1>5. pc[x] = "start" => /\ peer[x] = None /\ conn[x] = "no"
                           /\ \A n \in 1 .. Len(backlog) : backlog[n] # x
    BY Zenon DEF linkOK, at
  <1>6. pc'[x] \in unbound => pc'[x] = pc[x]
    OBVIOUS
  <1>7. pc[x] \in unbound => pc'[x] = pc[x]
    OBVIOUS
  <1>8. peer'[x] = None => q'[x] = <<>> /\ conn'[x] \in {"no", "syn"}
    BY <1>2
  <1>9. conn'[x] = "syn" => pc'[x] = "dial" /\ peer'[x] = None
    BY <1>3, <1>7 DEF unbound
  <1>10. x \in Worker => (peer'[x] = None <=> pc'[x] = "unborn")
    BY <1>4, <1>6, <1>7 DEF unbound
  <1>11. pc'[x] = "start" => /\ peer'[x] = None /\ conn'[x] = "no"
                             /\ \A n \in 1 .. Len(backlog') : backlog'[n] # x
    BY <1>5, <1>6 DEF unbound
  <1>12. conn'[x] = "up" => conn'[peer'[x]] = "up"
    OBVIOUS
  <1> QED BY <1>1, <1>8, <1>9, <1>10, <1>11, <1>12, Zenon DEF linkOK, at

\* An end whose own state and whose other end stay.
LEMMA LinkSame ==
  ASSUME NEW x \in End, linkOK(x), pc'[x] = pc[x], conn'[x] = conn[x], peer'[x] = peer[x],
         q'[x] = q[x], peer[x] # None => peer'[peer[x]] = x,
         \A n \in 1 .. Len(backlog') : backlog'[n] = x =>
           \E m \in 1 .. Len(backlog) : backlog[m] = x,
         conn'[x] = "up" => conn'[peer'[x]] = "up"
  PROVE  linkOK(x)'
  <1>1. peer'[x] # None => /\ peer'[peer'[x]] = x
                           /\ x \in Client => peer'[x] \in Worker
                           /\ x \in Worker => peer'[x] \in Client
    BY Zenon DEF linkOK
  <1>2. peer'[x] = None => q'[x] = <<>> /\ conn'[x] \in {"no", "syn"}
    BY Zenon DEF linkOK
  <1>3. conn'[x] = "syn" => pc'[x] = "dial" /\ peer'[x] = None
    BY Zenon DEF linkOK, at
  <1>4. x \in Worker => (peer'[x] = None <=> pc'[x] = "unborn")
    BY Zenon DEF linkOK, at
  <1>5. pc'[x] = "start" => /\ peer'[x] = None /\ conn'[x] = "no"
                            /\ \A n \in 1 .. Len(backlog') : backlog'[n] # x
    <2>1. pc[x] = "start" => /\ peer[x] = None /\ conn[x] = "no"
                             /\ \A n \in 1 .. Len(backlog) : backlog[n] # x
      BY Zenon DEF linkOK, at
    <2> QED BY <2>1
  <1> QED BY <1>1, <1>2, <1>3, <1>4, <1>5, Zenon DEF linkOK, at

\* What holds of the listening socket, while the server and the requests stay.
LEMMA ListenFrame ==
  ASSUME PipeInv, connected, setup' = setup, peer' = peer, backlog' = backlog, server' = server,
         \A w \in Worker : pc'[w] = "unborn" <=> pc[w] = "unborn"
  PROVE  listenOK'
  <1>1. listenOK
    BY DEF PipeInv
  <1> QED BY <1>1 DEF listenOK, at

\* Every step keeps who is connected with whom.
LEMMA StepLink ==
  ASSUME PipeInv, Next, connected
  PROVE  listenOK' /\ \A x \in End : linkOK(x)'
  <1> USE DEF io, net, nums
  <1>a. /\ pipeTypes /\ bindOK /\ listenOK /\ setup' = setup
        /\ \A x \in End : linkOK(x) /\ labelOK(x)
    BY StepTypes DEF PipeInv
  <1>b. \A x \in End : (conn[x] = "up" => conn[peer[x]] = "up") /\ (peer[x] = None => q[x] = <<>>)
    BY <1>a, Zenon DEF linkOK
  <1>c. \A n \in 1 .. Len(backlog) : \E m \in 1 .. Len(backlog) : backlog[n] = backlog[m]
    OBVIOUS
  <1>d. \A w \in Worker : w \in End
    BY Ends
  <1>1. ASSUME NEW s \in Source, Feed(s) PROVE listenOK' /\ \A x \in End : linkOK(x)'
    <2>1. UNCHANGED <<setup, pc, io, net, nums, server>>
      BY <1>1 DEF Feed
    <2>2. listenOK'
      BY <1>a, <2>1, ListenFrame
    <2>3. ASSUME NEW x \in End PROVE linkOK(x)'
      BY <1>a, <1>b, <1>c, <2>1, LinkFrame
    <2> QED BY <2>2, <2>3
  <1>2. CASE run_server
    <2>1. /\ UNCHANGED <<setup, pc, peer, q, conn, backlog>> /\ server = "bind"
          /\ server' = "listen"
      BY <1>a, <1>2, ServerDoes
    <2>2. \A w \in Worker : pc[w] = "unborn"
      BY <1>a, <2>1 DEF bindOK, at
    <2>3. listenOK'
      BY <1>a, <2>1, <2>2 DEF listenOK, at
    <2>4. ASSUME NEW x \in End PROVE linkOK(x)'
      BY <1>a, <1>b, <1>c, <2>1, LinkFrame
    <2> QED BY <2>3, <2>4
  <1>3. CASE listen_accept_and_io
    <2>1. /\ UNCHANGED <<setup, q>> /\ server = "listen" /\ backlog # <<>>
          /\ server' = IF setup.mode = "single_listener" THEN "io" ELSE "listen"
          /\ backlog' = Tail(backlog) /\ backlog' \in Seq(Client)
      BY <1>3, ServeDoes
    <2>2. PICK w \in Worker, c \in Client :
              /\ c = Head(backlog) /\ at(w, "unborn") /\ w # c /\ w \in End /\ c \in End
              /\ pc'[w] = data_io(w) /\ \A x \in End : x # w => pc'[x] = pc[x]
              /\ \A x \in End : x \notin {c, w} => conn'[x] = conn[x] /\ peer'[x] = peer[x]
              /\ conn[c] = "syn" => conn'[c] = "up" /\ conn'[w] = "up"
              /\ conn[c] # "syn" => conn'[c] = conn[c] /\ conn'[w] = "down"
              /\ peer'[w] = c /\ peer'[c] = w
      BY <1>3, ServeDoes, Zenon
    <2>3. /\ backlog \in Seq(Client) /\ Len(backlog) \in Nat \ {0} /\ Len(backlog') = Len(backlog) - 1
          /\ \A n \in 1 .. Len(backlog') : n + 1 \in 1 .. Len(backlog) /\ backlog'[n] = backlog[n + 1]
          /\ c = backlog[1]
      <3>1. backlog \in Seq(Client) /\ backlog # <<>>
        BY <1>a, <2>1 DEF pipeTypes
      <3>2. /\ Len(backlog) \in Nat \ {0} /\ Head(backlog) = backlog[1]
            /\ Len(Tail(backlog)) = Len(backlog) - 1
        BY <3>1
      <3>3. \A n \in 1 .. Len(backlog) - 1 : Tail(backlog)[n] = backlog[n + 1]
        BY <3>1, <3>2, HeadTailProperties
      <3> QED BY <2>1, <2>2, <3>1, <3>2, <3>3
    <2>4. /\ \A m, n \in 1 .. Len(backlog) : backlog[m] = backlog[n] => m = n
          /\ \A n \in 1 .. Len(backlog) : peer[backlog[n]] = None
          /\ setup.mode = "single_listener" => \A v \in Worker : pc[v] = "unborn"
      BY <1>a, <2>1 DEF listenOK, at
    <2>5. \A n \in 1 .. Len(backlog') : backlog'[n] # c /\ backlog'[n] \in Client
      BY <2>1, <2>3, <2>4
    <2>6. peer[w] = None /\ peer[c] = None
      BY <2>2, <2>3, <2>4, OtherEnd DEF at
    <2>7. listenOK'
      <3>1. \A m, n \in 1 .. Len(backlog') : backlog'[m] = backlog'[n] => m = n
        <4>1. SUFFICES ASSUME NEW m \in 1 .. Len(backlog'), NEW n \in 1 .. Len(backlog'),
                              backlog'[m] = backlog'[n]
                       PROVE  m = n
          OBVIOUS
        <4>2. m + 1 = n + 1
          BY <2>3, <2>4, <4>1
        <4> QED BY <4>2
      <3>2. \A n \in 1 .. Len(backlog') : peer'[backlog'[n]] = None
        <4>1. SUFFICES ASSUME NEW n \in 1 .. Len(backlog') PROVE peer'[backlog'[n]] = None
          OBVIOUS
        <4>2. backlog'[n] \notin {c, w} /\ backlog'[n] \in End
          BY <2>5, Ends
        <4>3. peer[backlog'[n]] = None
          BY <2>3, <2>4
        <4> QED BY <2>2, <4>2, <4>3
      <3>3. setup'.mode = "single_listener" =>
              /\ server' # "listen"
              /\ \A u, v \in Worker : pc'[u] # "unborn" /\ pc'[v] # "unborn" => u = v
        BY <1>d, <2>1, <2>2, <2>4
      <3> QED BY <3>1, <3>2, <3>3, Zenon DEF listenOK, at
    <2>8. ASSUME NEW x \in End PROVE linkOK(x)'
      <3>1. data_io(w) \notin unbound
        BY ModeLabels DEF unbound
      <3>2. CASE x = w
        <4>1. /\ peer'[x] # None /\ peer'[peer'[x]] = x /\ peer'[x] \in Client /\ x \notin Client
              /\ conn'[x] # "syn" /\ pc'[x] # "start" /\ pc'[x] # "unborn"
              /\ conn'[x] = "up" => conn'[peer'[x]] = "up"
          BY <2>2, <3>1, <3>2, Ends DEF unbound
        <4> QED BY <3>2, <4>1, Zenon DEF linkOK, at
      <3>3. CASE x = c
        <4>1. conn[c] \in {"no", "syn"} /\ pc[c] # "start"
          <5>1. conn[c] \in {"no", "syn"}
            BY <1>a, <2>2, <2>6 DEF linkOK
          <5>2. pc[c] = "start" => \A n \in 1 .. Len(backlog) : backlog[n] # c
            BY <1>a, <2>2, Zenon DEF linkOK, at
          <5>3. 1 \in 1 .. Len(backlog)
            BY <2>3
          <5> QED BY <2>3, <5>1, <5>2, <5>3
        <4>2. /\ peer'[x] # None /\ peer'[peer'[x]] = x /\ peer'[x] \in Worker /\ x \notin Worker
              /\ conn'[x] # "syn" /\ pc'[x] # "start"
              /\ conn'[x] = "up" => conn'[peer'[x]] = "up"
          BY <2>2, <3>3, <4>1, Ends
        <4> QED BY <3>3, <4>2, Zenon DEF linkOK, at
      <3>4. CASE x \notin {w, c}
        <4>1. pc'[x] = pc[x] /\ conn'[x] = conn[x] /\ peer'[x] = peer[x] /\ q'[x] = q[x]
          BY <2>1, <2>2, <3>4
        <4>2. peer[x] # None => /\ peer[x] \in End /\ peer[peer[x]] = x
                                /\ peer[x] \notin {w, c} /\ peer'[peer[x]] = x
                                /\ conn'[peer[x]] = conn[peer[x]]
          BY <2>2, <2>6, <3>4, OtherEnd, Ends
        <4>3. \A n \in 1 .. Len(backlog') : \E m \in 1 .. Len(backlog) : backlog'[n] = backlog[m]
          BY <2>3
        <4>4. conn'[x] = "up" => conn'[peer'[x]] = "up"
          <5>1. conn[x] = "up" => peer[x] # None /\ conn[peer[x]] = "up"
            BY OtherEnd
          <5> QED BY <4>1, <4>2, <5>1
        <4> QED BY <1>a, <4>1, <4>2, <4>3, <4>4, LinkSame
      <3> QED BY <3>2, <3>3, <3>4
    <2> QED BY <2>7, <2>8
  <1>4. CASE ServerExit
    <2>1. /\ UNCHANGED <<setup, pc, q, peer>> /\ server' = "exit" /\ backlog' = <<>>
          /\ \A x \in End : conn'[x] = conn[x] \/ (conn[x] = "syn" /\ conn'[x] = "no")
      BY <1>a, <1>4, ExitDoes
    <2>2. listenOK'
      BY <1>a, <2>1 DEF listenOK, at
    <2>3. ASSUME NEW x \in End PROVE linkOK(x)'
      <3>1. conn[x] = "up" => peer[x] \in End
        BY OtherEnd
      <3>2. conn'[x] = "up" => conn'[peer[x]] = "up"
        BY <1>b, <2>1, <3>1
      <3>3. \A n \in 1 .. Len(backlog') : \E m \in 1 .. Len(backlog) : backlog'[n] = backlog[m]
        BY <2>1
      <3> QED BY <1>a, <1>b, <2>1, <3>2, <3>3, LinkFrame
    <2> QED BY <2>2, <2>3
  <1>5. ASSUME NEW c \in Client, run_client(c) PROVE listenOK' /\ \A x \in End : linkOK(x)'
    <2>1. /\ UNCHANGED <<setup, server, q, peer>> /\ at(c, "start") /\ c \in End
          /\ \A x \in End : x # c => pc'[x] = pc[x] /\ conn'[x] = conn[x]
          /\ \/ /\ server \in {"listen", "io"} /\ pc'[c] = "dial"
                /\ conn'[c] = "syn" /\ backlog' = Append(backlog, c)
             \/ pc'[c] = data_io(c) /\ UNCHANGED <<conn, backlog>>
      BY <1>a, <1>5, ClientDoes, Zenon
    <2>2. /\ peer[c] = None /\ conn[c] = "no" /\ pc[c] = "start"
          /\ \A n \in 1 .. Len(backlog) : backlog[n] # c
      BY <1>a, <2>1, Zenon DEF linkOK, at
    <2>3. /\ c \notin Worker /\ \A w \in Worker : pc'[w] = pc[w]
          /\ \A x \in End : peer[x] # c
      <3>1. c \notin Worker
        BY Ends
      <3>2. \A w \in Worker : pc'[w] = pc[w]
        BY <1>d, <2>1, <3>1
      <3>3. \A x \in End : peer[x] # c
        BY <2>2, OtherEnd, Ends
      <3> QED BY <3>1, <3>2, <3>3
    <2>4. ASSUME NEW x \in End, x # c PROVE linkOK(x)'
      <3>1. conn'[x] = "up" => conn'[peer'[x]] = "up"
        <4>1. conn[x] = "up" => peer[x] \in End /\ peer[x] # c /\ conn[peer[x]] = "up"
          BY <2>3, OtherEnd
        <4> QED BY <2>1, <2>4, <4>1
      <3>2. \A n \in 1 .. Len(backlog') : backlog'[n] = x =>
              \E m \in 1 .. Len(backlog) : backlog[m] = x
        <4>1. CASE backlog' = backlog
          BY <4>1
        <4>2. CASE backlog' = Append(backlog, c)
          <5>1. /\ Len(backlog') = Len(backlog) + 1 /\ Len(backlog) \in Nat
                /\ backlog'[Len(backlog) + 1] = c
                /\ \A n \in 1 .. Len(backlog) : backlog'[n] = backlog[n]
            BY <1>a, <4>2, AppendProperties DEF pipeTypes
          <5> QED BY <2>4, <5>1
        <4> QED BY <2>1, <4>1, <4>2
      <3>3. peer[x] # None => peer'[peer[x]] = x
        BY <2>1, OtherEnd
      <3> QED BY <1>a, <2>1, <2>4, <3>1, <3>2, <3>3, LinkSame
    <2>5. CASE pc'[c] = data_io(c) /\ UNCHANGED <<conn, backlog>>
      <3>1. listenOK'
        BY <2>1, <2>3, <2>5, ListenFrame
      <3>2. data_io(c) \notin unbound
        BY ModeLabels DEF unbound
      <3>3. linkOK(c)'
        <4>1. /\ peer'[c] = None /\ q'[c] = <<>> /\ conn'[c] = "no" /\ pc'[c] # "start"
          BY <1>b, <2>1, <2>2, <2>5, <3>2 DEF unbound
        <4>2. conn'[c] # "up" /\ conn'[c] # "syn" /\ conn'[c] \in {"no", "syn"}
          BY <4>1
        <4> QED BY <2>3, <4>1, <4>2, Zenon DEF linkOK, at
      <3> QED BY <2>4, <3>1, <3>3
    <2>6. CASE pc'[c] = "dial" /\ conn'[c] = "syn" /\ backlog' = Append(backlog, c)
               /\ server \in {"listen", "io"}
      <3>1. /\ Len(backlog') = Len(backlog) + 1 /\ Len(backlog) \in Nat
            /\ backlog'[Len(backlog) + 1] = c
            /\ \A n \in 1 .. Len(backlog) : backlog'[n] = backlog[n]
        BY <1>a, <2>6, AppendProperties DEF pipeTypes
      <3>2. listenOK'
        <4>1. \A m, n \in 1 .. Len(backlog') : backlog'[m] = backlog'[n] => m = n
          <5>1. \A m, n \in 1 .. Len(backlog) : backlog[m] = backlog[n] => m = n
            BY <1>a DEF listenOK
          <5> QED BY <2>2, <3>1, <5>1
        <4>2. \A n \in 1 .. Len(backlog') : peer'[backlog'[n]] = None
          <5>1. \A n \in 1 .. Len(backlog) : peer[backlog[n]] = None
            BY <1>a DEF listenOK
          <5> QED BY <2>1, <2>2, <3>1, <5>1
        <4>3. setup'.mode = "single_listener" =>
                /\ server' = "listen" => \A w \in Worker : pc'[w] = "unborn"
                /\ \A u, v \in Worker : pc'[u] # "unborn" /\ pc'[v] # "unborn" => u = v
          BY <1>a, <2>1, <2>3 DEF listenOK, at
        <4> QED BY <4>1, <4>2, <4>3, Zenon DEF listenOK, at
      <3>3. linkOK(c)'
        <4>1. peer'[c] = None /\ q'[c] = <<>> /\ conn'[c] = "syn" /\ pc'[c] = "dial"
          BY <1>b, <2>1, <2>2, <2>6
        <4>2. conn'[c] # "up" /\ pc'[c] # "start" /\ conn'[c] \in {"no", "syn"}
          BY <4>1
        <4> QED BY <2>3, <4>1, <4>2, Zenon DEF linkOK, at
      <3> QED BY <2>4, <3>2, <3>3
    <2> QED BY <2>1, <2>5, <2>6
  <1>6. ASSUME NEW c \in Client, Connected(c) \/ ConnectTimeout(c)
        PROVE  listenOK' /\ \A x \in End : linkOK(x)'
    <2>1. /\ UNCHANGED <<setup, server, q, peer, backlog>> /\ at(c, "dial") /\ c \in End
          /\ pc'[c] = data_io(c)
          /\ \A x \in End : x # c => pc'[x] = pc[x] /\ conn'[x] = conn[x]
          /\ \/ conn[c] # "syn" /\ conn' = conn
             \/ conn[c] = "syn" /\ conn'[c] = "no"
      BY <1>a, <1>6, DialDoes, Zenon
    <2>2. c \notin Worker /\ data_io(c) \notin unbound
      BY Ends, ModeLabels DEF unbound
    <2>3. listenOK'
      <3>1. \A w \in Worker : pc'[w] = pc[w]
        BY <1>d, <2>1, <2>2
      <3> QED BY <2>1, <3>1, ListenFrame
    <2>4. conn[c] = "syn" => \A x \in End : peer[x] # c
      <3>1. conn[c] = "syn" => peer[c] = None
        BY <1>a, <2>1, Zenon DEF linkOK
      <3> QED BY <3>1, OtherEnd, Ends
    <2>5. ASSUME NEW x \in End, x # c PROVE linkOK(x)'
      <3>1. conn'[x] = "up" => conn'[peer[x]] = "up"
        <4>1. conn[x] = "up" => peer[x] \in End /\ conn[peer[x]] = "up"
          BY OtherEnd
        <4> QED BY <2>1, <2>4, <2>5, <4>1
      <3> QED BY <1>a, <1>b, <1>c, <2>1, <2>5, <3>1, LinkFrame
    <2>6. linkOK(c)'
      <3>1. linkOK(c)
        BY <1>a, <2>1
      <3>2. pc'[c] # "start" /\ conn'[c] # "syn"
        BY <2>1, <2>2 DEF unbound
      <3>3. peer'[c] # None => /\ peer'[peer'[c]] = c
                               /\ c \in Client => peer'[c] \in Worker
                               /\ c \in Worker => peer'[c] \in Client
        BY <2>1, <3>1, Zenon DEF linkOK
      <3>4. peer'[c] = None => q'[c] = <<>> /\ conn'[c] \in {"no", "syn"}
        <4>1. peer[c] = None => q[c] = <<>> /\ conn[c] \in {"no", "syn"}
          BY <3>1, Zenon DEF linkOK
        <4> QED BY <2>1, <4>1
      <3>5. conn'[c] = "up" => conn'[peer'[c]] = "up"
        BY <1>b, <2>1
      <3> QED BY <2>2, <3>2, <3>3, <3>4, <3>5, Zenon DEF linkOK, at
    <2> QED BY <2>3, <2>5, <2>6
  <1>7. ASSUME NEW e \in End, Work(e) PROVE listenOK' /\ \A x \in End : linkOK(x)'
    <2>1. /\ UNCHANGED <<setup, peer, backlog, server>>
          /\ pc[e] \notin unbound /\ pc'[e] \notin unbound
          /\ \A x \in End : x # e => pc'[x] = pc[x]
          /\ \A x \in End : peer[x] = None => q'[x] = <<>>
          /\ Leave(e) \/ conn' = conn
      BY <1>7, WorkKeeps
    <2>2. listenOK'
      <3>1. \A w \in Worker : pc'[w] = "unborn" <=> pc[w] = "unborn"
        BY <1>d, <2>1 DEF unbound
      <3> QED BY <2>1, <3>1, ListenFrame
    <2>3. \A x \in End : pc'[x] = pc[x] \/ (pc[x] \notin unbound /\ pc'[x] \notin unbound)
      BY <2>1
    <2>4. ASSUME NEW x \in End PROVE linkOK(x)'
      <3>1. CASE conn' = conn
        BY <1>a, <1>b, <1>c, <2>1, <2>3, <3>1, LinkFrame
      <3>2. CASE Leave(e)
        <4>1. /\ \A y \in End : y \notin {e, peer[e]} => conn'[y] = conn[y]
              /\ peer[e] = None => conn' = conn
              /\ peer[e] # None =>
                   /\ conn'[e] = "no" /\ peer[e] # e /\ peer[e] \in End
                   /\ conn'[peer[e]] = IF conn[peer[e]] = "up" THEN "down" ELSE conn[peer[e]]
          BY <3>2, LeaveDoes
        <4>2. conn'[x] = conn[x] \/ (conn[x] = "up" /\ conn'[x] = "down") \/ conn'[x] = "no"
          BY <4>1
        <4>3. conn'[x] = "up" => conn'[peer[x]] = "up"
          <5>1. /\ conn[x] = "up" => peer[x] \in End /\ peer[peer[x]] = x
                /\ peer[e] # None => peer[peer[e]] = e
            BY OtherEnd
          <5> QED BY <1>b, <4>1, <5>1
        <4> QED BY <1>a, <1>b, <1>c, <2>1, <2>3, <4>2, <4>3, LinkFrame
      <3> QED BY <2>1, <3>1, <3>2
    <2> QED BY <2>2, <2>4
  <1> QED BY <1>1, <1>2, <1>3, <1>4, <1>5, <1>6, <1>7, Zenon DEF Next, Open, Serve

-----------------------------------------------------------------------------
(***************************************************************************)
(* The rounds of the copying loop.                                         *)
(***************************************************************************)

\* What a round holds stays true while the end's own state stays.
LEMMA RoundFrame ==
  ASSUME NEW x \in End, setup' = setup, roundOK(x), pc'[x] = pc[x], rev'[x] = rev[x],
         held'[x] = held[x], pair'[x] = pair[x], data_in_len'[x] = data_in_len[x],
         Len(q'[x]) <= Window,
         "hup1" \in rev[x] => conn'[x] = "down",
         "in1" \in rev[x] /\ conn'[x] = "up" => q'[x] # <<>>,
         coming[stdin(x)] = <<>> => coming'[stdin(x)] = <<>>,
         "hup0" \in rev[x] /\ fed[stdin(x)] = <<>> => fed'[stdin(x)] = <<>>,
         alone(x) /\ pc[x] = "stdin" /\ fed[stdin(x)] # <<>> => fed'[stdin(x)] # <<>>
  PROVE  roundOK(x)'
  <1>1. alone(x)' = alone(x) /\ kind(x)' = kind(x)
    BY SetupFrame
  <1>2. /\ Len(pair'[x]) <= buf_size /\ Len(held'[x]) <= buf_size
        /\ pair'[x] # <<>> => setup'.tee
        /\ pc'[x] \notin {"stdin", "write", "socket"} => rev'[x] = {}
        /\ pc'[x] \in {"stdin", "write"} => "in0" \in rev'[x]
    BY DEF roundOK
  <1>3. pc'[x] = "stdin" \/ pc'[x] = "write" \/ (pc'[x] = "socket" /\ "in0" \notin rev'[x]) => pair'[x] = <<>>
    BY DEF roundOK, at
  <1>4. "hup0" \in rev'[x] =>
          /\ kind(x)' = "pipe" /\ coming'[stdin(x)] = <<>>
          /\ "in0" \notin rev'[x] => fed'[stdin(x)] = <<>>
    BY <1>1 DEF roundOK
  <1>5. alone(x)' /\ kind(x)' # "file" =>
          /\ pc'[x] = "stdin" => fed'[stdin(x)] # <<>>
          /\ pc'[x] = "write" => held'[x] # <<>> /\ data_in_len'[x] > 0
          /\ pc'[x] = "socket" /\ "in0" \in rev'[x] => data_in_len'[x] > 0
    BY <1>1, Zenon DEF roundOK, at
  <1> QED BY <1>2, <1>3, <1>4, <1>5, Zenon DEF roundOK, at, stdin

\* An end outside a round has no events to answer for.
LEMMA RoundIdle ==
  ASSUME NEW x \in End, pc'[x] \notin {"stdin", "write", "socket"}, rev'[x] = {},
         Len(q'[x]) <= Window, Len(pair'[x]) <= buf_size, Len(held'[x]) <= buf_size,
         pair'[x] # <<>> => setup'.tee
  PROVE  roundOK(x)'
  BY DEF roundOK, at

\* The sizes, and the events of an end that is not in a round.
LEMMA RoundFacts ==
  ASSUME PipeInv, connected, NEW x \in End
  PROVE  /\ Len(q[x]) \in Nat /\ Len(q[x]) <= Window /\ Window \in Nat
         /\ Len(pair[x]) <= buf_size /\ Len(held[x]) <= buf_size
         /\ pair[x] # <<>> => setup.tee
         /\ pc[x] \notin {"stdin", "write", "socket"} => rev[x] = {}
         /\ "hup1" \in rev[x] => conn[x] = "down"
         /\ "in1" \in rev[x] /\ conn[x] = "up" => q[x] # <<>>
  BY PipeAssumption DEF PipeInv, pipeTypes, roundOK

\* A write keeps within the window and empties no queue.
LEMMA WroteBound ==
  ASSUME PipeInv, connected, NEW e \in End, NEW d \in Seq(Nat), wrote(e, d), NEW x \in End
  PROVE  Len(q'[x]) <= Window /\ (q[x] # <<>> => q'[x] # <<>>)
  <1>1. Len(q[x]) <= Window /\ q[x] \in Seq(Packet) /\ Window \in Nat
    BY RoundFacts DEF PipeInv, pipeTypes
  <1>2. q'[x] = q[x] \/ (q'[x] = Append(q[x], packet(e, d)) /\ Len(q[x]) < Window)
    BY DEF wrote
  <1>3. packet(e, d) \in Packet
    BY DEF packet, Packet
  <1>4. CASE q'[x] = q[x]
    BY <1>1, <1>4
  <1>5. CASE q'[x] = Append(q[x], packet(e, d)) /\ Len(q[x]) < Window
    <2>1. Len(q'[x]) = Len(q[x]) + 1 /\ Len(q[x]) \in Nat /\ q'[x] # <<>>
      BY <1>1, <1>3, <1>5, AppendProperties
    <2> QED BY <1>1, <1>5, <2>1
  <1> QED BY <1>2, <1>4, <1>5

\* A receive keeps within the window and touches no other queue.
LEMMA TookBound ==
  ASSUME PipeInv, connected, NEW e \in End, took(e), NEW x \in End
  PROVE  Len(q'[x]) <= Window /\ (x # e => q'[x] = q[x])
  <1>1. Len(q[x]) <= Window /\ Len(q[x]) \in Nat /\ q[x] \in Seq(Packet) /\ Window \in Nat
    BY RoundFacts DEF PipeInv, pipeTypes
  <1>2. CASE x = e
    <2>1. unread(e) \in Seq(Packet) /\ Len(unread(e)) <= Len(q[e])
      BY <1>1, <1>2, Receive
    <2>2. Len(unread(e)) \in Nat
      BY <2>1
    <2> QED BY <1>1, <1>2, <2>1, <2>2 DEF took
  <1>3. CASE x # e
    BY <1>1, <1>3 DEF took
  <1> QED BY <1>2, <1>3

\* An end that has its input for itself shares it with no other end that reads.
LEMMA OwnInput ==
  ASSUME PipeInv, connected, NEW x \in End, NEW e \in End, x # e, stdin(x) = stdin(e), alone(x)
  PROVE  /\ x \in Worker /\ e \in Worker /\ setup.mode = "single_listener"
         /\ pc[e] # "unborn" => pc[x] = "unborn"
  <1>1. x \in Worker /\ e \in Worker /\ x \notin Client
    BY Ends
  <1>2. setup.mode = "single_listener"
    BY <1>1 DEF alone
  <1>3. listenOK
    BY DEF PipeInv
  <1>4. ~(pc[x] # "unborn" /\ pc[e] # "unborn")
    BY <1>1, <1>2, <1>3 DEF listenOK, at
  <1> QED BY <1>1, <1>2, <1>4

\* Every step keeps what poll has reported true until it is used.
LEMMA StepRound ==
  ASSUME PipeInv, Next, connected, NEW x \in End
  PROVE  roundOK(x)'
  <1> USE DEF io, net, nums
  <1>a. pipeTypes /\ roundOK(x) /\ setup' = setup
    BY StepTypes DEF PipeInv
  <1>b. /\ Len(q[x]) \in Nat /\ Len(q[x]) <= Window /\ Window \in Nat
        /\ Len(pair[x]) <= buf_size /\ Len(held[x]) <= buf_size
        /\ pair[x] # <<>> => setup.tee
        /\ pc[x] \notin {"stdin", "write", "socket"} => rev[x] = {}
        /\ "hup1" \in rev[x] => conn[x] = "down"
        /\ "in1" \in rev[x] /\ conn[x] = "up" => q[x] # <<>>
    BY RoundFacts
  <1>c. \A e : data_io(e) \in {"generate", "check", "poll"}
    BY ModeLabels
  <1>1. ASSUME NEW s \in Source, Feed(s) PROVE roundOK(x)'
    <2>1. /\ UNCHANGED <<setup, pc, io, net, nums, server>>
          /\ coming[s] # <<>> /\ fed'[s] # <<>>
          /\ \A y \in Source : y # s => fed'[y] = fed[y] /\ coming'[y] = coming[y]
      BY <1>a, <1>1, FeedDoes
    <2>2. coming[stdin(x)] = <<>> => fed'[stdin(x)] = fed[stdin(x)] /\ coming'[stdin(x)] = <<>>
      BY <2>1, Ends
    <2>3. fed[stdin(x)] # <<>> => fed'[stdin(x)] # <<>>
      BY <2>1, Ends
    <2>4. "hup0" \in rev[x] => coming[stdin(x)] = <<>>
      BY <1>a DEF roundOK
    <2> QED BY <1>a, <1>b, <2>1, <2>2, <2>3, <2>4, RoundFrame
  <1>2. CASE run_server
    <2>1. UNCHANGED <<setup, fed, coming, io, q, conn, pc>>
      BY <1>a, <1>2, ServerDoes
    <2> QED BY <1>a, <1>b, <2>1, RoundFrame
  <1>3. CASE listen_accept_and_io
    <2>1. UNCHANGED <<setup, fed, coming, io, nums, q>>
      BY <1>3, ServeDoes
    <2>2. PICK w \in Worker, c \in Client :
              /\ at(w, "unborn") /\ w # c /\ w \in End /\ c \in End
              /\ pc'[w] = data_io(w) /\ \A y \in End : y # w => pc'[y] = pc[y]
              /\ \A y \in End : y \notin {c, w} => conn'[y] = conn[y]
              /\ conn[c] # "syn" => conn'[c] = conn[c]
      BY <1>3, ServeDoes, Zenon
    <2>3. CASE x = w
      <3>1. rev'[x] = {} /\ pc'[x] \notin {"stdin", "write", "socket"}
        BY <1>b, <1>c, <2>1, <2>2, <2>3 DEF at
      <3> QED BY <1>b, <2>1, <3>1, RoundIdle
    <2>4. CASE x # w
      <3>1. conn'[x] = conn[x] \/ rev[x] = {}
        <4>1. conn[x] = "syn" => pc[x] = "dial"
          BY DEF PipeInv, linkOK, at
        <4> QED BY <1>b, <2>2, <2>4, <4>1
      <3> QED BY <1>a, <1>b, <2>1, <2>2, <2>4, <3>1, RoundFrame
    <2> QED BY <2>3, <2>4
  <1>4. CASE ServerExit
    <2>1. /\ UNCHANGED <<setup, fed, coming, pc, io, nums, q, peer>>
          /\ conn'[x] = conn[x] \/ (conn[x] = "syn" /\ conn'[x] = "no")
      BY <1>a, <1>4, ExitDoes
    <2> QED BY <1>a, <1>b, <2>1, RoundFrame
  <1>5. ASSUME NEW c \in Client, run_client(c) PROVE roundOK(x)'
    <2>1. /\ UNCHANGED <<setup, fed, coming, io, nums, server, q, peer>> /\ at(c, "start")
          /\ \A y \in End : y # c => pc'[y] = pc[y] /\ conn'[y] = conn[y]
          /\ pc'[c] = "dial" \/ pc'[c] = data_io(c)
      BY <1>a, <1>5, ClientDoes, Zenon
    <2>2. CASE x # c
      BY <1>a, <1>b, <2>1, <2>2, RoundFrame
    <2>3. CASE x = c
      <3>1. rev'[x] = {} /\ pc'[x] \notin {"stdin", "write", "socket"}
        BY <1>b, <1>c, <2>1, <2>3 DEF at
      <3> QED BY <1>b, <2>1, <3>1, RoundIdle
    <2> QED BY <2>2, <2>3
  <1>6. ASSUME NEW c \in Client, Connected(c) \/ ConnectTimeout(c) PROVE roundOK(x)'
    <2>1. /\ UNCHANGED <<setup, fed, coming, io, nums, server, q, peer, backlog>> /\ at(c, "dial")
          /\ \A y \in End : y # c => pc'[y] = pc[y] /\ conn'[y] = conn[y]
          /\ pc'[c] = data_io(c)
      BY <1>a, <1>6, DialDoes, Zenon
    <2>2. CASE x # c
      BY <1>a, <1>b, <2>1, <2>2, RoundFrame
    <2>3. CASE x = c
      <3>1. rev'[x] = {} /\ pc'[x] \notin {"stdin", "write", "socket"}
        BY <1>b, <1>c, <2>1, <2>3 DEF at
      <3> QED BY <1>b, <2>1, <3>1, RoundIdle
    <2> QED BY <2>2, <2>3
  <1>7. ASSUME NEW e \in End, generate_data(e) PROVE roundOK(x)'
    <2>1. /\ UNCHANGED <<setup, fed, coming, io, conn, peer, backlog, i, lost, got, server>>
          /\ at(e, "generate") /\ e \in Client
          /\ \/ wrote(e, <<seqno[e]>>) /\ pc' = pc
             \/ pc'[e] = "leave" /\ (\A y \in End : y # e => pc'[y] = pc[y]) /\ UNCHANGED q
      BY <1>7, GenerateDoes, Zenon
    <2>2. CASE wrote(e, <<seqno[e]>>) /\ pc' = pc
      <3>1. <<seqno[e]>> \in Seq(Nat)
        BY <1>a, <2>1 DEF pipeTypes
      <3>2. Len(q'[x]) <= Window /\ (q[x] # <<>> => q'[x] # <<>>)
        BY <2>2, <3>1, WroteBound
      <3> QED BY <1>a, <1>b, <2>1, <2>2, <3>2, RoundFrame
    <2>3. CASE pc'[e] = "leave" /\ (\A y \in End : y # e => pc'[y] = pc[y]) /\ UNCHANGED q
      <3>1. CASE x # e
        BY <1>a, <1>b, <2>1, <2>3, <3>1, RoundFrame
      <3>2. CASE x = e
        <4>1. rev'[x] = {} /\ pc'[x] \notin {"stdin", "write", "socket"}
          BY <1>b, <2>1, <2>3, <3>2 DEF at
        <4> QED BY <1>b, <2>1, <2>3, <4>1, RoundIdle
      <3> QED BY <3>1, <3>2
    <2> QED BY <2>1, <2>2, <2>3
  <1>8. ASSUME NEW e \in End, check_generated_data(e) PROVE roundOK(x)'
    <2>1. /\ UNCHANGED <<setup, fed, coming, rev, held, data_in_len, pair, copy, conn, peer,
                         backlog, seqno, server>>
          /\ at(e, "check") /\ (pc'[e] = "leave" \/ pc'[e] = pc[e])
          /\ \A y \in End : y # e => pc'[y] = pc[y]
          /\ took(e) \/ q' = q
      BY <1>8, CheckDoes, Zenon
    <2>2. Len(q'[x]) <= Window /\ (x # e => q'[x] = q[x])
      BY <1>b, <2>1, TookBound
    <2>3. CASE x # e
      BY <1>a, <1>b, <2>1, <2>2, <2>3, RoundFrame
    <2>4. CASE x = e
      <3>1. rev'[x] = {} /\ pc'[x] \notin {"stdin", "write", "socket"}
        BY <1>b, <2>1, <2>4 DEF at
      <3> QED BY <1>b, <2>1, <2>2, <3>1, RoundIdle
    <2> QED BY <2>3, <2>4
  <1>9. ASSUME NEW e \in End, Poll(e) PROVE roundOK(x)'
    <2>1. /\ UNCHANGED <<setup, fed, coming, held, out, net, nums, server>> /\ at(e, "poll")
          /\ pc'[e] = IF "in0" \in rev'[e] THEN "stdin" ELSE "socket"
          /\ rev'[e] = revents(e) /\ pair'[e] = <<>>
          /\ \A y \in End : y # e => /\ pc'[y] = pc[y] /\ rev'[y] = rev[y] /\ pair'[y] = pair[y]
                                     /\ data_in_len'[y] = data_in_len[y]
      BY <1>9, PollDoes
    <2>2. CASE x # e
      BY <1>a, <1>b, <2>1, <2>2, RoundFrame
    <2>3. CASE x = e
      <3>1. /\ "in0" \in rev'[x] <=> (fed[stdin(x)] # <<>> \/ kind(x) = "file")
            /\ "hup0" \in rev'[x] <=> hangup(x)
            /\ "in1" \in rev'[x] <=> readable(x)
            /\ "hup1" \in rev'[x] <=> conn[x] = "down"
        BY <2>1, <2>3, Revents
      <3>2. kind(x)' = kind(x) /\ stdin(x)' = stdin(x)
        BY <2>1, SetupFrame DEF stdin
      <3>3. pc'[x] \in {"stdin", "socket"} /\ (pc'[x] = "stdin" <=> "in0" \in rev'[x])
        BY <2>1, <2>3
      <3>4. /\ "hup1" \in rev'[x] => conn'[x] = "down"
            /\ "in1" \in rev'[x] /\ conn'[x] = "up" => q'[x] # <<>>
        BY <2>1, <3>1 DEF readable
      <3>5. "hup0" \in rev'[x] =>
              /\ kind(x)' = "pipe" /\ coming'[stdin(x)] = <<>>
              /\ "in0" \notin rev'[x] => fed'[stdin(x)] = <<>>
        BY <2>1, <3>1, <3>2 DEF hangup
      <3>6. kind(x)' # "file" =>
              /\ pc'[x] = "stdin" => fed'[stdin(x)] # <<>>
              /\ ~(pc'[x] = "socket" /\ "in0" \in rev'[x]) /\ pc'[x] # "write"
        BY <2>1, <3>1, <3>2, <3>3
      <3>7. /\ Len(q'[x]) <= Window /\ Len(pair'[x]) <= buf_size /\ Len(held'[x]) <= buf_size
            /\ pair'[x] = <<>>
        BY <1>b, <2>1, <2>3, PipeAssumption
      <3>8. /\ pc'[x] \notin {"stdin", "write", "socket"} => rev'[x] = {}
            /\ pc'[x] \in {"stdin", "write"} => "in0" \in rev'[x]
        BY <3>3
      <3> QED BY <3>2, <3>4, <3>5, <3>6, <3>7, <3>8, Zenon DEF roundOK, at
    <2> QED BY <2>2, <2>3
  <1>10. ASSUME NEW e \in End, ReadStdin(e) PROVE roundOK(x)'
    <2> DEFINE s == stdin(e)
    <2>1. /\ UNCHANGED <<setup, coming, rev, pair, out, copy, net, nums, server>>
          /\ at(e, "stdin") /\ pc'[e] = "write"
          /\ Len(held'[e]) <= buf_size
          /\ fed[s] # <<>> => held'[e] # <<>> /\ data_in_len'[e] > 0
          /\ fed[s] = <<>> => fed'[s] = <<>>
          /\ \A y \in End : y # e => /\ pc'[y] = pc[y] /\ held'[y] = held[y]
                                     /\ data_in_len'[y] = data_in_len[y]
          /\ \A y \in Source : y # s => fed'[y] = fed[y]
      BY <1>10, StdinDoes, Zenon
    <2>2. CASE x # e
      <3>1. fed[stdin(x)] = <<>> => fed'[stdin(x)] = <<>>
        BY <2>1, Ends
      <3>2. alone(x) /\ pc[x] = "stdin" => fed'[stdin(x)] = fed[stdin(x)]
        BY <2>1, <2>2, OwnInput, Ends DEF at
      <3> QED BY <1>a, <1>b, <2>1, <2>2, <3>1, <3>2, RoundFrame
    <2>3. CASE x = e
      <3>1. kind(x)' = kind(x) /\ alone(x)' = alone(x) /\ stdin(x)' = stdin(x)
        BY <2>1, SetupFrame DEF stdin
      <3>2. /\ "in0" \in rev[x] /\ pair[x] = <<>>
            /\ "hup0" \in rev[x] => kind(x) = "pipe" /\ coming[stdin(x)] = <<>>
            /\ alone(x) /\ kind(x) # "file" => fed[stdin(x)] # <<>>
        BY <1>a, <2>1, <2>3 DEF roundOK, at
      <3>3. /\ Len(q'[x]) <= Window /\ Len(pair'[x]) <= buf_size /\ Len(held'[x]) <= buf_size
            /\ pair'[x] = <<>> /\ "in0" \in rev'[x] /\ pc'[x] = "write"
            /\ pc'[x] \notin {"stdin", "write", "socket"} => rev'[x] = {}
            /\ ~(pc'[x] = "socket") /\ ~(pc'[x] = "stdin")
        BY <1>b, <2>1, <2>3, <3>2, PipeAssumption
      <3>4. /\ "hup1" \in rev'[x] => conn'[x] = "down"
            /\ "in1" \in rev'[x] /\ conn'[x] = "up" => q'[x] # <<>>
            /\ "hup0" \in rev'[x] => kind(x)' = "pipe" /\ coming'[stdin(x)] = <<>>
        BY <1>b, <2>1, <3>1, <3>2
      <3>5. alone(x)' /\ kind(x)' # "file" => held'[x] # <<>> /\ data_in_len'[x] > 0
        BY <2>1, <2>3, <3>1, <3>2
      <3> QED BY <3>1, <3>3, <3>4, <3>5, Zenon DEF roundOK, at
    <2> QED BY <2>2, <2>3
  <1>11. ASSUME NEW e \in End, Write(e) PROVE roundOK(x)'
    <2>1. /\ UNCHANGED <<setup, fed, coming, rev, data_in_len, out, conn, peer, backlog, nums, server>>
          /\ at(e, "write") /\ wrote(e, held[e]) /\ pc'[e] = "socket" /\ held'[e] = <<>>
          /\ \A y \in End : y # e => /\ pc'[y] = pc[y] /\ held'[y] = held[y] /\ pair'[y] = pair[y]
          /\ setup.tee => pair'[e] = pair[e] \o held[e]
          /\ ~setup.tee => pair'[e] = pair[e]
      BY <1>11, WriteDoes, Zenon
    <2>2. Len(q'[x]) <= Window /\ (q[x] # <<>> => q'[x] # <<>>)
      <3>1. held[e] \in Seq(Nat)
        BY <1>a DEF pipeTypes
      <3> QED BY <2>1, <3>1, WroteBound
    <2>3. CASE x # e
      BY <1>a, <1>b, <2>1, <2>2, <2>3, RoundFrame
    <2>4. CASE x = e
      <3>1. kind(x)' = kind(x) /\ alone(x)' = alone(x) /\ stdin(x)' = stdin(x)
        BY <2>1, SetupFrame DEF stdin
      <3>2. /\ "in0" \in rev[x] /\ pair[x] = <<>>
            /\ "hup0" \in rev[x] => kind(x) = "pipe" /\ coming[stdin(x)] = <<>>
            /\ alone(x) /\ kind(x) # "file" => data_in_len[x] > 0
        BY <1>a, <2>1, <2>4 DEF roundOK, at
      <3>3. held[x] \in Seq(Nat) /\ <<>> \o held[x] = held[x]
        BY <1>a DEF pipeTypes
      <3>4. Len(pair'[x]) <= buf_size
        <4>1. CASE setup.tee
          BY <1>b, <2>1, <2>4, <3>2, <3>3, <4>1
        <4>2. CASE ~setup.tee
          BY <1>b, <2>1, <2>4, <4>2
        <4> QED BY <4>1, <4>2
      <3>5. pair'[x] # <<>> => setup'.tee
        BY <2>1, <2>4, <3>2, Zenon
      <3>6. /\ Len(q'[x]) <= Window /\ Len(held'[x]) <= buf_size
            /\ "in0" \in rev'[x] /\ pc'[x] = "socket"
            /\ pc'[x] \notin {"stdin", "write", "socket"} => rev'[x] = {}
            /\ ~(pc'[x] = "write") /\ ~(pc'[x] = "stdin") /\ pc'[x] \notin {"stdin", "write"}
        BY <1>b, <2>1, <2>2, <2>4, <3>2, PipeAssumption
      <3>7. /\ "hup1" \in rev'[x] => conn'[x] = "down"
            /\ "in1" \in rev'[x] /\ conn'[x] = "up" => q'[x] # <<>>
            /\ "hup0" \in rev'[x] => kind(x)' = "pipe" /\ coming'[stdin(x)] = <<>>
        BY <1>b, <2>1, <2>2, <3>1, <3>2
      <3>8. alone(x)' /\ kind(x)' # "file" => data_in_len'[x] > 0
        BY <2>1, <3>1, <3>2
      <3> QED BY <3>1, <3>4, <3>5, <3>6, <3>7, <3>8, Zenon DEF roundOK, at
    <2> QED BY <2>3, <2>4
  <1>12. ASSUME NEW e \in End, ReadSocket(e) PROVE roundOK(x)'
    <2>1. /\ UNCHANGED <<setup, fed, coming, held, pair, copy, conn, backlog, nums, server>>
          /\ at(e, "socket") /\ pc'[e] \in {"poll", "leave"} /\ rev'[e] = {}
          /\ \A y \in End : y # e => /\ pc'[y] = pc[y] /\ rev'[y] = rev[y]
                                     /\ data_in_len'[y] = data_in_len[y]
          /\ took(e) \/ q' = q
      BY <1>12, SocketDoes
    <2>2. Len(q'[x]) <= Window /\ (x # e => q'[x] = q[x])
      BY <1>b, <2>1, TookBound
    <2>3. CASE x # e
      BY <1>a, <1>b, <2>1, <2>2, <2>3, RoundFrame
    <2>4. CASE x = e
      BY <1>b, <2>1, <2>2, <2>4, RoundIdle
    <2> QED BY <2>3, <2>4
  <1>13. ASSUME NEW e \in End, Leave(e) PROVE roundOK(x)'
    <2>1. /\ UNCHANGED <<setup, fed, coming, rev, held, data_in_len, out, copy, peer, backlog,
                         nums, server>>
          /\ at(e, "leave") /\ pc'[e] = "exit" /\ q'[e] = <<>> /\ pair'[e] = <<>>
          /\ \A y \in End : y # e => pc'[y] = pc[y] /\ q'[y] = q[y] /\ pair'[y] = pair[y]
          /\ \A y \in End : y \notin {e, peer[e]} => conn'[y] = conn[y]
          /\ peer[e] = None => conn' = conn
          /\ peer[e] # None => /\ peer[e] \in End
               /\ conn'[peer[e]] = IF conn[peer[e]] = "up" THEN "down" ELSE conn[peer[e]]
      BY <1>13, LeaveDoes
    <2>2. CASE x # e
      <3>1. conn'[x] = conn[x] \/ (conn[x] = "up" /\ conn'[x] = "down")
        BY <2>1, <2>2
      <3> QED BY <1>a, <1>b, <2>1, <2>2, <3>1, RoundFrame
    <2>3. CASE x = e
      <3>1. rev'[x] = {} /\ pc'[x] \notin {"stdin", "write", "socket"}
        BY <1>b, <2>1, <2>3 DEF at
      <3>2. Len(<<>>) = 0 /\ 0 <= Window /\ 0 <= buf_size
        BY PipeAssumption
      <3> QED BY <1>b, <2>1, <2>3, <3>1, <3>2, RoundIdle
    <2> QED BY <2>2, <2>3
  <1> QED BY <1>1, <1>2, <1>3, <1>4, <1>5, <1>6, <1>7, <1>8, <1>9, <1>10, <1>11, <1>12, <1>13,
             Zenon DEF Next, Open, Work, Serve


-----------------------------------------------------------------------------
(***************************************************************************)
(* What is read, under way and printed.                                    *)
(***************************************************************************)

\* What arrives on an input stays in order.
LEMMA FeedInput ==
  ASSUME pipeTypes, NEW t \in Source, Feed(t), NEW s \in Source
  PROVE  fed'[s] \o coming'[s] = fed[s] \o coming[s]
  <1>1. /\ fed'[t] \o coming'[t] = fed[t] \o coming[t]
        /\ \A x \in Source : x # t => fed'[x] = fed[x] /\ coming'[x] = coming[x]
    BY FeedDoes
  <1>2. CASE s = t
    BY <1>1, <1>2
  <1>3. CASE s # t
    BY <1>1, <1>3
  <1> QED BY <1>2, <1>3

\* Only a read takes from an input.
LEMMA InputKept ==
  ASSUME PipeInv, Next, NEW s \in Source
  PROVE  \/ fed'[s] \o coming'[s] = fed[s] \o coming[s]
         \/ \E e \in End : stdin(e) = s /\ ReadStdin(e)
  <1>a. pipeTypes
    BY DEF PipeInv
  <1>1. ASSUME NEW t \in Source, Feed(t) PROVE fed'[s] \o coming'[s] = fed[s] \o coming[s]
    BY <1>a, <1>1, FeedInput
  <1>2. CASE Serve \/ \E c \in Client : Open(c) \/ ConnectTimeout(c)
    <2>1. UNCHANGED <<fed, coming>>
      BY <1>2, Zenon DEF Serve, Open, run_server, listen_accept_and_io, ServerExit, run_client,
                         Connected, ConnectTimeout
    <2> QED BY <2>1
  <1>3. ASSUME NEW e \in End, Work(e), ~ReadStdin(e) PROVE UNCHANGED <<fed, coming>>
    BY <1>3, Zenon DEF Work, generate_data, check_generated_data, Poll, Write, ReadSocket, Leave
  <1>4. ASSUME NEW e \in End, ReadStdin(e)
        PROVE  \/ fed'[s] \o coming'[s] = fed[s] \o coming[s]
               \/ \E x \in End : stdin(x) = s /\ ReadStdin(x)
    <2>1. CASE stdin(e) = s
      BY <1>4, <2>1
    <2>2. CASE stdin(e) # s
      <3>1. coming' = coming /\ fed'[s] = fed[s]
        BY <1>4, <2>2, StdinDoes
      <3> QED BY <3>1
    <2> QED BY <2>1, <2>2
  <1>5. \/ \E t \in Source : Feed(t)
        \/ Serve \/ \E c \in Client : Open(c) \/ ConnectTimeout(c)
        \/ \E e \in End : Work(e)
    BY DEF Next
  <1>6. ASSUME NEW e \in End, Work(e)
        PROVE  \/ fed'[s] \o coming'[s] = fed[s] \o coming[s]
               \/ \E x \in End : stdin(x) = s /\ ReadStdin(x)
    <2>1. CASE ReadStdin(e)
      BY <1>4, <2>1
    <2>2. CASE ~ReadStdin(e)
      <3>1. fed' = fed /\ coming' = coming
        BY <1>3, <1>6, <2>2
      <3> QED BY <3>1
    <2> QED BY <2>1, <2>2
  <1> QED BY <1>1, <1>2, <1>5, <1>6

\* A worker is forked once.
LEMMA StaysBorn ==
  ASSUME PipeInv, Next, connected, NEW v \in Worker, pc'[v] = "unborn"
  PROVE  pc[v] = "unborn"
  <1> USE DEF io, net, nums
  <1>a. pipeTypes /\ v \in End /\ v \notin Client
    BY Ends DEF PipeInv
  <1>1. ASSUME NEW s \in Source, Feed(s) PROVE pc[v] = "unborn"
    BY <1>1 DEF Feed
  <1>2. CASE run_server
    BY <1>a, <1>2, ServerDoes
  <1>3. CASE listen_accept_and_io
    <2>1. PICK w \in Worker : /\ at(w, "unborn") /\ pc'[w] = data_io(w)
                              /\ \A y \in End : y # w => pc'[y] = pc[y]
      BY <1>3, ServeDoes, Zenon
    <2> QED BY <1>a, <2>1 DEF at
  <1>4. CASE ServerExit
    BY <1>4 DEF ServerExit
  <1>5. ASSUME NEW c \in Client, run_client(c) PROVE pc[v] = "unborn"
    <2>1. \A x \in End : x # c => pc'[x] = pc[x]
      BY <1>a, <1>5, ClientDoes
    <2> QED BY <1>a, <2>1
  <1>6. ASSUME NEW c \in Client, Connected(c) \/ ConnectTimeout(c) PROVE pc[v] = "unborn"
    <2>1. \A x \in End : x # c => pc'[x] = pc[x]
      BY <1>a, <1>6, DialDoes
    <2> QED BY <1>a, <2>1
  <1>7. ASSUME NEW e \in End, Work(e) PROVE pc[v] = "unborn"
    <2>1. pc'[e] \notin unbound /\ \A x \in End : x # e => pc'[x] = pc[x]
      BY <1>7, WorkKeeps
    <2> QED BY <1>a, <2>1 DEF unbound
  <1> QED BY <1>1, <1>2, <1>3, <1>4, <1>5, <1>6, <1>7, Zenon DEF Next, Open, Serve

\* Before a server that serves one connection serves it, nobody reads its input.
LEMMA StepUnread ==
  ASSUME PipeInv, Next, connected
  PROVE  unreadOK'
  <1>1. unreadOK /\ setup' = setup
    BY StepTypes DEF PipeInv
  <1>2. SUFFICES ASSUME setup.mode = "single_listener", \A w \in Worker : pc'[w] = "unborn"
                 PROVE  fed'["srv"] \o coming'["srv"] = setup.input["srv"]
    BY <1>1 DEF unreadOK, inputOf, at
  <1>3. \A w \in Worker : pc[w] = "unborn"
    BY <1>2, StaysBorn
  <1>4. fed["srv"] \o coming["srv"] = setup.input["srv"]
    BY <1>1, <1>2, <1>3 DEF unreadOK, inputOf, at
  <1>5. ~ \E e \in End : stdin(e) = "srv" /\ ReadStdin(e)
    <2>1. SUFFICES ASSUME NEW e \in End, stdin(e) = "srv", ReadStdin(e) PROVE FALSE
      OBVIOUS
    <2>2. e \in Worker /\ pc[e] = "stdin"
      BY <2>1, Ends DEF ReadStdin, at
    <2> QED BY <1>3, <2>2
  <1>6. "srv" \in Source
    BY DEF Source
  <1> QED BY <1>4, <1>5, <1>6, InputKept

\* What x has sent to p, from what p has printed to what has not arrived at x.
flow(p, x) ==
  (((out[p] \o payload(q[p])) \o held[x]) \o fed[stdin(x)]) \o coming[stdin(x)]

\* The parts of the flow from one end to the other are bytes.
LEMMA FlowTypes ==
  ASSUME pipeTypes, NEW p \in End, NEW x \in End
  PROVE  /\ out[p] \in Bytes /\ q[p] \in Seq(Packet) /\ payload(q[p]) \in Bytes /\ held[x] \in Bytes
         /\ fed[stdin(x)] \in Bytes /\ coming[stdin(x)] \in Bytes
         /\ copy[x] \in Bytes /\ pair[x] \in Bytes
  <1>1. stdin(x) \in Source
    BY Ends
  <1>2. q[p] \in Seq(Packet)
    BY DEF pipeTypes
  <1>3. [from |-> p, data |-> <<>>] \in Packet
    BY DEF Packet
  <1>4. payload(q[p]) \in Bytes
    BY <1>2, <1>3, Payload
  <1> QED BY <1>1, <1>2, <1>4 DEF pipeTypes, Bytes

\* The flow between two ends stays while its parts stay.
LEMMA FlowFrame ==
  ASSUME pipeTypes, pipeTypes', NEW p \in End, NEW x \in End,
         out'[p] = out[p], q'[p] = q[p], held'[x] = held[x],
         fed'[stdin(x)] \o coming'[stdin(x)] = fed[stdin(x)] \o coming[stdin(x)]
  PROVE  flow(p, x)' = flow(p, x)
  <1> DEFINE z == (out[p] \o payload(q[p])) \o held[x]
             s == stdin(x)
  <1>1. /\ out[p] \in Bytes /\ payload(q[p]) \in Bytes /\ held[x] \in Bytes
        /\ fed[s] \in Bytes /\ coming[s] \in Bytes
    BY FlowTypes
  <1>2. fed'[s] \in Bytes /\ coming'[s] \in Bytes
    <2>1. s \in Source
      BY Ends
    <2> QED BY <2>1 DEF pipeTypes, Bytes
  <1>3. z \in Bytes
    BY <1>1, BytesConcat
  <1>4. (z \o fed'[s]) \o coming'[s] = (z \o fed[s]) \o coming[s]
    <2>1. fed'[s] \o coming'[s] = fed[s] \o coming[s]
      OBVIOUS
    <2> HIDE DEF z, s
    <2>2. (z \o fed'[s]) \o coming'[s] = z \o (fed'[s] \o coming'[s])
      BY <1>2, <1>3, Assoc, Zenon
    <2>3. (z \o fed[s]) \o coming[s] = z \o (fed[s] \o coming[s])
      BY <1>1, <1>3, Assoc, Zenon
    <2> QED BY <2>1, <2>2, <2>3, Zenon
  <1>5. flow(p, x)' = (z \o fed'[s]) \o coming'[s]
    BY DEF flow, stdin, payload
  <1> QED BY <1>4, <1>5 DEF flow

\* Every end sends all of its input, once and in order.
sent(x) == flow(peer[x], x) = setup.input[stdin(x)]
\* Conserved, said of each end.
LEMMA Sends ==
  Conserved <=> \A x \in End : pipes(x) /\ conn[x] = "up" /\ alone(x) => sent(x)
  BY BytesOf DEF Conserved, sent, flow

\* An up connection's flow is kept by the work of an end.
LEMMA FlowReceive ==
  ASSUME pipeTypes, NEW e \in End, NEW x \in End, took(e),
         held'[x] = held[x], fed' = fed, coming' = coming
  PROVE  flow(e, x)' = flow(e, x)
  <1>1. /\ out[e] \in Bytes /\ q[e] \in Seq(Packet) /\ payload(q[e]) \in Bytes /\ held[x] \in Bytes
        /\ fed[stdin(x)] \in Bytes /\ coming[stdin(x)] \in Bytes
    BY FlowTypes
  <1>2. /\ received(e) \in Bytes /\ payload(unread(e)) \in Bytes
        /\ payload(q[e]) = received(e) \o payload(unread(e))
    <2>1. bytes(e) = payload(q[e])
      BY BytesOf
    <2> QED BY <1>1, <2>1, Receive
  <1>3. out'[e] = out[e] \o received(e) /\ q'[e] = unread(e)
    BY DEF took
  <1>4. flow(e, x)' = ((((out[e] \o received(e)) \o payload(unread(e))) \o held[x])
                         \o fed[stdin(x)]) \o coming[stdin(x)]
    BY <1>3 DEF flow, stdin, payload
  <1>5. (out[e] \o received(e)) \o payload(unread(e)) = out[e] \o payload(q[e])
    <2>1. (out[e] \o received(e)) \o payload(unread(e)) = out[e] \o (received(e) \o payload(unread(e)))
      BY <1>1, <1>2, Assoc, Zenon
    <2> QED BY <1>2, <2>1, Zenon
  <1> QED BY <1>4, <1>5, Zenon DEF flow

\* What is sent moves from the sender's buffer to the connection.
LEMMA FlowSend ==
  ASSUME pipeTypes, NEW p \in End, NEW x \in End, q'[p] = Append(q[p], packet(x, held[x])),
         out'[p] = out[p], held'[x] = <<>>, fed' = fed, coming' = coming
  PROVE  flow(p, x)' = flow(p, x)
  <1>1. /\ out[p] \in Bytes /\ q[p] \in Seq(Packet) /\ payload(q[p]) \in Bytes /\ held[x] \in Bytes
        /\ fed[stdin(x)] \in Bytes /\ coming[stdin(x)] \in Bytes
    BY FlowTypes
  <1>2. packet(x, held[x]) \in Packet /\ packet(x, held[x]).data = held[x]
    BY <1>1 DEF packet, Packet, Bytes
  <1>3. payload(Append(q[p], packet(x, held[x]))) = payload(q[p]) \o held[x]
    BY <1>1, <1>2, Payload
  <1>4. flow(p, x)' = (((out[p] \o (payload(q[p]) \o held[x])) \o <<>>) \o fed[stdin(x)])
                        \o coming[stdin(x)]
    BY <1>3 DEF flow, stdin, payload
  <1>5. (out[p] \o (payload(q[p]) \o held[x])) \o <<>> = (out[p] \o payload(q[p])) \o held[x]
    <2>1. payload(q[p]) \o held[x] \in Bytes
      BY <1>1, BytesConcat, Zenon
    <2>2. out[p] \o (payload(q[p]) \o held[x]) \in Bytes
      BY <1>1, <2>1, BytesConcat, Zenon
    <2>3. (out[p] \o (payload(q[p]) \o held[x])) \o <<>> = out[p] \o (payload(q[p]) \o held[x])
      BY <2>2, Unit, Zenon
    <2>4. (out[p] \o payload(q[p])) \o held[x] = out[p] \o (payload(q[p]) \o held[x])
      BY <1>1, Assoc, Zenon
    <2> QED BY <2>3, <2>4, Zenon
  <1> QED BY <1>4, <1>5, Zenon DEF flow

\* What is read from the input moves into the reader's buffer.
LEMMA FlowRead ==
  ASSUME pipeTypes, pipeTypes', NEW p \in End, NEW x \in End, q'[p] = q[p], out'[p] = out[p],
         held[x] = <<>>, fed[stdin(x)] = held'[x] \o fed'[stdin(x)], coming' = coming
  PROVE  flow(p, x)' = flow(p, x)
  <1> DEFINE y == out[p] \o payload(q[p])
             s == stdin(x)
  <1>1. /\ out[p] \in Bytes /\ payload(q[p]) \in Bytes
        /\ fed[s] \in Bytes /\ coming[s] \in Bytes
    BY FlowTypes
  <1>2. held'[x] \in Bytes /\ fed'[s] \in Bytes
    BY Ends DEF pipeTypes, Bytes
  <1>3. y \in Bytes
    BY <1>1, BytesConcat
  <1>4. ((y \o held'[x]) \o fed'[s]) \o coming[s] = ((y \o <<>>) \o fed[s]) \o coming[s]
    <2>1. fed[s] = held'[x] \o fed'[s]
      OBVIOUS
    <2> HIDE DEF y, s
    <2>2. (y \o held'[x]) \o fed'[s] = y \o (held'[x] \o fed'[s])
      BY <1>2, <1>3, Assoc, Zenon
    <2>3. y \o <<>> = y
      BY <1>3, Unit, Zenon
    <2> QED BY <2>1, <2>2, <2>3, Zenon
  <1>5. flow(p, x)' = ((y \o held'[x]) \o fed'[s]) \o coming[s]
    BY DEF flow, stdin, payload
  <1> QED BY <1>4, <1>5 DEF flow

\* Who sends to the other end of x is x.
LEMMA OnlySender ==
  ASSUME PipeInv, connected, NEW x \in End, NEW e \in End, peer[x] # None, x # e
  PROVE  peer[e] # peer[x]
  BY OtherEnd

\* The work of an end keeps every flow.
LEMMA FlowWork ==
  ASSUME PipeInv, Next, connected, NEW x \in End, NEW e \in End, Work(e), data_io(x) = "poll",
         alone(x), conn[x] = "up", conn'[x] = "up", NEW p \in End, p = peer[x]
  PROVE  flow(p, x)' = flow(p, x)
  <1> USE DEF io, net, nums
  <1>a. pipeTypes /\ pipeTypes'
    BY StepTypes DEF PipeInv
  <1>b. p # x /\ peer[p] = x /\ p # None /\ pc[x] # "unborn" /\ (x # e => peer[e] # p)
    BY OtherEnd, OnlySender
  <1>1. CASE generate_data(e)
    <2>1. /\ UNCHANGED <<fed, coming, io>> /\ data_io(e) = "generate"
          /\ wrote(e, <<seqno[e]>>) \/ q' = q
      BY <1>1, GenerateDoes, Zenon
    <2>2. peer[e] # p
      BY <1>b, <2>1
    <2>3. q'[p] = q[p]
      BY <2>1, <2>2 DEF wrote
    <2> QED BY <1>a, <2>1, <2>3, FlowFrame
  <1>2. ASSUME UNCHANGED <<fed, coming, held>>, took(e) \/ (q' = q /\ out' = out)
        PROVE  flow(p, x)' = flow(p, x)
    <2>1. CASE took(e) /\ p = e
      BY <1>a, <1>2, <2>1, FlowReceive
    <2>2. CASE took(e) /\ p # e
      <3>1. q'[p] = q[p] /\ out'[p] = out[p]
        BY <2>2 DEF took
      <3> QED BY <1>a, <1>2, <3>1, FlowFrame
    <2>3. CASE q' = q /\ out' = out
      BY <1>a, <1>2, <2>3, FlowFrame
    <2> QED BY <1>2, <2>1, <2>2, <2>3
  <1>3. CASE check_generated_data(e)
    <2>1. UNCHANGED <<fed, coming, held>> /\ (took(e) \/ (q' = q /\ out' = out))
      BY <1>3, CheckDoes, Zenon
    <2> QED BY <1>2, <2>1
  <1>4. CASE ReadSocket(e)
    <2>1. UNCHANGED <<fed, coming, held>> /\ (took(e) \/ (q' = q /\ out' = out))
      BY <1>4, SocketDoes, Zenon
    <2> QED BY <1>2, <2>1
  <1>5. CASE Poll(e)
    <2>1. UNCHANGED <<fed, coming, held, out, q>>
      BY <1>5, PollDoes
    <2> QED BY <1>a, <2>1, FlowFrame
  <1>6. CASE ReadStdin(e)
    <2>1. /\ UNCHANGED <<coming, out, q>> /\ at(e, "stdin")
          /\ fed[stdin(e)] = held'[e] \o fed'[stdin(e)]
          /\ \A y \in End : y # e => held'[y] = held[y]
          /\ \A y \in Source : y # stdin(e) => fed'[y] = fed[y]
      BY <1>6, StdinDoes, Zenon
    <2>2. CASE x = e
      <3>1. held[x] = <<>>
        BY <2>1, <2>2 DEF PipeInv, freshOK, at
      <3> QED BY <1>a, <2>1, <2>2, <3>1, FlowRead
    <2>3. CASE x # e
      <3>1. stdin(x) # stdin(e)
        BY <1>b, <2>1, <2>3, OwnInput DEF at
      <3>2. fed'[stdin(x)] = fed[stdin(x)]
        BY <2>1, <3>1, Ends
      <3> QED BY <1>a, <2>1, <2>3, <3>2, FlowFrame
    <2> QED BY <2>2, <2>3
  <1>7. CASE Write(e)
    <2>1. /\ UNCHANGED <<fed, coming, out>> /\ wrote(e, held[e]) /\ held'[e] = <<>>
          /\ \A y \in End : y # e => held'[y] = held[y]
      BY <1>7, WriteDoes, Zenon
    <2>2. CASE x # e
      <3>1. q'[p] = q[p]
        BY <1>b, <2>1, <2>2 DEF wrote
      <3> QED BY <1>a, <2>1, <2>2, <3>1, FlowFrame
    <2>3. CASE x = e
      <3>1. canWrite(e)
        BY <1>b, <2>3 DEF canWrite
      <3>2. CASE held[e] # <<>> \/ setup.sock_type # "STREAM"
        <4>1. q'[p] = Append(q[p], packet(x, held[x]))
          BY <2>1, <2>3, <3>1, <3>2 DEF wrote
        <4> QED BY <1>a, <2>1, <2>3, <4>1, FlowSend
      <3>3. CASE ~(held[e] # <<>> \/ setup.sock_type # "STREAM")
        <4>1. q' = q
          BY <2>1, <3>3 DEF wrote
        <4> QED BY <1>a, <2>1, <2>3, <3>3, <4>1, FlowFrame
      <3> QED BY <3>2, <3>3
    <2> QED BY <2>2, <2>3
  <1>8. CASE Leave(e)
    <2>1. /\ UNCHANGED <<fed, coming, held, out>> /\ \A y \in End : y # e => q'[y] = q[y]
          /\ peer[e] # None =>
               conn'[peer[e]] = IF conn[peer[e]] = "up" THEN "down" ELSE conn[peer[e]]
      BY <1>8, LeaveDoes
    <2>2. p # e
      <3>1. SUFFICES ASSUME p = e PROVE FALSE
        OBVIOUS
      <3>2. peer[e] = x /\ x # None
        BY <1>b, <3>1, Ends
      <3> QED BY <2>1, <3>2
    <2> QED BY <1>a, <2>1, <2>2, FlowFrame
  <1> QED BY <1>1, <1>3, <1>4, <1>5, <1>6, <1>7, <1>8 DEF Work

\* A connection that comes up has carried nothing, and its ends have read nothing.
LEMMA FlowStart ==
  ASSUME pipeTypes, pipeTypes', NEW p \in End, NEW x \in End,
         out'[p] = <<>>, q'[p] = <<>>, held'[x] = <<>>, UNCHANGED <<setup, fed, coming>>,
         inputOf(stdin(x))
  PROVE  flow(p, x)' = setup.input[stdin(x)]
  <1> DEFINE s == stdin(x)
  <1>1. payload(<<>>) = <<>>
    <2>1. [from |-> p, data |-> <<>>] \in Packet /\ <<>> \in Seq(Packet)
      BY DEF Packet
    <2> QED BY <2>1, Payload
  <1>2. flow(p, x)' = (((<<>> \o <<>>) \o <<>>) \o fed[s]) \o coming[s]
    BY <1>1 DEF flow, stdin, payload
  <1>3. fed[s] \in Bytes
    BY FlowTypes
  <1>4. <<>> \o <<>> = <<>> /\ <<>> \o fed[s] = fed[s]
    BY <1>3, BytesConcat
  <1>5. flow(p, x)' = fed[s] \o coming[s]
    BY <1>2, <1>4, Zenon
  <1> QED BY <1>5 DEF inputOf

\* Every step keeps every flow.
LEMMA StepConserved ==
  ASSUME PipeInv, Next, connected
  PROVE  Conserved'
  <1> USE DEF io, net, nums
  <1>a. /\ pipeTypes /\ pipeTypes' /\ setup' = setup /\ unreadOK
        /\ \A y \in End : freshOK(y) /\ linkOK(y)
    BY StepTypes DEF PipeInv
  <1>b. \A y \in End : pipes(y) /\ conn[y] = "up" /\ alone(y) => sent(y)
    BY Sends DEF PipeInv
  <1>c. (\A y \in End : pipes(y) /\ conn[y] = "up" /\ alone(y) => sent(y))' => Conserved'
    BY BytesOf DEF Conserved, sent, flow, bytes, payload
  <1>d. SUFFICES ASSUME NEW x \in End, pipes(x), conn'[x] = "up", alone(x) PROVE sent(x)'
    BY <1>a, <1>c, SetupFrame
  <1>e. data_io(x) = "poll"
    BY <1>d DEF pipes
  <1>f. ASSUME conn[x] = "up", peer'[x] = peer[x], NEW p \in End, p = peer[x],
               flow(p, x)' = flow(p, x)
        PROVE  sent(x)'
    <2>1. flow(p, x) = setup.input[stdin(x)]
      BY <1>b, <1>d, <1>f DEF sent
    <2> QED BY <1>a, <1>f, <2>1 DEF sent, stdin, flow
  <1>g. conn[x] = "up" => peer[x] \in End
    BY OtherEnd
  <1>1. ASSUME NEW s \in Source, Feed(s) PROVE sent(x)'
    <2>1. UNCHANGED <<setup, io, net>> /\ conn[x] = "up"
      BY <1>d, <1>1 DEF Feed
    <2>2. fed'[stdin(x)] \o coming'[stdin(x)] = fed[stdin(x)] \o coming[stdin(x)]
      BY <1>a, <1>1, FeedInput, Ends
    <2> QED BY <1>a, <1>f, <1>g, <2>1, <2>2, FlowFrame
  <1>2. ASSUME UNCHANGED <<fed, coming, held, out, q>>, conn[x] = "up", peer'[x] = peer[x]
        PROVE  sent(x)'
    BY <1>a, <1>f, <1>g, <1>2, FlowFrame
  <1>3. CASE run_server
    BY <1>a, <1>d, <1>2, <1>3, ServerDoes
  <1>4. CASE ServerExit
    <2>1. UNCHANGED <<fed, coming, held, out, q, peer>> /\ conn[x] = "up"
      BY <1>a, <1>d, <1>4, ExitDoes
    <2> QED BY <1>2, <2>1
  <1>5. ASSUME NEW c \in Client, run_client(c) PROVE sent(x)'
    <2>1. UNCHANGED <<fed, coming, held, out, q, peer>> /\ conn[x] = "up"
      <3>1. /\ UNCHANGED <<setup, fed, coming, io, nums, server, q, peer>>
            /\ \A y \in End : y # c => conn'[y] = conn[y]
            /\ conn'[c] = "syn" \/ conn' = conn
        BY <1>a, <1>5, ClientDoes, Zenon
      <3> QED BY <1>d, <3>1
    <2> QED BY <1>2, <2>1
  <1>6. ASSUME NEW c \in Client, Connected(c) \/ ConnectTimeout(c) PROVE sent(x)'
    <2>1. UNCHANGED <<fed, coming, held, out, q, peer>> /\ conn[x] = "up"
      <3>1. /\ UNCHANGED <<setup, fed, coming, io, nums, server, q, peer>>
            /\ \A y \in End : y # c => conn'[y] = conn[y]
            /\ conn'[c] = "no" \/ conn' = conn
        BY <1>a, <1>6, DialDoes, Zenon
      <3> QED BY <1>d, <3>1
    <2> QED BY <1>2, <2>1
  <1>7. ASSUME NEW e \in End, Work(e) PROVE sent(x)'
    <2>1. peer' = peer /\ (Leave(e) \/ conn' = conn)
      BY <1>7, WorkKeeps
    <2>2. conn[x] = "up"
      <3>1. CASE conn' = conn
        BY <1>d, <3>1
      <3>2. CASE Leave(e)
        <4>1. /\ \A y \in End : y \notin {e, peer[e]} => conn'[y] = conn[y]
              /\ peer[e] = None => conn' = conn
              /\ peer[e] # None =>
                   /\ conn'[e] = "no"
                   /\ conn'[peer[e]] = IF conn[peer[e]] = "up" THEN "down" ELSE conn[peer[e]]
          BY <3>2, LeaveDoes
        <4> QED BY <1>d, <4>1
      <3> QED BY <2>1, <3>1, <3>2
    <2> QED BY <1>d, <1>e, <1>f, <1>g, <1>7, <2>1, <2>2, FlowWork
  <1>8. CASE listen_accept_and_io
    <2>1. UNCHANGED <<setup, fed, coming, io, nums, q>> /\ server = "listen" /\ backlog # <<>>
      BY <1>8, ServeDoes
    <2>2. PICK w \in Worker, c \in Client :
              /\ c = Head(backlog) /\ at(w, "unborn") /\ w # c /\ w \in End /\ c \in End
              /\ \A y \in End : y \notin {c, w} => conn'[y] = conn[y] /\ peer'[y] = peer[y]
              /\ conn[c] = "syn" => conn'[c] = "up" /\ conn'[w] = "up"
              /\ conn[c] # "syn" => conn'[c] = conn[c] /\ conn'[w] = "down"
              /\ peer'[w] = c /\ peer'[c] = w
      BY <1>8, ServeDoes, Zenon
    <2>3. CASE x \notin {w, c}
      <3>1. conn[x] = "up" /\ peer'[x] = peer[x]
        BY <1>d, <2>2, <2>3
      <3> QED BY <1>2, <2>1, <3>1
    <2>4. CASE x \in {w, c}
      <3>1. peer[c] = None /\ peer[w] = None
        <4>1. /\ backlog \in Seq(Client) /\ \A n \in 1 .. Len(backlog) : peer[backlog[n]] = None
          BY DEF PipeInv, pipeTypes, listenOK
        <4>2. c = backlog[1] /\ 1 \in 1 .. Len(backlog)
          BY <2>1, <2>2, <4>1
        <4> QED BY <2>2, <4>1, <4>2, OtherEnd DEF at
      <3>2. conn[c] = "syn"
        <4>1. conn[c] \in {"no", "syn"}
          BY <2>2, <3>1, <1>a DEF linkOK
        <4> QED BY <1>d, <2>2, <2>4, <4>1
      <3>3. pc[c] = "dial" /\ pc[w] = "unborn"
        BY <1>a, <2>2, <3>2 DEF linkOK, at
      <3>4. /\ out[c] = <<>> /\ held[c] = <<>> /\ out[w] = <<>> /\ held[w] = <<>>
            /\ inputOf(c)
        BY <1>a, <2>2, <3>3, Ends DEF freshOK, at
      <3>5. q[c] = <<>> /\ q[w] = <<>>
        BY <1>a, <2>2, <3>1, Zenon DEF linkOK
      <3>6. CASE x = c
        <4>1. flow(w, x)' = setup.input[stdin(x)]
          BY <1>a, <2>1, <2>2, <3>4, <3>5, <3>6, FlowStart, Ends
        <4> QED BY <1>a, <2>2, <3>6, <4>1 DEF sent, flow, stdin
      <3>7. CASE x = w
        <4>1. setup.mode = "single_listener"
          BY <1>d, <3>7, Ends DEF alone
        <4>2. \A v \in Worker : at(v, "unborn")
          BY <2>1, <4>1 DEF PipeInv, listenOK
        <4>3. inputOf(stdin(x))
          BY <1>a, <3>7, <4>1, <4>2, Ends DEF unreadOK
        <4>4. flow(c, x)' = setup.input[stdin(x)]
          BY <1>a, <2>1, <2>2, <3>4, <3>5, <3>7, <4>3, FlowStart
        <4> QED BY <1>a, <2>2, <3>7, <4>4 DEF sent, flow, stdin
      <3> QED BY <2>4, <3>6, <3>7
    <2> QED BY <2>3, <2>4
  <1> QED BY <1>1, <1>3, <1>4, <1>5, <1>6, <1>7, <1>8, Zenon DEF Next, Open, Serve

\* What x has copied with --tee, what is in its socket pair and what is to follow.
trail(x) == (((copy[x] \o pair[x]) \o held[x]) \o fed[stdin(x)]) \o coming[stdin(x)]

\* What --tee has copied and has still to copy, while both stay the same joined.
LEMMA TrailFrame ==
  ASSUME pipeTypes, pipeTypes', NEW x \in End,
         (copy'[x] \o pair'[x]) \o held'[x] = (copy[x] \o pair[x]) \o held[x],
         fed'[stdin(x)] \o coming'[stdin(x)] = fed[stdin(x)] \o coming[stdin(x)]
  PROVE  trail(x)' = trail(x)
  <1> DEFINE z == (copy[x] \o pair[x]) \o held[x]
             s == stdin(x)
  <1>1. /\ copy[x] \in Bytes /\ pair[x] \in Bytes /\ held[x] \in Bytes
        /\ fed[s] \in Bytes /\ coming[s] \in Bytes
    BY FlowTypes
  <1>2. fed'[s] \in Bytes /\ coming'[s] \in Bytes
    <2>1. s \in Source
      BY Ends
    <2> QED BY <2>1 DEF pipeTypes, Bytes
  <1>3. z \in Bytes
    BY <1>1, BytesConcat
  <1>4. (z \o fed'[s]) \o coming'[s] = (z \o fed[s]) \o coming[s]
    <2>1. fed'[s] \o coming'[s] = fed[s] \o coming[s]
      OBVIOUS
    <2> HIDE DEF z, s
    <2>2. (z \o fed'[s]) \o coming'[s] = z \o (fed'[s] \o coming'[s])
      BY <1>2, <1>3, Assoc, Zenon
    <2>3. (z \o fed[s]) \o coming[s] = z \o (fed[s] \o coming[s])
      BY <1>1, <1>3, Assoc, Zenon
    <2> QED BY <2>1, <2>2, <2>3, Zenon
  <1>5. trail(x)' = (z \o fed'[s]) \o coming'[s]
    BY DEF trail, stdin
  <1> QED BY <1>4, <1>5 DEF trail

\* A read of the input keeps the trail: the bytes move into the buffer.
LEMMA TrailRead ==
  ASSUME pipeTypes, pipeTypes', NEW x \in End, UNCHANGED <<copy, pair, coming>>,
         held[x] = <<>>, fed[stdin(x)] = held'[x] \o fed'[stdin(x)]
  PROVE  trail(x)' = trail(x)
  <1> DEFINE y == copy[x] \o pair[x]
             s == stdin(x)
  <1>1. copy[x] \in Bytes /\ pair[x] \in Bytes /\ fed[s] \in Bytes /\ coming[s] \in Bytes
    BY FlowTypes
  <1>2. held'[x] \in Bytes /\ fed'[s] \in Bytes
    BY Ends DEF pipeTypes, Bytes
  <1>3. y \in Bytes
    BY <1>1, BytesConcat
  <1>4. ((y \o held'[x]) \o fed'[s]) \o coming[s] = ((y \o <<>>) \o fed[s]) \o coming[s]
    <2>1. fed[s] = held'[x] \o fed'[s]
      OBVIOUS
    <2> HIDE DEF y, s
    <2>2. (y \o held'[x]) \o fed'[s] = y \o (held'[x] \o fed'[s])
      BY <1>2, <1>3, Assoc, Zenon
    <2>3. y \o <<>> = y
      BY <1>3, Unit, Zenon
    <2> QED BY <2>1, <2>2, <2>3, Zenon
  <1>5. trail(x)' = ((y \o held'[x]) \o fed'[s]) \o coming[s]
    BY DEF trail, stdin
  <1> QED BY <1>4, <1>5 DEF trail

\* The work of an end keeps every trail.
LEMMA TrailWork ==
  ASSUME PipeInv, Next, connected, setup.tee, NEW x \in End, NEW e \in End, Work(e), alone(x),
         pc[x] # "unborn", pc'[x] # "exit"
  PROVE  trail(x)' = trail(x)
  <1> USE DEF io, net, nums
  <1>a. pipeTypes /\ pipeTypes'
    BY StepTypes DEF PipeInv
  <1>b. copy[x] \in Bytes /\ pair[x] \in Bytes /\ held[x] \in Bytes
    BY <1>a, FlowTypes
  <1>1. CASE generate_data(e)
    <2>1. UNCHANGED <<fed, coming, io>>
      BY <1>1, GenerateDoes
    <2> QED BY <1>a, <2>1, TrailFrame
  <1>2. CASE check_generated_data(e)
    <2>1. UNCHANGED <<fed, coming, held, pair, copy>>
      BY <1>2, CheckDoes
    <2> QED BY <1>a, <2>1, TrailFrame
  <1>3. CASE ReadSocket(e)
    <2>1. UNCHANGED <<fed, coming, held, pair, copy>>
      BY <1>3, SocketDoes
    <2> QED BY <1>a, <2>1, TrailFrame
  <1>4. CASE Poll(e)
    <2>1. /\ UNCHANGED <<fed, coming, held>> /\ copy'[e] = copy[e] \o pair[e] /\ pair'[e] = <<>>
          /\ \A y \in End : y # e => copy'[y] = copy[y] /\ pair'[y] = pair[y]
      BY <1>4, PollDoes
    <2>2. CASE x # e
      BY <1>a, <2>1, <2>2, TrailFrame
    <2>3. CASE x = e
      <3>1. copy[x] \o pair[x] \in Bytes
        BY <1>b, BytesConcat, Zenon
      <3>2. (copy[x] \o pair[x]) \o <<>> = copy[x] \o pair[x]
        BY <3>1, Unit, Zenon
      <3>3. (copy'[x] \o pair'[x]) \o held'[x] = (copy[x] \o pair[x]) \o held[x]
        BY <2>1, <2>3, <3>2, Zenon
      <3> QED BY <1>a, <2>1, <3>3, TrailFrame
    <2> QED BY <2>2, <2>3
  <1>5. CASE ReadStdin(e)
    <2>1. /\ UNCHANGED <<coming, pair, copy>> /\ at(e, "stdin")
          /\ fed[stdin(e)] = held'[e] \o fed'[stdin(e)]
          /\ \A y \in End : y # e => held'[y] = held[y]
          /\ \A y \in Source : y # stdin(e) => fed'[y] = fed[y]
      BY <1>5, StdinDoes, Zenon
    <2>2. CASE x = e
      <3>1. held[x] = <<>>
        BY <2>1, <2>2 DEF PipeInv, freshOK, at
      <3> QED BY <1>a, <2>1, <2>2, <3>1, TrailRead
    <2>3. CASE x # e
      <3>1. stdin(x) # stdin(e)
        BY <2>1, <2>3, OwnInput DEF at
      <3>2. fed'[stdin(x)] = fed[stdin(x)]
        BY <2>1, <3>1, Ends
      <3> QED BY <1>a, <2>1, <2>3, <3>2, TrailFrame
    <2> QED BY <2>2, <2>3
  <1>6. CASE Write(e)
    <2>1. /\ UNCHANGED <<fed, coming>> /\ held'[e] = <<>> /\ copy'[e] = copy[e]
          /\ pair'[e] = pair[e] \o held[e]
          /\ \A y \in End : y # e => held'[y] = held[y] /\ pair'[y] = pair[y] /\ copy'[y] = copy[y]
      BY <1>6, WriteDoes, Zenon
    <2>2. CASE x # e
      BY <1>a, <2>1, <2>2, TrailFrame
    <2>3. CASE x = e
      <3>1. pair[x] \o held[x] \in Bytes
        BY <1>b, BytesConcat, Zenon
      <3>2. copy[x] \o (pair[x] \o held[x]) \in Bytes
        BY <1>b, <3>1, BytesConcat, Zenon
      <3>3. (copy[x] \o (pair[x] \o held[x])) \o <<>> = copy[x] \o (pair[x] \o held[x])
        BY <3>2, Unit, Zenon
      <3>4. (copy[x] \o pair[x]) \o held[x] = copy[x] \o (pair[x] \o held[x])
        BY <1>b, Assoc, Zenon
      <3>5. (copy'[x] \o pair'[x]) \o held'[x] = (copy[x] \o pair[x]) \o held[x]
        BY <2>1, <2>3, <3>3, <3>4, Zenon
      <3> QED BY <1>a, <2>1, <3>5, TrailFrame
    <2> QED BY <2>2, <2>3
  <1>7. CASE Leave(e)
    <2>1. /\ UNCHANGED <<fed, coming, held, copy>> /\ pc'[e] = "exit"
          /\ \A y \in End : y # e => pair'[y] = pair[y]
      BY <1>7, LeaveDoes
    <2>2. x # e
      BY <2>1
    <2> QED BY <1>a, <2>1, <2>2, TrailFrame
  <1> QED BY <1>1, <1>2, <1>3, <1>4, <1>5, <1>6, <1>7 DEF Work

\* Every step keeps the trail of --tee.
LEMMA StepCopied ==
  ASSUME PipeInv, Next, connected, NEW x \in End
  PROVE  copiedOK(x)'
  <1> USE DEF io, net, nums
  <1>a. /\ pipeTypes /\ pipeTypes' /\ setup' = setup /\ unreadOK /\ copiedOK(x) /\ freshOK(x)
    BY StepTypes DEF PipeInv
  <1>b. SUFFICES ASSUME setup.tee, pipes(x), alone(x), pc'[x] \notin {"unborn", "exit"}
                 PROVE  trail(x)' = setup.input[stdin(x)]
    <2>1. stdin(x)' = stdin(x) /\ pipes(x)' = pipes(x) /\ alone(x)' = alone(x)
      BY <1>a, SetupFrame DEF stdin
    <2> QED BY <1>a, <2>1, Zenon DEF copiedOK, trail
  <1>c. ASSUME pc[x] \notin {"unborn", "exit"}, trail(x)' = trail(x)
        PROVE  trail(x)' = setup.input[stdin(x)]
    <2>1. trail(x) = setup.input[stdin(x)]
      BY <1>a, <1>b, <1>c, Zenon DEF copiedOK, trail
    <2> QED BY <1>c, <2>1
  <1>d. ASSUME UNCHANGED <<fed, coming, io>>, pc[x] \notin {"unborn", "exit"}
        PROVE  trail(x)' = setup.input[stdin(x)]
    BY <1>a, <1>c, <1>d, TrailFrame
  <1>1. ASSUME NEW s \in Source, Feed(s) PROVE trail(x)' = setup.input[stdin(x)]
    <2>1. UNCHANGED <<setup, io, net, pc>>
      BY <1>1 DEF Feed
    <2>2. fed'[stdin(x)] \o coming'[stdin(x)] = fed[stdin(x)] \o coming[stdin(x)]
      BY <1>a, <1>1, FeedInput, Ends
    <2> QED BY <1>a, <1>b, <1>c, <2>1, <2>2, TrailFrame
  <1>2. CASE run_server
    <2>1. UNCHANGED <<fed, coming, io, pc>>
      BY <1>a, <1>2, ServerDoes
    <2> QED BY <1>b, <1>d, <2>1
  <1>3. CASE ServerExit
    <2>1. UNCHANGED <<fed, coming, io, pc>>
      BY <1>3 DEF ServerExit
    <2> QED BY <1>b, <1>d, <2>1
  <1>4. ASSUME NEW c \in Client, run_client(c) PROVE trail(x)' = setup.input[stdin(x)]
    <2>1. /\ UNCHANGED <<fed, coming, io>> /\ at(c, "start")
          /\ \A y \in End : y # c => pc'[y] = pc[y]
      BY <1>a, <1>4, ClientDoes
    <2>2. pc[x] \notin {"unborn", "exit"}
      BY <1>b, <2>1 DEF at
    <2> QED BY <1>d, <2>1, <2>2
  <1>5. ASSUME NEW c \in Client, Connected(c) \/ ConnectTimeout(c)
        PROVE  trail(x)' = setup.input[stdin(x)]
    <2>1. /\ UNCHANGED <<fed, coming, io>> /\ at(c, "dial")
          /\ \A y \in End : y # c => pc'[y] = pc[y]
      BY <1>a, <1>5, DialDoes
    <2>2. pc[x] \notin {"unborn", "exit"}
      BY <1>b, <2>1 DEF at
    <2> QED BY <1>d, <2>1, <2>2
  <1>6. ASSUME NEW e \in End, Work(e) PROVE trail(x)' = setup.input[stdin(x)]
    <2>1. /\ pc[e] \notin unbound /\ \A y \in End : y # e => pc'[y] = pc[y]
      BY <1>6, WorkKeeps
    <2>2. pc[e] # "exit"
      BY <1>6 DEF Work, generate_data, check_generated_data, Poll, ReadStdin, Write, ReadSocket,
                  Leave, at
    <2>3. pc[x] \notin {"unborn", "exit"}
      BY <1>b, <2>1, <2>2 DEF unbound
    <2>4. trail(x)' = trail(x)
      BY <1>b, <1>6, <2>3, TrailWork
    <2> QED BY <1>c, <2>3, <2>4
  <1>7. CASE listen_accept_and_io
    <2>1. UNCHANGED <<setup, fed, coming, io, nums, q>> /\ server = "listen"
      BY <1>7, ServeDoes
    <2>2. PICK w \in Worker : at(w, "unborn") /\ \A y \in End : y # w => pc'[y] = pc[y]
      BY <1>7, ServeDoes, Zenon
    <2>3. CASE x # w
      <3>1. pc[x] \notin {"unborn", "exit"}
        BY <1>b, <2>2, <2>3
      <3> QED BY <1>d, <2>1, <3>1
    <2>4. CASE x = w
      <3>1. held[x] = <<>> /\ pair[x] = <<>> /\ copy[x] = <<>>
        BY <1>a, <2>2, <2>4 DEF freshOK, at
      <3>2. inputOf(stdin(x))
        <4>1. setup.mode = "single_listener"
          BY <1>b, <2>4, Ends DEF alone
        <4>2. \A v \in Worker : at(v, "unborn")
          BY <2>1, <4>1 DEF PipeInv, listenOK
        <4> QED BY <1>a, <2>4, <4>1, <4>2, Ends DEF unreadOK
      <3>3. trail(x)' = (((<<>> \o <<>>) \o <<>>) \o fed[stdin(x)]) \o coming[stdin(x)]
        BY <2>1, <3>1 DEF trail, stdin
      <3>4. <<>> \o <<>> = <<>> /\ <<>> \o fed[stdin(x)] = fed[stdin(x)]
        <4>1. fed[stdin(x)] \in Bytes
          BY <1>a, FlowTypes
        <4> QED BY <4>1, BytesConcat
      <3>5. trail(x)' = fed[stdin(x)] \o coming[stdin(x)]
        BY <3>3, <3>4, Zenon
      <3> QED BY <3>2, <3>5 DEF inputOf
    <2> QED BY <2>3, <2>4
  <1> QED BY <1>1, <1>2, <1>3, <1>4, <1>5, <1>6, <1>7, Zenon DEF Next, Open, Serve

-----------------------------------------------------------------------------
(***************************************************************************)
(* Leaving.                                                                *)
(***************************************************************************)

\* A write that is not empty leaves no empty message.
LEMMA FullWrote ==
  ASSUME pipeTypes, NEW e \in End, NEW d \in Seq(Nat), wrote(e, d), q' = q \/ d # <<>>,
         NEW x \in End, fullOK(x)
  PROVE  fullOK(x)'
  <1>1. CASE q'[x] = q[x]
    BY <1>1 DEF fullOK
  <1>2. CASE x = peer[e] /\ q'[x] = Append(q[x], packet(e, d)) /\ d # <<>>
    <2>1. q[x] \in Seq(Packet) /\ packet(e, d) \in Packet /\ packet(e, d).data # <<>>
      BY <1>2 DEF pipeTypes, packet, Packet
    <2>2. /\ Len(q'[x]) = Len(q[x]) + 1 /\ Len(q[x]) \in Nat
          /\ q'[x][Len(q[x]) + 1] = packet(e, d)
          /\ \A n \in 1 .. Len(q[x]) : q'[x][n] = q[x][n]
      BY <1>2, <2>1, AppendProperties
    <2>3. \A n \in 1 .. Len(q[x]) : q[x][n].data # <<>>
      BY DEF fullOK
    <2>4. ASSUME NEW n \in 1 .. Len(q'[x]) PROVE q'[x][n].data # <<>>
      <3>1. n \in 1 .. Len(q[x]) \/ n = Len(q[x]) + 1
        BY <2>2
      <3> QED BY <2>1, <2>2, <2>3, <3>1
    <2> QED BY <2>4 DEF fullOK
  <1> QED BY <1>1, <1>2 DEF wrote

\* No message becomes empty, and no empty one is sent.
LEMMA StepFull ==
  ASSUME PipeInv, Next, connected, NoEmpty(setup), NEW x \in End
  PROVE  fullOK(x)'
  <1> USE DEF io, net, nums
  <1>a. /\ pipeTypes /\ pipeTypes' /\ \A y \in End : fullOK(y)
    BY StepTypes DEF PipeInv
  <1>b. q' = q => fullOK(x)'
    BY <1>a DEF fullOK
  <1>c. ASSUME NEW e \in End, took(e) PROVE fullOK(x)'
    <2>1. CASE x = e
      <3>1. q[e] \in Seq(Packet)
        BY <1>a DEF pipeTypes
      <3>2. \A n \in 1 .. Len(unread(e)) : unread(e)[n].data # <<>>
        BY <1>a, <3>1, Receive
      <3>3. q'[x] = unread(e)
        BY <1>c, <2>1 DEF took
      <3> QED BY <3>2, <3>3 DEF fullOK
    <2>2. CASE x # e
      <3>1. q'[x] = q[x]
        BY <1>c, <2>2 DEF took
      <3> QED BY <1>a, <3>1 DEF fullOK
    <2> QED BY <2>1, <2>2
  <1>1. ASSUME NEW s \in Source, Feed(s) PROVE fullOK(x)'
    BY <1>b, <1>1 DEF Feed
  <1>2. CASE Serve \/ \E c \in Client : Open(c) \/ ConnectTimeout(c)
    <2>1. q' = q
      BY <1>2, Zenon DEF Serve, Open, run_server, listen_accept_and_io, ServerExit, run_client,
                         Connected, ConnectTimeout, net
    <2> QED BY <1>b, <2>1
  <1>3. ASSUME NEW e \in End, generate_data(e) PROVE fullOK(x)'
    <2>1. e \in Client /\ (wrote(e, <<seqno[e]>>) \/ q' = q)
      BY <1>3, GenerateDoes, Zenon
    <2>2. CASE wrote(e, <<seqno[e]>>)
      <3>1. <<seqno[e]>> \in Seq(Nat) /\ <<seqno[e]>> # <<>>
        BY <1>a, <2>1 DEF pipeTypes
      <3> QED BY <1>a, <2>2, <3>1, FullWrote
    <2> QED BY <1>b, <2>1, <2>2
  <1>4. ASSUME NEW e \in End, check_generated_data(e) PROVE fullOK(x)'
    <2>1. took(e) \/ q' = q
      BY <1>4, CheckDoes, Zenon
    <2> QED BY <1>b, <1>c, <2>1
  <1>5. ASSUME NEW e \in End, Poll(e) PROVE fullOK(x)'
    BY <1>b, <1>5 DEF Poll
  <1>6. ASSUME NEW e \in End, ReadStdin(e) PROVE fullOK(x)'
    BY <1>b, <1>6 DEF ReadStdin
  <1>7. ASSUME NEW e \in End, Write(e) PROVE fullOK(x)'
    <2>1. at(e, "write") /\ wrote(e, held[e])
      BY <1>7, WriteDoes, Zenon
    <2>2. held[e] \in Seq(Nat)
      BY <1>a DEF pipeTypes
    <2>3. q' = q \/ held[e] # <<>> \/ setup.sock_type # "STREAM"
      BY <2>1 DEF wrote
    <2>4. setup.sock_type # "STREAM" => held[e] # <<>>
      <3>1. SUFFICES ASSUME setup.sock_type # "STREAM" PROVE held[e] # <<>>
        OBVIOUS
      <3>2. setup.mode = "single_listener" /\ \A y \in Source : setup.kind[y] # "file"
        BY <3>1 DEF NoEmpty
      <3>3. alone(e) /\ kind(e) # "file"
        BY <3>2, Ends DEF alone, kind
      <3>4. roundOK(e)
        BY DEF PipeInv
      <3> QED BY <2>1, <3>3, <3>4, Zenon DEF roundOK
    <2> QED BY <1>a, <2>1, <2>2, <2>3, <2>4, FullWrote
  <1>8. ASSUME NEW e \in End, ReadSocket(e) PROVE fullOK(x)'
    <2>1. took(e) \/ q' = q
      BY <1>8, SocketDoes, Zenon
    <2> QED BY <1>b, <1>c, <2>1
  <1>9. ASSUME NEW e \in End, Leave(e) PROVE fullOK(x)'
    <2>1. q'[e] = <<>> /\ \A y \in End : y # e => q'[y] = q[y]
      BY <1>9, LeaveDoes
    <2>2. q'[x] = <<>> \/ q'[x] = q[x]
      BY <2>1
    <2> QED BY <1>a, <2>2 DEF fullOK
  <1> QED BY <1>1, <1>2, <1>3, <1>4, <1>5, <1>6, <1>7, <1>8, <1>9, Zenon DEF Next, Work

\* An end that is about to leave does nothing else.
LEMMA LeavingKeeps ==
  ASSUME PipeInv, Next, connected, NEW x \in End, pc[x] = "leave", pc'[x] = "leave",
         conn'[x] = "up"
  PROVE  pair'[x] = pair[x] /\ copy'[x] = copy[x] /\ conn[x] = "up"
  <1> USE DEF io, net, nums
  <1>a. pipeTypes
    BY DEF PipeInv
  <1>1. ASSUME NEW s \in Source, Feed(s)
        PROVE  pair'[x] = pair[x] /\ copy'[x] = copy[x] /\ conn[x] = "up"
    BY <1>1 DEF Feed
  <1>2. CASE run_server
    BY <1>a, <1>2, ServerDoes
  <1>3. CASE listen_accept_and_io
    <2>1. UNCHANGED io
      BY <1>3, ServeDoes
    <2>2. PICK w \in Worker, c \in Client :
              /\ at(w, "unborn") /\ w # c /\ w \in End /\ c \in End
              /\ \A y \in End : y \notin {c, w} => conn'[y] = conn[y]
              /\ conn[c] # "syn" => conn'[c] = conn[c]
      BY <1>3, ServeDoes, Zenon
    <2>3. conn[c] = "syn" => pc[c] = "dial"
      BY <2>2 DEF PipeInv, linkOK, at
    <2> QED BY <2>1, <2>2, <2>3 DEF at
  <1>4. CASE ServerExit
    <2>1. UNCHANGED io /\ (conn'[x] = conn[x] \/ conn'[x] = "no")
      BY <1>a, <1>4, ExitDoes
    <2> QED BY <2>1
  <1>5. ASSUME NEW c \in Client, run_client(c)
        PROVE  pair'[x] = pair[x] /\ copy'[x] = copy[x] /\ conn[x] = "up"
    <2>1. UNCHANGED io /\ at(c, "start") /\ \A y \in End : y # c => conn'[y] = conn[y]
      BY <1>a, <1>5, ClientDoes
    <2> QED BY <2>1 DEF at
  <1>6. ASSUME NEW c \in Client, Connected(c) \/ ConnectTimeout(c)
        PROVE  pair'[x] = pair[x] /\ copy'[x] = copy[x] /\ conn[x] = "up"
    <2>1. UNCHANGED io /\ at(c, "dial") /\ \A y \in End : y # c => conn'[y] = conn[y]
      BY <1>a, <1>6, DialDoes
    <2> QED BY <2>1 DEF at
  <1>7. ASSUME NEW e \in End, Work(e)
        PROVE  pair'[x] = pair[x] /\ copy'[x] = copy[x] /\ conn[x] = "up"
    <2>1. CASE Leave(e)
      <3>1. /\ pc'[e] = "exit" /\ copy' = copy /\ \A y \in End : y # e => pair'[y] = pair[y]
            /\ \A y \in End : y \notin {e, peer[e]} => conn'[y] = conn[y]
            /\ peer[e] = None => conn' = conn
            /\ peer[e] # None =>
                 conn'[peer[e]] = IF conn[peer[e]] = "up" THEN "down" ELSE conn[peer[e]]
        BY <2>1, LeaveDoes
      <3> QED BY <3>1
    <2>2. CASE conn' = conn /\ ~Leave(e)
      <3>1. x # e
        BY <1>7, <2>2 DEF Work, generate_data, check_generated_data, Poll, ReadStdin, Write,
                          ReadSocket, at
      <3>2. CASE generate_data(e) \/ check_generated_data(e) \/ ReadStdin(e) \/ ReadSocket(e)
        <4>1. UNCHANGED <<pair, copy>>
          BY <3>2, Zenon DEF generate_data, check_generated_data, ReadStdin, ReadSocket, io
        <4> QED BY <2>2, <4>1
      <3>3. CASE Poll(e)
        BY <2>2, <3>1, <3>3, PollDoes
      <3>4. CASE Write(e)
        BY <2>2, <3>1, <3>4, WriteDoes
      <3> QED BY <1>7, <2>2, <3>2, <3>3, <3>4 DEF Work
    <2> QED BY <1>7, <2>1, <2>2, WorkKeeps
  <1> QED BY <1>1, <1>2, <1>3, <1>4, <1>5, <1>6, <1>7, Zenon DEF Next, Open, Serve

\* An end that copies leaves after a round that ends with a hangup.
LEMMA LeavesFromSocket ==
  ASSUME PipeInv, Next, connected, NEW x \in End, data_io(x) = "poll", pc[x] # "leave",
         pc'[x] = "leave"
  PROVE  ReadSocket(x)
  <1> USE DEF io, net, nums
  <1>a. pipeTypes /\ \A e : data_io(e) # "leave"
    BY ModeLabels DEF PipeInv
  <1>1. ASSUME NEW s \in Source, Feed(s) PROVE FALSE
    BY <1>1 DEF Feed
  <1>2. CASE run_server
    BY <1>a, <1>2, ServerDoes
  <1>3. CASE listen_accept_and_io
    <2>1. PICK w \in Worker : pc'[w] = data_io(w) /\ \A y \in End : y # w => pc'[y] = pc[y]
      BY <1>3, ServeDoes, Zenon
    <2> QED BY <1>a, <2>1
  <1>4. CASE ServerExit
    BY <1>4 DEF ServerExit
  <1>5. ASSUME NEW c \in Client, run_client(c) PROVE FALSE
    <2>1. /\ \A y \in End : y # c => pc'[y] = pc[y]
          /\ pc'[c] = "dial" \/ pc'[c] = data_io(c)
      BY <1>a, <1>5, ClientDoes, Zenon
    <2> QED BY <1>a, <2>1
  <1>6. ASSUME NEW c \in Client, Connected(c) \/ ConnectTimeout(c) PROVE FALSE
    <2>1. pc'[c] = data_io(c) /\ \A y \in End : y # c => pc'[y] = pc[y]
      BY <1>a, <1>6, DialDoes, Zenon
    <2> QED BY <1>a, <2>1
  <1>7. ASSUME NEW e \in End, Work(e) PROVE ReadSocket(x)
    <2>1. x = e
      BY <1>7, WorkKeeps
    <2>2. CASE generate_data(e)
      BY <2>1, <2>2, GenerateDoes
    <2>3. CASE check_generated_data(e)
      BY <2>1, <2>3, CheckDoes
    <2>4. CASE Poll(e)
      <3>1. pc'[e] \in {"stdin", "socket"}
        BY <2>4, PollDoes
      <3> QED BY <2>1, <3>1
    <2>5. CASE ReadStdin(e)
      BY <2>1, <2>5, StdinDoes
    <2>6. CASE Write(e)
      BY <2>1, <2>6, WriteDoes
    <2>7. CASE Leave(e)
      BY <2>1, <2>7, LeaveDoes
    <2> QED BY <1>7, <2>1, <2>2, <2>3, <2>4, <2>5, <2>6, <2>7 DEF Work
  <1> QED BY <1>1, <1>2, <1>3, <1>4, <1>5, <1>6, <1>7, Zenon DEF Next, Open, Serve

\* An end leaves an up connection only when its input has ended.
LEMMA HangupClean ==
  ASSUME PipeInv, connected, NoEmpty(setup), NEW x \in End, ReadSocket(x), pc'[x] = "leave",
         data_io(x) = "poll", conn[x] = "up", alone(x)
  PROVE  /\ fed[stdin(x)] = <<>> /\ coming[stdin(x)] = <<>> /\ pair[x] = <<>>
         /\ setup.tee => copy[x] = setup.input[stdin(x)]
  <1>a. roundOK(x) /\ copiedOK(x) /\ freshOK(x) /\ fullOK(x) /\ pipeTypes
    BY DEF PipeInv
  <1> DEFINE len == IF "in1" \in rev[x] THEN Len(received(x)) ELSE data_in_len[x]
  <1>1. pc[x] = "socket" /\ checkHangup(x, len)
    <2>1. at(x, "socket") /\ pc'[x] = IF checkHangup(x, len) THEN "leave" ELSE "poll"
      BY SocketDoes
    <2> HIDE DEF len
    <2> QED BY <2>1 DEF at
  <1>2. rev[x] \cap {"hup0", "hup1"} # {} /\ len = 0
    BY <1>1 DEF checkHangup
  <1> HIDE DEF len
  <1>3. "hup1" \notin rev[x]
    BY <1>a DEF roundOK
  <1>4. "hup0" \in rev[x]
    BY <1>2, <1>3
  <1>5. "in1" \notin rev[x]
    <2>1. SUFFICES ASSUME "in1" \in rev[x] PROVE FALSE
      OBVIOUS
    <2>2. q[x] # <<>>
      BY <1>a, <2>1 DEF roundOK
    <2>3. q[x] \in Seq(Packet)
      BY <1>a DEF pipeTypes
    <2>4. Len(received(x)) > 0
      BY <1>a, <2>2, <2>3, Receive
    <2> QED BY <1>2, <2>1, <2>4 DEF len
  <1>6. data_in_len[x] = 0
    BY <1>2, <1>5 DEF len
  <1>7. kind(x) = "pipe" /\ coming[stdin(x)] = <<>>
    BY <1>a, <1>4 DEF roundOK
  <1>8. "in0" \notin rev[x]
    <2>1. "in0" \in rev[x] => data_in_len[x] > 0
      BY <1>a, <1>1, <1>7 DEF roundOK, at
    <2> QED BY <1>6, <2>1
  <1>9. fed[stdin(x)] = <<>> /\ pair[x] = <<>>
    BY <1>a, <1>1, <1>4, <1>8 DEF roundOK, at
  <1>10. setup.tee => copy[x] = setup.input[stdin(x)]
    <2>1. held[x] = <<>>
      BY <1>a, <1>1 DEF freshOK, at
    <2>2. pipes(x) /\ pc[x] \notin {"unborn", "exit"}
      BY <1>1 DEF pipes
    <2>3. setup.tee =>
            (((copy[x] \o <<>>) \o <<>>) \o <<>>) \o <<>> = setup.input[stdin(x)]
      BY <1>a, <1>7, <1>9, <2>1, <2>2, Zenon DEF copiedOK
    <2>4. copy[x] \o <<>> = copy[x]
      <3>1. copy[x] \in Bytes
        BY <1>a DEF pipeTypes, Bytes
      <3> QED BY <3>1, Unit
    <2> QED BY <2>3, <2>4, Zenon
  <1> QED BY <1>7, <1>9, <1>10, Zenon

\* Every step keeps what holds of an end that has left.
LEMMA StepClean ==
  ASSUME PipeInv, Next, connected, NoEmpty(setup)
  PROVE  LeavesClean'
  <1>a. pipeTypes /\ pipeTypes' /\ setup' = setup /\ LeavesClean
    BY StepTypes DEF PipeInv
  <1>b. SUFFICES ASSUME NEW x \in End, pc'[x] = "leave", pipes(x), conn'[x] = "up", alone(x)
                 PROVE  /\ fed'[stdin(x)] = <<>> /\ coming'[stdin(x)] = <<>> /\ pair'[x] = <<>>
                        /\ setup.tee => copy'[x] = setup.input[stdin(x)]
    <2>1. \A x : stdin(x)' = stdin(x) /\ pipes(x)' = pipes(x) /\ alone(x)' = alone(x)
      BY <1>a, SetupFrame DEF stdin
    <2> QED BY <1>a, <2>1, Zenon DEF LeavesClean, at
  <1>c. data_io(x) = "poll"
    BY <1>b DEF pipes
  <1>1. CASE pc[x] = "leave"
    <2>1. pair'[x] = pair[x] /\ copy'[x] = copy[x] /\ conn[x] = "up"
      BY <1>b, <1>1, LeavingKeeps
    <2>2. /\ fed[stdin(x)] = <<>> /\ coming[stdin(x)] = <<>> /\ pair[x] = <<>>
          /\ setup.tee => copy[x] = setup.input[stdin(x)]
      BY <1>a, <1>b, <1>1, <2>1, Zenon DEF LeavesClean, at
    <2>3. ~ \E e \in End : stdin(e) = stdin(x) /\ ReadStdin(e)
      <3>1. SUFFICES ASSUME NEW e \in End, stdin(e) = stdin(x), ReadStdin(e) PROVE FALSE
        OBVIOUS
      <3>2. pc[e] = "stdin" /\ e # x
        BY <1>1, <3>1 DEF ReadStdin, at
      <3> QED BY <1>b, <1>1, <3>1, <3>2, OwnInput
    <2>4. fed'[stdin(x)] \o coming'[stdin(x)] = <<>>
      <3>1. fed'[stdin(x)] \o coming'[stdin(x)] = fed[stdin(x)] \o coming[stdin(x)]
        <4>1. PICK s \in Source : s = stdin(x)
          BY Ends
        <4>2. \/ fed'[s] \o coming'[s] = fed[s] \o coming[s]
              \/ \E e \in End : stdin(e) = s /\ ReadStdin(e)
          BY InputKept
        <4>3. ~ \E e \in End : stdin(e) = s /\ ReadStdin(e)
          BY <2>3, <4>1
        <4>4. fed'[s] \o coming'[s] = fed[s] \o coming[s]
          BY <4>2, <4>3, Zenon
        <4> QED BY <4>1, <4>4
      <3>2. <<>> \o <<>> = <<>>
        BY BytesConcat
      <3> QED BY <2>2, <3>1, <3>2, Zenon
    <2>5. fed'[stdin(x)] = <<>> /\ coming'[stdin(x)] = <<>>
      <3>1. fed'[stdin(x)] \in Seq(Nat) /\ coming'[stdin(x)] \in Seq(Nat)
        BY <1>a, Ends DEF pipeTypes
      <3>2. \A y, z \in Seq(Nat) : y \o z = <<>> => y = <<>> /\ z = <<>>
        BY ConcatEqualIffEmpty
      <3> QED BY <2>4, <3>1, <3>2
    <2> QED BY <2>1, <2>2, <2>5, Zenon
  <1>2. CASE pc[x] # "leave"
    <2>1. ReadSocket(x)
      BY <1>b, <1>c, <1>2, LeavesFromSocket
    <2>2. UNCHANGED <<fed, coming, pair, copy, conn>>
      BY <2>1, SocketDoes
    <2> QED BY <1>b, <1>c, <2>1, <2>2, HangupClean, Zenon
  <1> QED BY <1>1, <1>2

-----------------------------------------------------------------------------
(***************************************************************************)
(* Numbered messages.                                                      *)
(***************************************************************************)

\* Where generated data is checked nobody copies.
LEMMA Numbering ==
  ASSUME PipeInv, counting
  PROVE  \A e \in End : data_io(e) # "poll" /\ pc[e] \notin {"poll", "stdin", "write", "socket"}
  <1>1. SUFFICES ASSUME NEW e \in End PROVE data_io(e) # "poll"
    BY Piping
  <1>2. setup.data_num > 0 /\ setup.data_check
    BY DEF counting
  <1> QED BY <1>1, <1>2, Ends, Zenon DEF data_io

\* The parts of numbersOK.
counted(c) == lost[c] >= 0 /\ lost[c] + got[c] = i[slot(c)] /\ i[slot(c)] <= seqno[c]
lined(c, w) ==
  \A n \in 1 .. Len(q[w]) : q[w][n].from = c =>
    /\ peer[c] = w /\ q[w][n].data = <<numberOf(w, n)>>
    /\ numberOf(w, n) \in i[slot(c)] .. seqno[c] - 1
    /\ \A m \in 1 .. n - 1 : q[w][m].from = c => numberOf(w, m) < numberOf(w, n)

\* The numbering of a sender, in its two parts.
LEMMA NumbersParts == \A c : numbersOK(c) <=> counted(c) /\ \A w \in Worker : lined(c, w)
  BY Zenon DEF numbersOK, counted, lined

\* The numbers generated and expected are natural numbers.
LEMMA NumberTypes ==
  ASSUME pipeTypes, NEW c \in Client
  PROVE  /\ lost[c] \in Int /\ got[c] \in Nat /\ i[slot(c)] \in Nat /\ seqno[c] \in Nat
         /\ slot(c) \in {slot(d) : d \in Client}
  BY DEF pipeTypes

\* A queue that stays.
LEMMA LinedFrame ==
  ASSUME pipeTypes, setup' = setup, NEW c \in Client, NEW w \in Worker, lined(c, w),
         q'[w] = q[w] \/ q'[w] = <<>>, i'[slot(c)] = i[slot(c)], seqno'[c] \in Nat,
         seqno[c] <= seqno'[c], peer[c] = w => peer'[c] = w
  PROVE  lined(c, w)'
  <1>1. slot(c)' = slot(c)
    BY SetupFrame
  <1>2. CASE q'[w] = <<>>
    BY <1>2 DEF lined
  <1>3. CASE q'[w] = q[w]
    <2>1. ASSUME NEW n \in 1 .. Len(q[w]), q[w][n].from = c
          PROVE  /\ peer'[c] = w /\ q[w][n].data = <<numberOf(w, n)>>
                 /\ numberOf(w, n) \in i'[slot(c)] .. seqno'[c] - 1
                 /\ \A m \in 1 .. n - 1 : q[w][m].from = c => numberOf(w, m) < numberOf(w, n)
      <3>1. /\ peer[c] = w /\ q[w][n].data = <<numberOf(w, n)>>
            /\ numberOf(w, n) \in i[slot(c)] .. seqno[c] - 1
            /\ \A m \in 1 .. n - 1 : q[w][m].from = c => numberOf(w, m) < numberOf(w, n)
        BY <2>1, Zenon DEF lined
      <3>2. i[slot(c)] \in Nat /\ seqno[c] \in Nat
        BY NumberTypes
      <3>3. numberOf(w, n) \in i'[slot(c)] .. seqno'[c] - 1
        BY <3>1, <3>2
      <3> QED BY <3>1, <3>3, Zenon
    <2>2. \A n : numberOf(w, n)' = numberOf(w, n)
      BY <1>3 DEF numberOf
    <2> QED BY <1>1, <1>3, <2>1, <2>2, Zenon DEF lined
  <1> QED BY <1>2, <1>3

\* A message that is generated.
LEMMA LinedAppend ==
  ASSUME pipeTypes, setup' = setup, NEW e \in Client, NEW c \in Client, NEW w \in Worker,
         lined(c, w), counted(c), w = peer[e], peer' = peer,
         q'[w] = Append(q[w], packet(e, <<seqno[e]>>)), i' = i,
         seqno'[e] = seqno[e] + 1, c # e => seqno'[c] = seqno[c]
  PROVE  lined(c, w)'
  <1>a. PICK k : k = Len(q[w]) + 1
    OBVIOUS
  <1>b. PICK p : p = packet(e, <<seqno[e]>>)
    OBVIOUS
  <1>1. slot(c)' = slot(c)
    BY SetupFrame
  <1>2. i[slot(c)] \in Nat /\ seqno[c] \in Nat /\ seqno[e] \in Nat /\ i[slot(c)] <= seqno[c]
    BY NumberTypes DEF counted
  <1>3. p \in Packet /\ p.from = e /\ p.data = <<seqno[e]>> /\ p.data[1] = seqno[e]
    <2>1. e \in End /\ <<seqno[e]>> \in Seq(Nat)
      BY <1>2, Ends
    <2> QED BY <1>b, <2>1 DEF packet, Packet
  <1>4. q[w] \in Seq(Packet) /\ q'[w] = Append(q[w], p)
    BY <1>b, Ends DEF pipeTypes
  <1>5. /\ Len(q'[w]) = k /\ Len(q[w]) \in Nat /\ q'[w][k] = p
        /\ \A n \in 1 .. Len(q[w]) : q'[w][n] = q[w][n]
    BY <1>a, <1>3, <1>4, AppendProperties
  <1>6. /\ \A n \in 1 .. Len(q[w]) : numberOf(w, n)' = numberOf(w, n)
        /\ numberOf(w, k)' = seqno[e]
    BY <1>3, <1>5 DEF numberOf
  <1>7. k \in Nat /\ k = Len(q[w]) + 1
    BY <1>a, <1>5
  <1>8. ASSUME NEW n \in 1 .. Len(q[w]), q[w][n].from = c
        PROVE  /\ peer[c] = w /\ q[w][n].data = <<numberOf(w, n)>>
               /\ numberOf(w, n) \in i[slot(c)] .. seqno[c] - 1
               /\ \A m \in 1 .. n - 1 : q[w][m].from = c => numberOf(w, m) < numberOf(w, n)
    BY <1>8, Zenon DEF lined
  <1>9. ASSUME NEW n \in 1 .. Len(q'[w]), q'[w][n].from = c
        PROVE  /\ peer'[c] = w /\ q'[w][n].data = <<numberOf(w, n)'>>
               /\ numberOf(w, n)' \in i'[slot(c)] .. seqno'[c] - 1
               /\ \A m \in 1 .. n - 1 : q'[w][m].from = c => numberOf(w, m)' < numberOf(w, n)'
    <2>1. CASE n \in 1 .. Len(q[w])
      <3>1. q'[w][n] = q[w][n] /\ numberOf(w, n)' = numberOf(w, n)
        BY <1>5, <1>6, <2>1
      <3>2. /\ peer[c] = w /\ q[w][n].data = <<numberOf(w, n)>>
            /\ numberOf(w, n) \in i[slot(c)] .. seqno[c] - 1
            /\ \A m \in 1 .. n - 1 : q[w][m].from = c => numberOf(w, m) < numberOf(w, n)
        BY <1>8, <1>9, <2>1, <3>1, Zenon
      <3>3. numberOf(w, n) \in i'[slot(c)] .. seqno'[c] - 1
        BY <1>2, <3>2
      <3>4. \A m \in 1 .. n - 1 : m \in 1 .. Len(q[w])
        BY <1>5, <2>1
      <3>5. \A m \in 1 .. n - 1 : q'[w][m] = q[w][m] /\ numberOf(w, m)' = numberOf(w, m)
        BY <1>5, <1>6, <3>4
      <3>6. \A m \in 1 .. n - 1 : q'[w][m].from = c => numberOf(w, m)' < numberOf(w, n)'
        BY <3>1, <3>2, <3>5
      <3> QED BY <3>1, <3>2, <3>3, <3>6, Zenon
    <2>2. CASE n = k
      <3>1. q'[w][n] = p /\ numberOf(w, n)' = seqno[e] /\ c = e
        BY <1>3, <1>5, <1>6, <1>9, <2>2
      <3>2. seqno[e] \in i'[slot(c)] .. seqno'[c] - 1
        BY <1>2, <3>1
      <3>3. ASSUME NEW m \in 1 .. n - 1, q'[w][m].from = c
            PROVE  numberOf(w, m)' < numberOf(w, n)'
        <4>1. m \in 1 .. Len(q[w])
          BY <1>5, <1>7, <2>2
        <4>2. q'[w][m] = q[w][m] /\ numberOf(w, m)' = numberOf(w, m)
          BY <1>5, <1>6, <4>1
        <4>3. numberOf(w, m) \in i[slot(c)] .. seqno[c] - 1
          BY <1>8, <3>3, <4>1, <4>2
        <4> QED BY <1>2, <3>1, <4>2, <4>3
      <3> QED BY <1>3, <3>1, <3>2, <3>3
    <2> QED BY <1>5, <1>7, <1>9, <2>1, <2>2
  <1> QED BY <1>1, <1>9, Zenon DEF lined

\* A message that is taken, from the end e of the sender c.
LEMMA LinedTake ==
  ASSUME pipeTypes, setup' = setup, NEW d \in Client, NEW w \in Worker, lined(d, w),
         q[w] # <<>>, q'[w] = Tail(q[w]), peer' = peer, seqno' = seqno, i'[slot(d)] \in Nat,
         Head(q[w]).from # d => i'[slot(d)] = i[slot(d)],
         Head(q[w]).from = d => i'[slot(d)] = numberOf(w, 1) + 1
  PROVE  lined(d, w)'
  <1>1. slot(d)' = slot(d)
    BY SetupFrame
  <1>2. i[slot(d)] \in Nat /\ seqno[d] \in Nat
    BY NumberTypes
  <1>3. /\ Head(q[w]) = q[w][1] /\ Len(q[w]) \in Nat \ {0} /\ Len(q'[w]) = Len(q[w]) - 1
        /\ \A n \in 1 .. Len(q[w]) - 1 : q'[w][n] = q[w][n + 1]
    <2>1. q[w] \in Seq(Packet)
      BY Ends DEF pipeTypes
    <2>2. /\ Head(q[w]) = q[w][1] /\ Len(q[w]) \in Nat \ {0} /\ Len(Tail(q[w])) = Len(q[w]) - 1
          /\ \A n \in 1 .. Len(q[w]) - 1 : Tail(q[w])[n] = q[w][n + 1]
      BY <2>1, HeadTailProperties
    <2> QED BY <2>2
  <1>4. ASSUME NEW n \in 1 .. Len(q[w]), q[w][n].from = d
        PROVE  /\ peer[d] = w /\ q[w][n].data = <<numberOf(w, n)>>
               /\ numberOf(w, n) \in i[slot(d)] .. seqno[d] - 1
               /\ \A m \in 1 .. n - 1 : q[w][m].from = d => numberOf(w, m) < numberOf(w, n)
    BY <1>4, Zenon DEF lined
  <1>5. ASSUME NEW n \in 1 .. Len(q'[w]), q'[w][n].from = d
        PROVE  /\ peer'[d] = w /\ q'[w][n].data = <<numberOf(w, n)'>>
               /\ numberOf(w, n)' \in i'[slot(d)] .. seqno'[d] - 1
               /\ \A m \in 1 .. n - 1 : q'[w][m].from = d => numberOf(w, m)' < numberOf(w, n)'
    <2>1. n + 1 \in 1 .. Len(q[w]) /\ q'[w][n] = q[w][n + 1]
      BY <1>3
    <2>2. numberOf(w, n)' = numberOf(w, n + 1)
      BY <2>1 DEF numberOf
    <2>3. /\ peer[d] = w /\ q[w][n + 1].data = <<numberOf(w, n + 1)>>
          /\ numberOf(w, n + 1) \in i[slot(d)] .. seqno[d] - 1
          /\ \A m \in 1 .. (n + 1) - 1 : q[w][m].from = d => numberOf(w, m) < numberOf(w, n + 1)
      BY <1>4, <1>5, <2>1
    <2>4. numberOf(w, n + 1) \in i'[slot(d)] .. seqno'[d] - 1
      <3>1. CASE Head(q[w]).from # d
        BY <1>2, <2>3, <3>1
      <3>2. CASE Head(q[w]).from = d
        <4>1. 1 \in 1 .. (n + 1) - 1 /\ 1 \in 1 .. Len(q[w]) /\ q[w][1].from = d
          BY <1>3, <3>2
        <4>2. numberOf(w, 1) < numberOf(w, n + 1)
          BY <2>3, <4>1
        <4>3. numberOf(w, 1) \in i[slot(d)] .. seqno[d] - 1
          BY <1>4, <4>1
        <4> QED BY <1>2, <2>3, <3>2, <4>2, <4>3
      <3> QED BY <3>1, <3>2
    <2>5. ASSUME NEW m \in 1 .. n - 1, q'[w][m].from = d PROVE numberOf(w, m)' < numberOf(w, n)'
      <3>1. m + 1 \in 1 .. (n + 1) - 1 /\ q'[w][m] = q[w][m + 1]
        BY <1>3, <2>1
      <3>2. numberOf(w, m)' = numberOf(w, m + 1)
        BY <3>1 DEF numberOf
      <3> QED BY <2>2, <2>3, <2>5, <3>1, <3>2
    <2> QED BY <2>1, <2>2, <2>3, <2>4, <2>5
  <1> QED BY <1>1, <1>5, Zenon DEF lined

\* Every worker is sent to by clients only.
senders == \A w \in Worker : \A n \in 1 .. Len(q[w]) : q[w][n].from \in Client

\* The queues go on holding only messages of clients.
LEMMA SendersKeep ==
  ASSUME pipeTypes, senders,
         \A w \in Worker :
           \/ q'[w] = q[w] \/ q'[w] = <<>> \/ (q[w] # <<>> /\ q'[w] = Tail(q[w]))
           \/ \E c \in Client : \E d \in Seq(Nat) : q'[w] = Append(q[w], packet(c, d))
  PROVE  senders'
  <1>1. SUFFICES ASSUME NEW w \in Worker, NEW n \in 1 .. Len(q'[w])
                 PROVE  q'[w][n].from \in Client
    BY DEF senders
  <1>2. q[w] \in Seq(Packet) /\ \A m \in 1 .. Len(q[w]) : q[w][m].from \in Client
    BY Ends DEF pipeTypes, senders
  <1>3. CASE q'[w] = q[w] \/ q'[w] = <<>>
    BY <1>1, <1>2, <1>3
  <1>4. CASE q[w] # <<>> /\ q'[w] = Tail(q[w])
    <2>1. /\ Len(q[w]) \in Nat \ {0} /\ Len(q'[w]) = Len(q[w]) - 1
          /\ \A m \in 1 .. Len(q[w]) - 1 : q'[w][m] = q[w][m + 1]
      BY <1>2, <1>4, HeadTailProperties
    <2>2. n + 1 \in 1 .. Len(q[w]) /\ q'[w][n] = q[w][n + 1]
      BY <2>1
    <2> QED BY <1>2, <2>2
  <1>5. ASSUME NEW c \in Client, NEW d \in Seq(Nat), q'[w] = Append(q[w], packet(c, d))
        PROVE  q'[w][n].from \in Client
    <2>1. packet(c, d) \in Packet /\ packet(c, d).from = c
      BY Ends DEF packet, Packet
    <2>2. /\ Len(q'[w]) = Len(q[w]) + 1 /\ Len(q[w]) \in Nat
          /\ q'[w][Len(q[w]) + 1] = packet(c, d)
          /\ \A m \in 1 .. Len(q[w]) : q'[w][m] = q[w][m]
      BY <1>2, <1>5, <2>1, AppendProperties
    <2>3. n \in 1 .. Len(q[w]) \/ n = Len(q[w]) + 1
      BY <2>2
    <2> QED BY <1>2, <2>1, <2>2, <2>3
  <1> QED BY <1>3, <1>4, <1>5

\* Every step keeps the numbering of the generated messages.
LEMMA StepNumbers ==
  ASSUME PipeInv, Next, counting, RefsApart(setup)
  PROVE  senders' /\ \A c \in Client : numbersOK(c)'
  <1> USE DEF io, net, nums
  <1>a. pipeTypes /\ pipeTypes' /\ setup' = setup /\ bindOK
    BY StepTypes DEF PipeInv
  <1>b. senders /\ \A c \in Client : counted(c) /\ \A w \in Worker : lined(c, w)
    BY NumbersParts, Zenon DEF PipeInv, senders
  <1>c. \A e \in End : pc[e] \notin {"poll", "stdin", "write", "socket"}
    BY Numbering
  <1>d. \A w \in Worker : w \in End
    BY Ends
  <1>e. ASSUME NEW c \in Client, counted(c)', \A w \in Worker : lined(c, w)'
        PROVE  numbersOK(c)'
    BY <1>e, Zenon DEF numbersOK, counted, lined
  <1>f. \A c \in Client : slot(c)' = slot(c)
    BY <1>a, SetupFrame
  <1>g. \A c \in Client : seqno[c] \in Nat /\ seqno[c] <= seqno[c]
    BY <1>a, NumberTypes
  <1>h. ASSUME UNCHANGED nums, \A w \in Worker : q'[w] = q[w] \/ q'[w] = <<>>,
               \A c \in Client, w \in Worker : peer[c] = w => peer'[c] = w
        PROVE  senders' /\ \A c \in Client : numbersOK(c)'
    <2>1. senders'
      BY <1>a, <1>b, <1>h, SendersKeep, Zenon
    <2>2. ASSUME NEW c \in Client PROVE numbersOK(c)'
      <3>1. counted(c)'
        BY <1>b, <1>f, <1>h DEF counted
      <3>2. ASSUME NEW w \in Worker PROVE lined(c, w)'
        <4>1. seqno'[c] \in Nat /\ seqno[c] <= seqno'[c] /\ i' = i
          BY <1>g, <1>h
        <4> QED BY <1>a, <1>b, <1>h, <4>1, LinedFrame
      <3> QED BY <1>e, <3>1, <3>2
    <2> QED BY <2>1, <2>2
  <1>1. ASSUME NEW s \in Source, Feed(s) PROVE senders' /\ \A c \in Client : numbersOK(c)'
    <2>1. UNCHANGED <<nums, q, peer>>
      BY <1>1 DEF Feed
    <2> QED BY <1>h, <2>1
  <1>2. CASE run_server
    <2>1. UNCHANGED <<nums, q>> /\ server = "bind"
      BY <1>2 DEF run_server
    <2>2. \A e \in End : q[e] = <<>> /\ peer[e] = None
      BY <1>a, <2>1 DEF bindOK
    <2>3. \A c \in Client, w \in Worker : peer[c] # w
      BY <2>2, Ends
    <2> QED BY <1>h, <2>1, <2>3
  <1>3. CASE listen_accept_and_io
    <2>1. UNCHANGED <<nums, q>> /\ backlog # <<>> /\ connected
      BY <1>3, ServeDoes
    <2>2. PICK w \in Worker, c \in Client :
              /\ c = Head(backlog) /\ at(w, "unborn") /\ c \in End
              /\ \A y \in End : y \notin {c, w} => peer'[y] = peer[y]
      BY <1>3, ServeDoes, Zenon
    <2>3. peer[c] = None
      <3>1. backlog \in Seq(Client) /\ \A n \in 1 .. Len(backlog) : peer[backlog[n]] = None
        BY <2>1 DEF PipeInv, pipeTypes, listenOK
      <3>2. c = backlog[1] /\ 1 \in 1 .. Len(backlog)
        BY <2>1, <2>2, <3>1
      <3> QED BY <3>1, <3>2
    <2>4. \A d \in Client, v \in Worker : peer[d] = v => peer'[d] = v
      BY <2>2, <2>3, Ends
    <2> QED BY <1>h, <2>1, <2>4
  <1>4. CASE ServerExit
    <2>1. UNCHANGED <<nums, q, peer>>
      BY <1>4 DEF ServerExit
    <2> QED BY <1>h, <2>1
  <1>5. ASSUME NEW c \in Client, Open(c) \/ ConnectTimeout(c)
        PROVE  senders' /\ \A d \in Client : numbersOK(d)'
    <2>1. UNCHANGED <<nums, q, peer>>
      BY <1>5 DEF Open, run_client, Connected, ConnectTimeout
    <2> QED BY <1>h, <2>1
  <1>6. ASSUME NEW e \in End, Leave(e) PROVE senders' /\ \A c \in Client : numbersOK(c)'
    <2>1. UNCHANGED <<nums, peer>> /\ q'[e] = <<>> /\ \A y \in End : y # e => q'[y] = q[y]
      BY <1>6, LeaveDoes
    <2>2. \A w \in Worker : q'[w] = q[w] \/ q'[w] = <<>>
      BY <1>d, <2>1
    <2> QED BY <1>h, <2>1, <2>2
  <1>7. ASSUME NEW e \in End, generate_data(e) PROVE senders' /\ \A c \in Client : numbersOK(c)'
    <2>1. /\ UNCHANGED <<i, lost, got, peer>> /\ e \in Client
          /\ \/ /\ wrote(e, <<seqno[e]>>) /\ seqno'[e] = seqno[e] + 1
                /\ \A c \in Client : c # e => seqno'[c] = seqno[c]
             \/ UNCHANGED <<q, seqno>>
      BY <1>7, GenerateDoes, Zenon
    <2>2. CASE UNCHANGED <<q, seqno>>
      BY <1>h, <2>1, <2>2
    <2>3. CASE /\ wrote(e, <<seqno[e]>>) /\ seqno'[e] = seqno[e] + 1
               /\ \A c \in Client : c # e => seqno'[c] = seqno[c]
      <3>1. \A w \in Worker : \/ q'[w] = q[w]
                              \/ w = peer[e] /\ q'[w] = Append(q[w], packet(e, <<seqno[e]>>))
        BY <1>d, <2>3 DEF wrote
      <3>2. <<seqno[e]>> \in Seq(Nat)
        BY <1>g, <2>1
      <3>3. senders'
        BY <1>a, <1>b, <2>1, <3>1, <3>2, SendersKeep, Zenon
      <3>4. ASSUME NEW c \in Client PROVE numbersOK(c)'
        <4>1. /\ seqno[c] \in Nat /\ seqno'[c] \in Nat /\ seqno[c] <= seqno'[c]
              /\ i[slot(c)] \in Nat
          BY <1>a, <1>g, <2>1, <2>3, NumberTypes
        <4>2. counted(c)'
          <5>1. counted(c)
            BY <1>b
          <5>2. i[slot(c)] <= seqno'[c]
            BY <4>1, <5>1 DEF counted
          <5> QED BY <1>f, <2>1, <5>1, <5>2 DEF counted
        <4>3. ASSUME NEW w \in Worker PROVE lined(c, w)'
          <5>0. lined(c, w) /\ counted(c)
            BY <1>b
          <5>1. CASE q'[w] = q[w]
            BY <1>a, <2>1, <4>1, <5>0, <5>1, LinedFrame
          <5>2. CASE w = peer[e] /\ q'[w] = Append(q[w], packet(e, <<seqno[e]>>))
            BY <1>a, <2>1, <2>3, <5>0, <5>2, LinedAppend
          <5> QED BY <3>1, <5>1, <5>2
        <4> QED BY <1>e, <4>2, <4>3
      <3> QED BY <3>3, <3>4
    <2> QED BY <2>1, <2>2, <2>3
  <1>8. ASSUME NEW e \in End, check_generated_data(e)
        PROVE  senders' /\ \A c \in Client : numbersOK(c)'
    <2>1. UNCHANGED <<peer, seqno>> /\ e \in Worker
      BY <1>8, CheckDoes, Zenon
    <2>2. CASE UNCHANGED <<i, lost, got, q>>
      BY <1>h, <2>1, <2>2
    <2>3. CASE LET c == Head(q[e]).from
                   seq == Head(received(e))
               IN  /\ q[e] # <<>> /\ took(e)
                   /\ \E v \in expected(c) : lost' = [lost EXCEPT ![c] = @ + seq - v]
                   /\ i' = [i EXCEPT ![slot(c)] = seq + 1]
                   /\ got' = [got EXCEPT ![c] = @ + Len(received(e))]
      <3>1. q[e] # <<>> /\ q[e] \in Seq(Packet)
        BY <1>a, <2>3 DEF pipeTypes
      <3>2. received(e) = Head(q[e]).data /\ unread(e) = Tail(q[e])
        <4>1. setup.sock_type # "STREAM"
          BY DEF counting
        <4> QED BY <3>1, <4>1 DEF received, unread
      <3>3. Head(q[e]) = q[e][1] /\ 1 \in 1 .. Len(q[e])
        BY <3>1
      <3>4. PICK c \in Client : c = Head(q[e]).from
        BY <1>b, <2>1, <3>3 DEF senders
      <3>5. /\ peer[c] = e /\ Head(q[e]).data = <<numberOf(e, 1)>>
            /\ numberOf(e, 1) \in i[slot(c)] .. seqno[c] - 1
        BY <1>b, <2>1, <3>3, <3>4 DEF lined
      <3>6. PICK k \in Nat : k = numberOf(e, 1) /\ i[slot(c)] <= k /\ k <= seqno[c] - 1
        BY <1>a, <3>5, NumberTypes
      <3>7. Head(received(e)) = k /\ Len(received(e)) = 1
        <4>1. received(e) = <<k>>
          BY <3>2, <3>5, <3>6, Zenon
        <4> QED BY <4>1
      <3>8. /\ lost' = [lost EXCEPT ![c] = @ + k - i[slot(c)]]
            /\ i' = [i EXCEPT ![slot(c)] = k + 1]
            /\ got' = [got EXCEPT ![c] = @ + 1]
            /\ q'[e] = Tail(q[e]) /\ \A y \in End : y # e => q'[y] = q[y]
        <4>1. slot(c) < MAP_EXPECTED_SEQUENCE_NUMBERS
          BY DEF RefsApart, slot
        <4>2. expected(c) = {i[slot(c)]}
          BY <4>1 DEF expected
        <4> QED BY <2>3, <3>2, <3>4, <3>7, <4>2 DEF took
      <3>9. /\ lost'[c] = lost[c] + k - i[slot(c)] /\ i'[slot(c)] = k + 1 /\ got'[c] = got[c] + 1
            /\ \A d \in Client : d # c => lost'[d] = lost[d] /\ got'[d] = got[d]
            /\ \A d \in Client : slot(d) # slot(c) => i'[slot(d)] = i[slot(d)]
        BY <1>a, <3>8, NumberTypes DEF pipeTypes
      <3>10. \A d \in Client : d # c => slot(d) # slot(c)
        BY DEF RefsApart, slot
      <3>11. senders'
        BY <1>a, <1>b, <1>d, <3>1, <3>8, SendersKeep
      <3>12. ASSUME NEW d \in Client PROVE numbersOK(d)'
        <4>0. counted(d) /\ \A w \in Worker : lined(d, w)
          BY <1>b
        <4>1. counted(d)'
          <5>1. /\ lost[d] \in Int /\ got[d] \in Nat /\ i[slot(d)] \in Nat /\ seqno[d] \in Nat
                /\ lost[d] >= 0 /\ lost[d] + got[d] = i[slot(d)] /\ i[slot(d)] <= seqno[d]
            BY <1>a, <4>0, NumberTypes DEF counted
          <5>2. CASE d = c
            <6>1. /\ lost'[d] >= 0 /\ lost'[d] + got'[d] = i'[slot(d)] /\ i'[slot(d)] <= seqno'[d]
              BY <2>1, <3>6, <3>9, <5>1, <5>2
            <6> QED BY <1>f, <6>1 DEF counted
          <5>3. CASE d # c
            <6>1. /\ lost'[d] >= 0 /\ lost'[d] + got'[d] = i'[slot(d)] /\ i'[slot(d)] <= seqno'[d]
              BY <2>1, <3>9, <3>10, <5>1, <5>3
            <6> QED BY <1>f, <6>1 DEF counted
          <5> QED BY <5>2, <5>3
        <4>2. ASSUME NEW w \in Worker PROVE lined(d, w)'
          <5>1. i'[slot(d)] \in Nat /\ i[slot(d)] \in Nat /\ seqno[d] \in Nat
            BY <1>a, <3>6, <3>9, <3>10, NumberTypes
          <5>2. CASE w = e
            BY <1>a, <2>1, <3>1, <3>4, <3>6, <3>8, <3>9, <3>10, <4>0, <5>1, <5>2, LinedTake
          <5>3. CASE w # e /\ d # c
            <6>1. q'[w] = q[w] /\ i'[slot(d)] = i[slot(d)]
              BY <1>d, <3>8, <3>9, <3>10, <5>3
            <6> QED BY <1>a, <1>g, <2>1, <4>0, <6>1, LinedFrame
          <5>4. CASE w # e /\ d = c
            <6>1. q'[w] = q[w]
              BY <1>d, <3>8, <5>4
            <6>2. \A n \in 1 .. Len(q[w]) : q[w][n].from # c
              BY <3>5, <4>0, <5>4 DEF lined
            <6> QED BY <5>4, <6>1, <6>2 DEF lined
          <5> QED BY <5>2, <5>3, <5>4
        <4> QED BY <1>e, <4>1, <4>2
      <3> QED BY <3>11, <3>12
    <2>4. \/ UNCHANGED <<i, lost, got, q>>
          \/ LET c == Head(q[e]).from
                 seq == Head(received(e))
             IN  /\ q[e] # <<>> /\ took(e)
                 /\ \E v \in expected(c) : lost' = [lost EXCEPT ![c] = @ + seq - v]
                 /\ i' = [i EXCEPT ![slot(c)] = seq + 1]
                 /\ got' = [got EXCEPT ![c] = @ + Len(received(e))]
      BY <1>8, CheckDoes, Zenon
    <2> QED BY <2>2, <2>3, <2>4, Zenon
  <1>9. ASSUME NEW e \in End, Poll(e) \/ ReadStdin(e) \/ Write(e) \/ ReadSocket(e) PROVE FALSE
    BY <1>c, <1>9 DEF Poll, ReadStdin, Write, ReadSocket, at
  <1> QED BY <1>1, <1>2, <1>3, <1>4, <1>5, <1>6, <1>7, <1>8, <1>9, Zenon DEF Next, Work, Serve

-----------------------------------------------------------------------------
(***************************************************************************)
(* The invariant, and what follows from it.                                *)
(***************************************************************************)

\* The invariant holds at the start.
LEMMA InitInv == Init => PipeInv
  <1> SUFFICES ASSUME Init PROVE PipeInv
    OBVIOUS
  <1>1. pipeTypes
    BY InitTypes
  <1>2. /\ \A e \in End : /\ rev[e] = {} /\ held[e] = <<>> /\ data_in_len[e] = 0 /\ q[e] = <<>>
                          /\ pair[e] = <<>> /\ conn[e] = "no" /\ peer[e] = None
                          /\ out[e] = <<>> /\ copy[e] = <<>>
        /\ server = "bind" /\ backlog = <<>>
    BY DEF Init
  <1>3. /\ \A c \in Client : pc[c] \in {"start", "exit"} /\ c \in End /\ c \notin Worker
        /\ \A w \in Worker : pc[w] = "unborn" /\ w \in End /\ w \notin Client
    <2>1. setup.clients \subseteq Client
      <3>1. setup \in Setup
        BY PipeAssumption DEF Init
      <3> QED BY <3>1 DEF Setup
    <2> QED BY <2>1, Ends DEF Init
  <1>4. \A s \in Source : inputOf(s)
    <2>1. SUFFICES ASSUME NEW s \in Source PROVE fed[s] \o coming[s] = setup.input[s]
      BY DEF inputOf
    <2>2. setup.input[s] \in Bytes
      BY SetupFacts DEF Init, Bytes
    <2>3. \/ fed[s] = setup.input[s] /\ coming[s] = <<>>
          \/ fed[s] = <<>> /\ coming[s] = setup.input[s]
      BY DEF Init
    <2> QED BY <2>2, <2>3, Unit, Zenon
  <1>5. bindOK
    BY <1>2, <1>3, Zenon DEF bindOK, at
  <1>6. ASSUME NEW e \in End PROVE labelOK(e)
    BY <1>3, Ends DEF labelOK
  <1>7. ASSUME NEW e \in End PROVE freshOK(e)
    BY <1>2, <1>4, Ends, Zenon DEF freshOK
  <1>8. \A c \in Client : seqno[c] <= setup.data_num
    BY SetupFacts DEF Init
  <1>9. listenOK
    BY <1>2, <1>3 DEF listenOK, at
  <1>10. unreadOK
    BY <1>4 DEF unreadOK, Source
  <1>11. Conserved
    BY <1>2 DEF Conserved
  <1>12. ASSUME NEW e \in End PROVE linkOK(e)
    <2>1. e \in Worker => pc[e] = "unborn"
      BY <1>3
    <2>2. conn[e] # "up" /\ conn[e] # "syn" /\ conn[e] \in {"no", "syn"} /\ 1 .. Len(backlog) = {}
      BY <1>2
    <2> QED BY <1>2, <2>1, <2>2, Zenon DEF linkOK, at
  <1>13. ASSUME NEW e \in End PROVE copiedOK(e)
    <2>1. SUFFICES ASSUME pc[e] # "unborn"
                   PROVE  copy[e] \o pair[e] \o held[e] \o fed[stdin(e)] \o coming[stdin(e)]
                            = setup.input[stdin(e)]
      BY DEF copiedOK
    <2>2. inputOf(stdin(e)) /\ fed[stdin(e)] \in Bytes
      BY <1>1, <1>4, Ends, FlowTypes
    <2>3. <<>> \o <<>> = <<>> /\ <<>> \o fed[stdin(e)] = fed[stdin(e)]
      BY <2>2, BytesConcat
    <2> QED BY <1>2, <2>2, <2>3, Zenon DEF inputOf
  <1>14. ASSUME NEW e \in End PROVE roundOK(e)
    <2>1. pc[e] \in {"unborn", "start", "exit"}
      BY <1>3, Ends
    <2>2. Len(<<>>) = 0 /\ 0 <= Window /\ 0 <= buf_size
      BY PipeAssumption
    <2> QED BY <1>2, <2>1, <2>2 DEF roundOK, at
  <1>15. LeavesClean
    BY <1>2 DEF LeavesClean
  <1>16. ASSUME NEW e \in End PROVE fullOK(e)
    BY <1>2 DEF fullOK
  <1>17. \A w \in Worker : \A n \in 1 .. Len(q[w]) : q[w][n].from \in Client
    BY <1>2, <1>3
  <1>18. ASSUME NEW c \in Client PROVE numbersOK(c)
    <2>1. lost[c] = 0 /\ got[c] = 0 /\ i[slot(c)] = 0 /\ seqno[c] = 0
      BY DEF Init
    <2>2. counted(c)
      BY <2>1 DEF counted
    <2>3. \A w \in Worker : lined(c, w)
      BY <1>2, <1>3 DEF lined
    <2> QED BY <2>2, <2>3, NumbersParts
  <1> QED BY <1>1, <1>5, <1>6, <1>7, <1>8, <1>9, <1>10, <1>11, <1>12, <1>13, <1>14, <1>15, <1>16,
             <1>17, <1>18, Zenon DEF PipeInv

\* Every step keeps the invariant.
LEMMA StepInv == PipeInv /\ [Next]_vars => PipeInv'
  <1>1. ASSUME PipeInv, Next PROVE PipeInv'
    <2>1. setup' = setup /\ pipeTypes' /\ connected' = connected /\ counting' = counting
      BY <1>1, StepTypes, SetupFrame
    <2>2. bindOK' /\ \A c \in Client : (seqno[c] <= setup.data_num)'
      BY <1>1, StepBind
    <2>3. \A e \in End : labelOK(e)' /\ freshOK(e)'
      BY <1>1, StepFresh
    <2>4. ASSUME connected
          PROVE  /\ listenOK' /\ unreadOK' /\ Conserved'
                 /\ \A e \in End : linkOK(e)' /\ copiedOK(e)' /\ roundOK(e)'
                 /\ NoEmpty(setup) => LeavesClean' /\ \A e \in End : fullOK(e)'
      <3>1. listenOK' /\ \A e \in End : linkOK(e)'
        BY <1>1, <2>4, StepLink
      <3>2. unreadOK' /\ Conserved'
        BY <1>1, <2>4, StepUnread, StepConserved
      <3>3. \A e \in End : copiedOK(e)' /\ roundOK(e)'
        BY <1>1, <2>4, StepCopied, StepRound
      <3>4. NoEmpty(setup) => LeavesClean' /\ \A e \in End : fullOK(e)'
        BY <1>1, <2>4, StepClean, StepFull
      <3> QED BY <3>1, <3>2, <3>3, <3>4, Zenon
    <2>5. ASSUME counting, RefsApart(setup)
          PROVE  /\ (\A w \in Worker : \A n \in 1 .. Len(q[w]) : q[w][n].from \in Client)'
                 /\ \A c \in Client : numbersOK(c)'
      BY <1>1, <2>5, StepNumbers DEF senders
    <2>6. NoEmpty(setup)' = NoEmpty(setup) /\ RefsApart(setup)' = RefsApart(setup)
      BY <2>1
    <2> QED BY <2>1, <2>2, <2>3, <2>4, <2>5, <2>6, Zenon DEF PipeInv
  <1>2. ASSUME PipeInv, UNCHANGED vars PROVE PipeInv'
    <2>1. UNCHANGED <<setup, fed, coming, pc, rev, held, data_in_len, pair, out, copy, q, conn, peer,
                      backlog, seqno, i, lost, got, server>>
      BY <1>2 DEF vars, io, net, nums
    <2>2. /\ connected' = connected /\ counting' = counting
          /\ \A e : /\ data_io(e)' = data_io(e) /\ modeLabels(e)' = modeLabels(e)
                    /\ pipes(e)' = pipes(e) /\ alone(e)' = alone(e) /\ kind(e)' = kind(e)
                    /\ slot(e)' = slot(e) /\ stdin(e)' = stdin(e)
      BY <2>1, SetupFrame DEF stdin
    <2>3. pipeTypes' = pipeTypes
      BY <2>1 DEF pipeTypes, slot
    <2>4. bindOK' = bindOK /\ listenOK' = listenOK /\ unreadOK' = unreadOK
      BY <2>1 DEF bindOK, listenOK, unreadOK, inputOf, at
    <2>5. \A e : labelOK(e)' = labelOK(e) /\ freshOK(e)' = freshOK(e)
      BY <2>1, <2>2 DEF labelOK, freshOK, inputOf, at
    <2>6. \A e : linkOK(e)' = linkOK(e) /\ fullOK(e)' = fullOK(e)
      BY <2>1 DEF linkOK, fullOK, at
    <2>7. \A e : copiedOK(e)' = copiedOK(e)
      BY <2>1, <2>2 DEF copiedOK
    <2>8. \A e : roundOK(e)' = roundOK(e)
      BY <2>1, <2>2 DEF roundOK, at
    <2>9. Conserved' = Conserved
      BY <2>1, <2>2 DEF Conserved, bytes
    <2>10. LeavesClean' = LeavesClean
      BY <2>1, <2>2 DEF LeavesClean, at
    <2>11. \A c : numbersOK(c)' = numbersOK(c)
      BY <2>1, <2>2 DEF numbersOK, numberOf
    <2>12. NoEmpty(setup)' = NoEmpty(setup) /\ RefsApart(setup)' = RefsApart(setup)
      BY <2>1
    <2> QED BY <1>2, <2>1, <2>2, <2>3, <2>4, <2>5, <2>6, <2>7, <2>8, <2>9, <2>10, <2>11, <2>12
            DEF PipeInv
  <1> QED BY <1>1, <1>2

\* The invariant of tipc-pipe: who is connected to whom, what each end has read,
\* sent, printed and copied, and the numbers of generated messages, for any
\* clients, workers and command lines, any size of a read and any window.
THEOREM PipeInductive == Spec => []PipeInv
  BY InitInv, StepInv, PTL DEF Spec

\* While a connection is up, what the other end has printed, what is in the
\* queue of its socket, what has been read and what is still to be read are the
\* input, in order: pipe_start loses, repeats and reorders nothing.
THEOREM PipeConserved == Spec => []Conserved
  <1>1. PipeInv => Conserved
    BY DEF PipeInv, Conserved, pipes
  <1> QED BY <1>1, PipeInductive, PTL

\* An end of pipe_start that leaves a connection which is still up has read its
\* input to the end, and printed all of it with --tee, if no message is empty.
THEOREM PipeLeavesClean ==
  ASSUME \A s \in Setups : NoEmpty(s)
  PROVE  Spec => []LeavesClean
  <1>1. PipeInv => LeavesClean
    <2>1. PipeInv => NoEmpty(setup)
      BY DEF PipeInv, pipeTypes
    <2> QED BY <2>1 DEF PipeInv, LeavesClean, pipes
  <1> QED BY <1>1, PipeInductive, PTL

\* The messages in the queues are numbered between what is expected and what
\* was generated.
LEMMA QueuedBound ==
  ASSUME PipeInv, counting, RefsApart(setup), NEW c \in Client
  PROVE  queued(c) \in Nat /\ queued(c) <= seqno[c] - i[slot(c)]
  <1> DEFINE P == places(c)
             T == i[slot(c)] .. seqno[c] - 1
             f == [x \in P |-> numberOf(x[1], x[2])]
  <1>1. \A w \in Worker : lined(c, w)
    BY NumbersParts, Zenon DEF PipeInv
  <1>2. i[slot(c)] \in Nat /\ seqno[c] \in Nat /\ i[slot(c)] <= seqno[c]
    <2>1. counted(c) /\ pipeTypes
      BY NumbersParts, Zenon DEF PipeInv
    <2> QED BY <2>1, NumberTypes DEF counted
  <1>3. ASSUME NEW x \in P
        PROVE  /\ x[1] \in Worker /\ x[2] \in 1 .. Len(q[x[1]]) /\ x = <<x[1], x[2]>>
               /\ q[x[1]][x[2]].from = c
    <2>1. /\ x \in Worker \X (1 .. Window) /\ x[2] <= Len(q[x[1]]) /\ q[x[1]][x[2]].from = c
      BY <1>3 DEF places
    <2>2. x[1] \in Worker /\ x[2] \in 1 .. Window /\ x = <<x[1], x[2]>>
      BY <2>1
    <2>3. Len(q[x[1]]) \in Nat
      BY <2>2, Ends DEF PipeInv, pipeTypes
    <2> QED BY <2>1, <2>2, <2>3, PipeAssumption
  <1>4. ASSUME NEW x \in P
        PROVE  /\ peer[c] = x[1] /\ numberOf(x[1], x[2]) \in T
               /\ \A m \in 1 .. x[2] - 1 :
                    q[x[1]][m].from = c => numberOf(x[1], m) < numberOf(x[1], x[2])
    BY <1>1, <1>3, Zenon DEF lined
  <1>5. \A x, y \in P : f[x] = f[y] => x = y
    <2>1. SUFFICES ASSUME NEW x \in P, NEW y \in P,
                          numberOf(x[1], x[2]) = numberOf(y[1], y[2])
                   PROVE  x = y
      OBVIOUS
    <2>2. x[1] = y[1]
      BY <1>4
    <2>3. x[2] \in Nat \ {0} /\ y[2] \in Nat \ {0}
      BY <1>3
    <2>4. numberOf(x[1], x[2]) \in Nat
      BY <1>2, <1>4
    <2>5. ~(x[2] < y[2])
      <3>1. SUFFICES ASSUME x[2] < y[2] PROVE FALSE
        OBVIOUS
      <3>2. x[2] \in 1 .. y[2] - 1
        BY <2>3, <3>1
      <3>3. q[y[1]][x[2]].from = c
        BY <1>3, <2>2
      <3>4. numberOf(y[1], x[2]) < numberOf(y[1], y[2])
        BY <1>4, <3>2, <3>3
      <3> QED BY <2>1, <2>2, <2>4, <3>4
    <2>6. ~(y[2] < x[2])
      <3>1. SUFFICES ASSUME y[2] < x[2] PROVE FALSE
        OBVIOUS
      <3>2. y[2] \in 1 .. x[2] - 1
        BY <2>3, <3>1
      <3>3. q[x[1]][y[2]].from = c
        BY <1>3, <2>2
      <3>4. numberOf(x[1], y[2]) < numberOf(x[1], x[2])
        BY <1>4, <3>2, <3>3
      <3> QED BY <2>1, <2>2, <2>4, <3>4
    <2>7. x[2] = y[2]
      BY <2>3, <2>5, <2>6
    <2> QED BY <1>3, <2>2, <2>7
  <1>6. f \in [P -> T]
    BY <1>4
  <1>7. f \in Injection(P, T)
    <2> HIDE DEF f, P, T
    <2> QED BY <1>5, <1>6 DEF Injection, IsInjective
  <1>8. IsFiniteSet(T) /\ Cardinality(T) = seqno[c] - i[slot(c)]
    <2>1. i[slot(c)] \in Int /\ seqno[c] - 1 \in Int
      BY <1>2
    <2>2. IsFiniteSet(T) /\ Cardinality(T) = IF i[slot(c)] > seqno[c] - 1 THEN 0
                                             ELSE (seqno[c] - 1) - i[slot(c)] + 1
      BY <2>1, FS_Interval
    <2> HIDE DEF T
    <2> QED BY <1>2, <2>2
  <1> HIDE DEF f, P, T
  <1>9. IsFiniteSet(P) /\ Cardinality(P) <= Cardinality(T)
    BY <1>7, <1>8, FS_Injection
  <1>10. Cardinality(P) \in Nat
    BY <1>9, FS_CardinalityType
  <1> QED BY <1>8, <1>9, <1>10 DEF P, queued

\* check_generated_data reports as lost no message that was not dropped, and
\* all of them once the last message has come, if every client has an entry of
\* its own inside the table: their references differ in the last byte and none
\* ends in 255.
THEOREM PipeLossTruth == Spec => []LossTruth
  <1>1. PipeInv => LossTruth
    <2>1. SUFFICES ASSUME PipeInv, counting, RefsApart(setup), NEW c \in Client
                   PROVE  /\ lost[c] \in 0 .. dropped(c)
                          /\ i[slot(c)] = seqno[c] => lost[c] = dropped(c)
      BY DEF LossTruth
    <2>2. pipeTypes
      BY <2>1 DEF PipeInv
    <2>3. queued(c) \in Nat /\ queued(c) <= seqno[c] - i[slot(c)]
      BY <2>1, <2>2, QueuedBound
    <2>4. counted(c)
      BY <2>1, <2>2, NumbersParts, Zenon DEF PipeInv
    <2>5. lost[c] \in Int /\ got[c] \in Nat /\ i[slot(c)] \in Nat /\ seqno[c] \in Nat
      BY <2>2, NumberTypes
    <2> QED BY <2>3, <2>4, <2>5 DEF dropped, counted
  <1> QED BY <1>1, PipeInductive, PTL
=============================================================================
