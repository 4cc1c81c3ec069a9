---------------------------- MODULE BlastProofs ----------------------------
(***************************************************************************)
(* Proofs about the two programs of multicast_blast.                       *)
(***************************************************************************)
EXTENDS BlastProps, FiniteSetTheorems, SequenceTheorems, TLAPS

-----------------------------------------------------------------------------
(***************************************************************************)
(* Counting in a queue.                                                    *)
(***************************************************************************)

\* The places up to i where a queue holds one of V.
marks(s, V, i) == {j \in 1 .. i : s[j] \in V}

LEMMA MarksFinite ==
  ASSUME NEW s, NEW V, NEW i \in Int
  PROVE  IsFiniteSet(marks(s, V, i)) /\ Cardinality(marks(s, V, i)) \in Nat
  <1>1. IsFiniteSet(1 .. i) /\ marks(s, V, i) \subseteq 1 .. i
    BY FS_Interval DEF marks
  <1> QED BY <1>1, FS_Subset, FS_CardinalityType

LEMMA MarksNone ==
  ASSUME NEW s, NEW V, NEW i \in Int, \A j \in 1 .. i : s[j] \notin V
  PROVE  Cardinality(marks(s, V, i)) = 0
  <1>1. marks(s, V, i) = {}
    BY DEF marks
  <1> QED BY <1>1, FS_EmptySet

LEMMA MarksAll ==
  ASSUME NEW s, NEW V, NEW i \in Nat, \A j \in 1 .. i : s[j] \in V
  PROVE  Cardinality(marks(s, V, i)) = i
  <1>1. marks(s, V, i) = 1 .. i
    BY DEF marks
  <1> QED BY <1>1, FS_Interval

\* What is appended is counted at the end.
LEMMA MarksAppend ==
  ASSUME NEW S, NEW s \in Seq(S), NEW e \in S, NEW V
  PROVE  /\ Append(s, e) \in Seq(S) /\ Len(Append(s, e)) = Len(s) + 1 /\ Len(s) \in Nat
         /\ \A i \in 0 .. Len(s) :
              Cardinality(marks(Append(s, e), V, i)) = Cardinality(marks(s, V, i))
         /\ Cardinality(marks(Append(s, e), V, Len(s) + 1))
              = Cardinality(marks(s, V, Len(s))) + (IF e \in V THEN 1 ELSE 0)
  <1>1. /\ Append(s, e) \in Seq(S) /\ Len(Append(s, e)) = Len(s) + 1 /\ Len(s) \in Nat
        /\ \A j \in 1 .. Len(s) : Append(s, e)[j] = s[j]
        /\ Append(s, e)[Len(s) + 1] = e
    OBVIOUS
  <1>2. \A i \in 0 .. Len(s) : marks(Append(s, e), V, i) = marks(s, V, i)
    BY <1>1 DEF marks
  <1>3. CASE e \in V
    <2>1. /\ marks(Append(s, e), V, Len(s) + 1) = marks(s, V, Len(s)) \cup {Len(s) + 1}
          /\ Len(s) + 1 \notin marks(s, V, Len(s))
      BY <1>1, <1>3 DEF marks
    <2>2. IsFiniteSet(marks(s, V, Len(s))) /\ Cardinality(marks(s, V, Len(s))) \in Nat
      BY <1>1, MarksFinite
    <2>3. Cardinality(marks(s, V, Len(s)) \cup {Len(s) + 1}) = Cardinality(marks(s, V, Len(s))) + 1
      BY <2>1, <2>2, FS_AddElement
    <2> QED BY <1>1, <1>2, <1>3, <2>1, <2>2, <2>3
  <1>4. CASE e \notin V
    <2>1. marks(Append(s, e), V, Len(s) + 1) = marks(s, V, Len(s))
      BY <1>1, <1>4 DEF marks
    <2>2. Cardinality(marks(s, V, Len(s))) \in Nat
      BY <1>1, MarksFinite
    <2> QED BY <1>1, <1>2, <1>4, <2>1, <2>2
  <1> QED BY <1>3, <1>4

\* Taking the head moves every place by one.
LEMMA MarksTail ==
  ASSUME NEW S, NEW s \in Seq(S), s # <<>>, NEW V
  PROVE  /\ Tail(s) \in Seq(S) /\ Head(s) \in S /\ Head(s) = s[1]
         /\ Len(s) \in Nat /\ Len(s) >= 1 /\ Len(Tail(s)) = Len(s) - 1
         /\ \A i \in 0 .. Len(Tail(s)) :
              Cardinality(marks(Tail(s), V, i)) + (IF Head(s) \in V THEN 1 ELSE 0)
                = Cardinality(marks(s, V, i + 1))
  <1>1. /\ Tail(s) \in Seq(S) /\ Head(s) \in S /\ Head(s) = s[1]
        /\ Len(s) \in Nat /\ Len(s) >= 1 /\ Len(Tail(s)) = Len(s) - 1
        /\ \A j \in 1 .. Len(Tail(s)) : Tail(s)[j] = s[j + 1]
    OBVIOUS
  <1>2. ASSUME NEW i \in 0 .. Len(Tail(s))
        PROVE  Cardinality(marks(Tail(s), V, i)) + (IF Head(s) \in V THEN 1 ELSE 0)
                 = Cardinality(marks(s, V, i + 1))
    <2> DEFINE T == marks(Tail(s), V, i)
               R == marks(s, V, i + 1) \ {1}
               f == [j \in T |-> j + 1]
    <2>1. \A j \in Int : j \in T <=> j + 1 \in R
      BY <1>1 DEF marks
    <2>2. T \subseteq Int /\ R \subseteq Int
      BY DEF marks
    <2>3. f \in Bijection(T, R)
      <3>1. f \in [T -> R] /\ \A a, b \in T : f[a] = f[b] => a = b
        BY <2>1, <2>2
      <3>2. \A r \in R : \E j \in T : f[j] = r
        <4>1. SUFFICES ASSUME NEW r \in R PROVE \E j \in T : f[j] = r
          OBVIOUS
        <4>2. r - 1 \in T /\ r - 1 + 1 = r
          BY <2>1, <2>2
        <4>3. f[r - 1] = r
          BY <4>2
        <4> QED BY <4>2, <4>3
      <3> QED BY <3>1, <3>2 DEF Bijection, Injection, Surjection, IsInjective
    <2>4. IsFiniteSet(T) /\ Cardinality(R) = Cardinality(T) /\ Cardinality(T) \in Nat
      <3>1. IsFiniteSet(T) /\ Cardinality(T) \in Nat
        BY MarksFinite
      <3>2. ExistsBijection(T, R)
        BY <2>3 DEF ExistsBijection
      <3> QED BY <3>1, <3>2, FS_Bijection
    <2>5. /\ IsFiniteSet(marks(s, V, i + 1)) /\ Cardinality(marks(s, V, i + 1)) \in Nat
          /\ 1 \in marks(s, V, i + 1) <=> Head(s) \in V
      <3>1. i + 1 \in Int /\ 1 \in 1 .. i + 1
        BY <1>1
      <3>2. 1 \in marks(s, V, i + 1) <=> Head(s) \in V
        BY <1>1, <3>1 DEF marks
      <3>3. IsFiniteSet(marks(s, V, i + 1)) /\ Cardinality(marks(s, V, i + 1)) \in Nat
        BY <3>1, MarksFinite
      <3> QED BY <3>2, <3>3
    <2>6. Cardinality(R) = IF Head(s) \in V THEN Cardinality(marks(s, V, i + 1)) - 1
                                            ELSE Cardinality(marks(s, V, i + 1))
      BY <2>5, FS_RemoveElement
    <2> HIDE DEF T, R
    <2>7. Cardinality(T) + (IF Head(s) \in V THEN 1 ELSE 0) = Cardinality(marks(s, V, i + 1))
      <3>1. CASE Head(s) \in V
        BY <2>4, <2>5, <2>6, <3>1
      <3>2. CASE Head(s) \notin V
        BY <2>4, <2>5, <2>6, <3>2
      <3> QED BY <3>1, <3>2
    <2> QED BY <2>7 DEF T
  <1> QED BY <1>1, <1>2

\* The two kinds of event, and the requests and the messages of one member
\* among those of an inbox.
LEMMA MarksOfEvents ==
  ASSUME NEW s \in Seq(BOOLEAN), NEW i \in 0 .. Len(s)
  PROVE  /\ {j \in 1 .. i : s[j]} = marks(s, {TRUE}, i)
         /\ {j \in 1 .. i : ~ s[j]} = marks(s, {FALSE}, i)
  <1>1. \A j \in 1 .. i : s[j] \in BOOLEAN
    <2>1. \A j \in 1 .. i : j \in 1 .. Len(s)
      OBVIOUS
    <2> QED BY <2>1
  <1>2. \A j \in 1 .. i : (s[j] \in {TRUE} <=> s[j]) /\ (s[j] \in {FALSE} <=> ~ s[j])
    BY <1>1, Zenon
  <1> QED BY <1>2, Zenon DEF marks

LEMMA MarksOfLetters ==
  ASSUME NEW s \in Seq(Letter), NEW m
  PROVE  /\ {j \in 1 .. Len(s) : s[j].from = m} = marks(s, {h \in Letter : h.from = m}, Len(s))
         /\ {j \in 1 .. Len(s) : s[j].reply} = marks(s, {h \in Letter : h.reply}, Len(s))
  <1>1. \A j \in 1 .. Len(s) : s[j] \in Letter
    OBVIOUS
  <1> QED BY <1>1, Zenon DEF marks

-----------------------------------------------------------------------------
(***************************************************************************)
(* The count of members, the backlog and the requests of one queue.        *)
(***************************************************************************)

\* The count c once i of the events s are read, of which those in V add one and
\* those in W take one, and what CountTrue says of it.
after(s, V, W, c, i) == c + Cardinality(marks(s, V, i)) - Cardinality(marks(s, W, i))
leadsTo(s, V, W, c, n) ==
  /\ after(s, V, W, c, Len(s)) = n
  /\ \A i \in 0 .. Len(s) : after(s, V, W, c, i) \in 0 .. Cardinality(Member)

\* Messages of m in an inbox, and messages that ask for a reply.
lettersOf(s, m) == Cardinality(marks(s, {h \in Letter : h.from = m}, Len(s)))
requests(s) == Cardinality(marks(s, {h \in Letter : h.reply}, Len(s)))

\* A subscription reports the members one by one.
LEMMA CountFromNobody ==
  ASSUME NEW n \in 0 .. Cardinality(Member), Cardinality(Member) \in Nat,
         NEW s, Len(s) = n, NEW V, NEW W, \A j \in 1 .. n : s[j] \in V /\ s[j] \notin W
  PROVE  leadsTo(s, V, W, 0, n)
  <1>1. ASSUME NEW i \in 0 .. n PROVE after(s, V, W, 0, i) = i
    <2>1. \A j \in 1 .. i : s[j] \in V /\ s[j] \notin W
      OBVIOUS
    <2>2. Cardinality(marks(s, V, i)) = i
      BY <2>1, MarksAll
    <2>3. Cardinality(marks(s, W, i)) = 0
      BY <2>1, MarksNone
    <2> QED BY <2>2, <2>3 DEF after
  <1>2. after(s, V, W, 0, n) = n /\ \A i \in 0 .. n : after(s, V, W, 0, i) \in 0 .. Cardinality(Member)
    BY <1>1
  <1> QED BY <1>2 DEF leadsTo

\* Reading an event leaves the count it leads to.
LEMMA CountRead ==
  ASSUME NEW S, NEW s \in Seq(S), s # <<>>, NEW V, NEW W, NEW c \in Int, NEW n,
         leadsTo(s, V, W, c, n), NEW d \in Int,
         \/ Head(s) \in V /\ Head(s) \notin W /\ d = c + 1
         \/ Head(s) \notin V /\ Head(s) \in W /\ d = c - 1
  PROVE  Tail(s) \in Seq(S) /\ leadsTo(Tail(s), V, W, d, n)
  <1>1. /\ Tail(s) \in Seq(S) /\ Len(s) \in Nat /\ Len(s) >= 1 /\ Len(Tail(s)) = Len(s) - 1
    BY MarksTail
  <1>2. ASSUME NEW i \in 0 .. Len(Tail(s))
        PROVE  after(Tail(s), V, W, d, i) = after(s, V, W, c, i + 1)
    <2>1. i \in Int
      OBVIOUS
    <2>2. Cardinality(marks(Tail(s), V, i)) \in Nat /\ Cardinality(marks(Tail(s), W, i)) \in Nat
      BY <2>1, MarksFinite
    <2>3. Cardinality(marks(Tail(s), V, i)) + (IF Head(s) \in V THEN 1 ELSE 0) = Cardinality(marks(s, V, i + 1))
      BY MarksTail
    <2>4. Cardinality(marks(Tail(s), W, i)) + (IF Head(s) \in W THEN 1 ELSE 0) = Cardinality(marks(s, W, i + 1))
      BY MarksTail
    <2>5. CASE Head(s) \in V /\ Head(s) \notin W /\ d = c + 1
      BY <2>2, <2>3, <2>4, <2>5 DEF after
    <2>6. CASE Head(s) \notin V /\ Head(s) \in W /\ d = c - 1
      BY <2>2, <2>3, <2>4, <2>6 DEF after
    <2> QED BY <2>5, <2>6
  <1>3. after(Tail(s), V, W, d, Len(Tail(s))) = n
    <2>1. Len(Tail(s)) \in 0 .. Len(Tail(s)) /\ Len(Tail(s)) + 1 = Len(s)
      BY <1>1
    <2>2. after(Tail(s), V, W, d, Len(Tail(s))) = after(s, V, W, c, Len(Tail(s)) + 1)
      BY <1>2, <2>1
    <2> QED BY <2>1, <2>2 DEF leadsTo
  <1>4. \A i \in 0 .. Len(Tail(s)) : after(Tail(s), V, W, d, i) \in 0 .. Cardinality(Member)
    <2>1. \A i \in 0 .. Len(Tail(s)) : i + 1 \in 0 .. Len(s)
      BY <1>1
    <2> QED BY <1>2, <2>1 DEF leadsTo
  <1> QED BY <1>1, <1>3, <1>4 DEF leadsTo

\* An event adds to what the count leads to, or takes from it.
LEMMA CountReport ==
  ASSUME NEW S, NEW s \in Seq(S), NEW V, NEW W, NEW c \in Int, NEW n \in Int,
         leadsTo(s, V, W, c, n), NEW e \in S, Cardinality(Member) \in Nat,
         NEW k \in 0 .. Cardinality(Member),
         \/ e \in V /\ e \notin W /\ k = n + 1
         \/ e \notin V /\ e \in W /\ k = n - 1
  PROVE  Append(s, e) \in Seq(S) /\ leadsTo(Append(s, e), V, W, c, k)
  <1>1. Append(s, e) \in Seq(S) /\ Len(Append(s, e)) = Len(s) + 1 /\ Len(s) \in Nat
    BY MarksAppend
  <1>2. \A i \in 0 .. Len(s) : after(Append(s, e), V, W, c, i) = after(s, V, W, c, i)
    <2>1. \A i \in 0 .. Len(s) : Cardinality(marks(Append(s, e), V, i)) = Cardinality(marks(s, V, i))
      BY MarksAppend
    <2>2. \A i \in 0 .. Len(s) : Cardinality(marks(Append(s, e), W, i)) = Cardinality(marks(s, W, i))
      BY MarksAppend
    <2> QED BY <2>1, <2>2 DEF after
  <1>3. after(Append(s, e), V, W, c, Len(s) + 1) = k
    <2>1. /\ Cardinality(marks(s, V, Len(s))) \in Nat
          /\ Cardinality(marks(s, W, Len(s))) \in Nat
      BY <1>1, MarksFinite
    <2>2. c + Cardinality(marks(s, V, Len(s))) - Cardinality(marks(s, W, Len(s))) = n
      BY DEF leadsTo, after
    <2>3. Cardinality(marks(Append(s, e), V, Len(s) + 1))
            = Cardinality(marks(s, V, Len(s))) + (IF e \in V THEN 1 ELSE 0)
      BY MarksAppend
    <2>4. Cardinality(marks(Append(s, e), W, Len(s) + 1))
            = Cardinality(marks(s, W, Len(s))) + (IF e \in W THEN 1 ELSE 0)
      BY MarksAppend
    <2> QED BY <2>1, <2>2, <2>3, <2>4 DEF after
  <1>4. \A i \in 0 .. Len(s) + 1 : i \in 0 .. Len(s) \/ i = Len(s) + 1
    BY <1>1
  <1> QED BY <1>1, <1>2, <1>3, <1>4 DEF leadsTo

\* A letter more, a letter less.
LEMMA LettersMore ==
  ASSUME NEW s \in Seq(Letter), NEW h \in Letter, NEW m
  PROVE  /\ Append(s, h) \in Seq(Letter)
         /\ lettersOf(s, m) \in Nat /\ requests(s) \in Nat
         /\ h.from = m => lettersOf(Append(s, h), m) = lettersOf(s, m) + 1
         /\ h.from # m => lettersOf(Append(s, h), m) = lettersOf(s, m)
         /\ h.reply => requests(Append(s, h)) = requests(s) + 1
         /\ ~ h.reply => requests(Append(s, h)) = requests(s)
  <1>1. Append(s, h) \in Seq(Letter) /\ Len(Append(s, h)) = Len(s) + 1 /\ Len(s) \in Nat
    BY MarksAppend
  <1>2. lettersOf(s, m) \in Nat /\ requests(s) \in Nat
    BY <1>1, MarksFinite DEF lettersOf, requests
  <1>3. \A V : Cardinality(marks(Append(s, h), V, Len(s) + 1))
                 = Cardinality(marks(s, V, Len(s))) + (IF h \in V THEN 1 ELSE 0)
    BY MarksAppend
  <1>4. (h \in {g \in Letter : g.from = m} <=> h.from = m) /\ (h \in {g \in Letter : g.reply} <=> h.reply)
    BY Zenon
  <1>5. lettersOf(Append(s, h), m) = lettersOf(s, m) + (IF h \in {g \in Letter : g.from = m} THEN 1 ELSE 0)
    BY <1>1, <1>3 DEF lettersOf
  <1>6. requests(Append(s, h)) = requests(s) + (IF h \in {g \in Letter : g.reply} THEN 1 ELSE 0)
    BY <1>1, <1>3 DEF requests
  <1>7. h.from = m => lettersOf(Append(s, h), m) = lettersOf(s, m) + 1
    BY <1>4, <1>5
  <1>8. h.from # m => lettersOf(Append(s, h), m) = lettersOf(s, m)
    BY <1>2, <1>4, <1>5
  <1>9. h.reply => requests(Append(s, h)) = requests(s) + 1
    <2>1. h \in {g \in Letter : g.reply} => requests(Append(s, h)) = requests(s) + 1
      BY <1>6
    <2> QED BY <1>4, <2>1, Zenon
  <1>10. ~ h.reply => requests(Append(s, h)) = requests(s)
    <2>1. h \notin {g \in Letter : g.reply} => requests(Append(s, h)) = requests(s)
      BY <1>2, <1>6
    <2> QED BY <1>4, <2>1, Zenon
  <1> QED BY <1>1, <1>2, <1>7, <1>8, <1>9, <1>10

LEMMA LettersLess ==
  ASSUME NEW s \in Seq(Letter), s # <<>>, NEW m
  PROVE  /\ Tail(s) \in Seq(Letter) /\ Head(s) \in Letter
         /\ lettersOf(Tail(s), m) \in Nat /\ requests(Tail(s)) \in Nat
         /\ Head(s).from = m => lettersOf(s, m) = lettersOf(Tail(s), m) + 1
         /\ Head(s).from # m => lettersOf(s, m) = lettersOf(Tail(s), m)
         /\ Head(s).reply => requests(s) = requests(Tail(s)) + 1
         /\ ~ Head(s).reply => requests(s) = requests(Tail(s))
  <1>1. /\ Tail(s) \in Seq(Letter) /\ Head(s) \in Letter
        /\ Len(s) \in Nat /\ Len(s) >= 1 /\ Len(Tail(s)) = Len(s) - 1
    BY MarksTail
  <1>2. lettersOf(Tail(s), m) \in Nat /\ requests(Tail(s)) \in Nat
    BY <1>1, MarksFinite DEF lettersOf, requests
  <1>3. \A V : Cardinality(marks(Tail(s), V, Len(Tail(s)))) + (IF Head(s) \in V THEN 1 ELSE 0)
                 = Cardinality(marks(s, V, Len(s)))
    <2>1. Len(Tail(s)) \in 0 .. Len(Tail(s)) /\ Len(Tail(s)) + 1 = Len(s)
      BY <1>1
    <2>2. \A V : Cardinality(marks(Tail(s), V, Len(Tail(s)))) + (IF Head(s) \in V THEN 1 ELSE 0)
                   = Cardinality(marks(s, V, Len(Tail(s)) + 1))
      BY <2>1, MarksTail
    <2> QED BY <2>1, <2>2
  <1>4. /\ Head(s) \in {g \in Letter : g.from = m} <=> Head(s).from = m
        /\ Head(s) \in {g \in Letter : g.reply} <=> Head(s).reply
    BY <1>1, Zenon
  <1>5. lettersOf(Tail(s), m) + (IF Head(s) \in {g \in Letter : g.from = m} THEN 1 ELSE 0) = lettersOf(s, m)
    BY <1>3 DEF lettersOf
  <1>6. requests(Tail(s)) + (IF Head(s) \in {g \in Letter : g.reply} THEN 1 ELSE 0) = requests(s)
    BY <1>3 DEF requests
  <1>7. Head(s).from = m => lettersOf(s, m) = lettersOf(Tail(s), m) + 1
    BY <1>4, <1>5
  <1>8. Head(s).from # m => lettersOf(s, m) = lettersOf(Tail(s), m)
    BY <1>2, <1>4, <1>5
  <1>9. Head(s).reply => requests(s) = requests(Tail(s)) + 1
    <2>1. Head(s) \in {g \in Letter : g.reply} => requests(s) = requests(Tail(s)) + 1
      BY <1>6
    <2> QED BY <1>4, <2>1, Zenon
  <1>10. ~ Head(s).reply => requests(s) = requests(Tail(s))
    <2>1. Head(s) \notin {g \in Letter : g.reply} => requests(s) = requests(Tail(s))
      BY <1>2, <1>6
    <2> QED BY <1>4, <2>1, Zenon
  <1> QED BY <1>1, <1>2, <1>7, <1>8, <1>9, <1>10

LEMMA LettersNone ==
  ASSUME NEW m
  PROVE  lettersOf(<<>>, m) = 0 /\ requests(<<>>) = 0 /\ <<>> \in Seq(Letter)
  <1>1. Len(<<>>) = 0 /\ <<>> \in Seq(Letter)
    OBVIOUS
  <1>2. \A V : \A j \in 1 .. 0 : <<>>[j] \notin V
    OBVIOUS
  <1>3. \A V : Cardinality(marks(<<>>, V, 0)) = 0
    BY <1>2, MarksNone
  <1> QED BY <1>1, <1>3 DEF lettersOf, requests

-----------------------------------------------------------------------------
(***************************************************************************)
(* The conjuncts of GroupInv in these terms.                               *)
(***************************************************************************)
awake(m) == phase[m] \notin {"off", "dead"}

countsLead ==
  \A m \in Member : awake(m) =>
    leadsTo(evt[m], {TRUE}, {FALSE}, member_cnt[m], Cardinality(joined))

LEMMA CountIs ==
  groupTypes => (CountTrue <=> countsLead)
  <1> SUFFICES ASSUME groupTypes PROVE CountTrue <=> countsLead
    OBVIOUS
  <1>1. ASSUME NEW m \in Member, NEW i \in 0 .. Len(evt[m])
        PROVE  counted(m, i) = after(evt[m], {TRUE}, {FALSE}, member_cnt[m], i)
    <2>1. evt[m] \in Seq(BOOLEAN)
      BY DEF groupTypes
    <2>2. /\ {j \in 1 .. i : evt[m][j]} = marks(evt[m], {TRUE}, i)
          /\ {j \in 1 .. i : ~ evt[m][j]} = marks(evt[m], {FALSE}, i)
      BY <2>1, MarksOfEvents
    <2> QED BY <2>2, Zenon DEF counted, after
  <1>2. \A m \in Member : Len(evt[m]) \in 0 .. Len(evt[m])
    <2>1. \A m \in Member : evt[m] \in Seq(BOOLEAN)
      BY DEF groupTypes
    <2>2. \A s \in Seq(BOOLEAN) : Len(s) \in 0 .. Len(s)
      OBVIOUS
    <2> QED BY <2>1, <2>2, Zenon
  <1> QED BY <1>1, <1>2, Zenon DEF CountTrue, countsLead, awake, leadsTo

LEMMA CountIsNext ==
  groupTypes' => (CountTrue' <=> countsLead')
  BY CountIs, PTL

LEMMA QueuesAre ==
  groupTypes =>
    \A m \in Member :
      /\ \A x \in Member : backlogOf(m, x) = lettersOf(inbox[x], m)
      /\ Cardinality({i \in 1 .. Len(inbox[m]) : inbox[m][i].reply}) = requests(inbox[m])
  <1> SUFFICES ASSUME groupTypes, NEW m \in Member
               PROVE  /\ \A x \in Member : backlogOf(m, x) = lettersOf(inbox[x], m)
                      /\ Cardinality({i \in 1 .. Len(inbox[m]) : inbox[m][i].reply}) = requests(inbox[m])
    OBVIOUS
  <1>1. \A x \in Member : inbox[x] \in Seq(Letter)
    BY DEF groupTypes
  <1>2. \A x \in Member : {j \in 1 .. Len(inbox[x]) : inbox[x][j].from = m}
                            = marks(inbox[x], {h \in Letter : h.from = m}, Len(inbox[x]))
    BY <1>1, MarksOfLetters
  <1>3. {j \in 1 .. Len(inbox[m]) : inbox[m][j].reply}
          = marks(inbox[m], {h \in Letter : h.reply}, Len(inbox[m]))
    BY <1>1, MarksOfLetters
  <1> QED BY <1>2, <1>3, Zenon DEF backlogOf, lettersOf, requests

LEMMA QueuesAreNext ==
  groupTypes' =>
    \A m \in Member :
      /\ \A x \in Member : backlogOf(m, x)' = lettersOf(inbox'[x], m)
      /\ Cardinality({i \in 1 .. Len(inbox'[m]) : inbox'[m][i].reply}) = requests(inbox'[m])
  <1>1. (groupTypes =>
          \A m \in Member :
            /\ \A x \in Member : backlogOf(m, x) = lettersOf(inbox[x], m)
            /\ Cardinality({i \in 1 .. Len(inbox[m]) : inbox[m][i].reply}) = requests(inbox[m]))'
    BY QueuesAre, PTL
  <1> QED BY <1>1, Zenon

\* The messages of the others, numbered, are finitely many.
LEMMA SentFinite ==
  ASSUME NEW m \in Member
  PROVE  /\ IsFiniteSet((Member \ {m}) \X (1 .. MaxCasts))
         /\ Cardinality((Member \ {m}) \X (1 .. MaxCasts)) = (Cardinality(Member) - 1) * MaxCasts
         /\ Cardinality(Member) \in Nat
  <1>1. IsFiniteSet(Member) /\ MaxCasts \in Nat
    BY GroupAssumption
  <1>2. /\ IsFiniteSet(Member \ {m}) /\ Cardinality(Member \ {m}) = Cardinality(Member) - 1
        /\ Cardinality(Member) \in Nat
    BY <1>1, FS_RemoveElement, FS_CardinalityType
  <1>3. IsFiniteSet(1 .. MaxCasts) /\ Cardinality(1 .. MaxCasts) = MaxCasts
    BY <1>1, FS_Interval
  <1>4. /\ IsFiniteSet((Member \ {m}) \X (1 .. MaxCasts))
        /\ Cardinality((Member \ {m}) \X (1 .. MaxCasts)) = Cardinality(Member \ {m}) * Cardinality(1 .. MaxCasts)
    BY <1>2, <1>3, FS_Product
  <1> QED BY <1>2, <1>3, <1>4, Zenon

\* Members that have joined are finitely many; joining adds one, leaving takes one.
LEMMA JoinedFinite ==
  IsFiniteSet(joined) /\ Cardinality(joined) \in 0 .. Cardinality(Member) /\ Cardinality(Member) \in Nat
  <1>1. IsFiniteSet(Member) /\ joined \subseteq Member
    BY GroupAssumption DEF joined
  <1>2. IsFiniteSet(joined) /\ Cardinality(joined) <= Cardinality(Member)
    BY <1>1, FS_Subset
  <1>3. Cardinality(joined) \in Nat /\ Cardinality(Member) \in Nat
    BY <1>1, <1>2, FS_CardinalityType
  <1> QED BY <1>2, <1>3

LEMMA JoinedFiniteNext ==
  /\ IsFiniteSet(joined') /\ Cardinality(joined') \in 0 .. Cardinality(Member)
  /\ Cardinality(Member) \in Nat
  <1>1. (IsFiniteSet(joined) /\ Cardinality(joined) \in 0 .. Cardinality(Member) /\ Cardinality(Member) \in Nat)'
    BY JoinedFinite, PTL
  <1> QED BY <1>1

-----------------------------------------------------------------------------
(***************************************************************************)
(* Each action keeps the types.                                            *)
(***************************************************************************)
LEMMA TypesSubscribe ==
  ASSUME groupTypes, NEW m \in Member, Subscribe(m)
  PROVE  groupTypes'
  <1>1. Cardinality(joined) \in Nat
    BY JoinedFinite
  <1>2. \A n \in Nat : [j \in 1 .. n |-> TRUE] \in Seq(BOOLEAN)
    OBVIOUS
  <1>3. [j \in 1 .. Cardinality(joined) |-> TRUE] \in Seq(BOOLEAN)
    BY <1>1, <1>2, Zenon
  <1>4. evt' \in [Member -> Seq(BOOLEAN)]
    BY <1>3, Zenon DEF groupTypes, Subscribe
  <1>5. phase' \in [Member -> {"off", "discover", "poll", "send", "answer", "dead"}]
    BY DEF groupTypes, Subscribe, gto
  <1> QED BY <1>4, <1>5, Zenon DEF groupTypes, Subscribe, counts

\* Reading an event.
LEMMA TypesEvent ==
  ASSUME groupTypes, NEW m \in Member, evt[m] # <<>>, discover_member(m)
  PROVE  evt' \in [Member -> Seq(BOOLEAN)] /\ member_cnt' \in [Member -> Int]
  <1>1. evt[m] \in Seq(BOOLEAN) /\ member_cnt[m] \in Int
    BY DEF groupTypes
  <1>2. Tail(evt[m]) \in Seq(BOOLEAN)
    BY <1>1, MarksTail
  <1>3. \A c \in Int : c + 1 \in Int /\ c - 1 \in Int
    OBVIOUS
  <1>4. (IF Head(evt[m]) THEN member_cnt[m] + 1 ELSE member_cnt[m] - 1) \in Int
    BY <1>1, <1>3, Zenon
  <1> QED BY <1>2, <1>4, Zenon DEF groupTypes, discover_member

LEMMA TypesReport ==
  ASSUME groupTypes, NEW e \in BOOLEAN
  PROVE  report(e) \in [Member -> Seq(BOOLEAN)]
  <1>1. \A x \in Member : evt[x] \in Seq(BOOLEAN)
    BY DEF groupTypes
  <1>2. \A s \in Seq(BOOLEAN) : Append(s, e) \in Seq(BOOLEAN)
    BY MarksAppend
  <1> QED BY <1>1, <1>2, Zenon DEF report

LEMMA TypesDiscover ==
  ASSUME groupTypes, NEW m \in Member, Discover(m)
  PROVE  groupTypes'
  <1>1. evt' \in [Member -> Seq(BOOLEAN)] /\ member_cnt' \in [Member -> Int]
    BY TypesEvent DEF Discover
  <1> QED BY <1>1, Zenon DEF groupTypes, Discover, counts

LEMMA TypesJoin ==
  ASSUME groupTypes, NEW m \in Member, Join(m)
  PROVE  groupTypes'
  <1>1. evt' \in [Member -> Seq(BOOLEAN)]
    <2>1. report(TRUE) \in [Member -> Seq(BOOLEAN)]
      BY TypesReport, Zenon
    <2> QED BY <2>1, Zenon DEF Join
  <1>2. group' \in [Member -> BOOLEAN]
    BY Zenon DEF groupTypes, Join
  <1>3. phase' \in [Member -> {"off", "discover", "poll", "send", "answer", "dead"}]
    BY DEF groupTypes, Join, gto
  <1> QED BY <1>1, <1>2, <1>3, Zenon DEF groupTypes, Join, counts

LEMMA TypesReceive ==
  ASSUME groupTypes, NEW m \in Member, Receive(m)
  PROVE  groupTypes'
  <1>1. evt' \in [Member -> Seq(BOOLEAN)] /\ member_cnt' \in [Member -> Int]
    <2>1. CASE evt[m] # <<>>
      BY <2>1, TypesEvent DEF Receive
    <2>2. CASE evt[m] = <<>>
      BY <2>2, Zenon DEF Receive, groupTypes
    <2> QED BY <2>1, <2>2
  <1>2. /\ inbox' \in [Member -> Seq(Letter)] /\ src' \in [Member -> Member] /\ rcv_uc' \in [Member -> Nat]
        /\ phase' \in [Member -> {"off", "discover", "poll", "send", "answer", "dead"}]
    <2>1. CASE inbox[m] = <<>>
      BY <2>1, Zenon DEF Receive, groupTypes
    <2>2. CASE inbox[m] # <<>>
      <3>1. inbox[m] \in Seq(Letter) /\ rcv_uc[m] \in Nat
        BY DEF groupTypes
      <3>2. Tail(inbox[m]) \in Seq(Letter) /\ Head(inbox[m]) \in Letter
        BY <2>2, <3>1
      <3>3. Head(inbox[m]).from \in Member
        BY <3>2 DEF Letter
      <3>4. rcv_uc[m] + (IF Head(inbox[m]).type = "UCAST" THEN 1 ELSE 0) \in Nat
        BY <3>1
      <3>5. (IF Head(inbox[m]).reply THEN "answer" ELSE "poll")
              \in {"off", "discover", "poll", "send", "answer", "dead"}
        BY Zenon
      <3>6. inbox' \in [Member -> Seq(Letter)]
        BY <2>2, <3>2, Zenon DEF Receive, groupTypes
      <3>7. src' \in [Member -> Member]
        BY <2>2, <3>3, Zenon DEF Receive, groupTypes
      <3>8. rcv_uc' \in [Member -> Nat]
        <4>1. rcv_uc' = [rcv_uc EXCEPT ![m] = @ + IF Head(inbox[m]).type = "UCAST" THEN 1 ELSE 0]
          BY <2>2, Zenon DEF Receive
        <4> QED BY <3>4, <4>1, Zenon DEF groupTypes
      <3>9. phase' \in [Member -> {"off", "discover", "poll", "send", "answer", "dead"}]
        BY <2>2, <3>5, Zenon DEF Receive, groupTypes, gto
      <3> QED BY <3>6, <3>7, <3>8, <3>9
    <2> QED BY <2>1, <2>2
  <1> QED BY <1>1, <1>2, Zenon DEF groupTypes, Receive

LEMMA TypesDrained ==
  ASSUME groupTypes, NEW m \in Member, Drained(m)
  PROVE  groupTypes'
  <1>1. phase' \in [Member -> {"off", "discover", "poll", "send", "answer", "dead"}]
    BY DEF groupTypes, Drained, gto
  <1> QED BY <1>1, Zenon DEF groupTypes, Drained, counts

\* The program of a member ends; its counts stay.
ends(m) == die(m) /\ UNCHANGED <<opts, member_cnt, src, casts, snt_uc, rcv_uc>>

LEMMA TypesEnds ==
  ASSUME groupTypes, NEW m \in Member, ends(m)
  PROVE  groupTypes'
  <1>1. phase' \in [Member -> {"off", "discover", "poll", "send", "answer", "dead"}]
    BY DEF groupTypes, ends, die, gto
  <1>2. report(FALSE) \in [Member -> Seq(BOOLEAN)]
    BY TypesReport, Zenon
  <1>3. <<>> \in Seq(BOOLEAN) /\ <<>> \in Seq(Letter)
    OBVIOUS
  <1>4. evt' \in [Member -> Seq(BOOLEAN)]
    <2>1. CASE group[m]
      BY <1>2, <1>3, <2>1, Zenon DEF groupTypes, ends, die
    <2>2. CASE ~ group[m]
      BY <1>3, <2>2, Zenon DEF groupTypes, ends, die
    <2> QED BY <2>1, <2>2, Zenon
  <1>5. inbox' \in [Member -> Seq(Letter)]
    BY <1>3, Zenon DEF groupTypes, ends, die
  <1>6. group' \in [Member -> BOOLEAN]
    BY Zenon DEF groupTypes, ends, die
  <1> QED BY <1>1, <1>4, <1>5, <1>6, Zenon DEF groupTypes, ends

\* A member that was about to send sends to some of the others and goes on.
sends(m, h, dst) ==
  /\ phase[m] \in {"send", "answer"}
  /\ h \in Letter /\ h.from = m /\ dst \subseteq Member \ {m}
  /\ \A x \in dst : open(m, x)
  /\ deliver(h, dst) /\ gto(m, "poll")
  /\ UNCHANGED <<opts, evt, member_cnt, group, src, rcv_uc>>

LEMMA TypesSends ==
  ASSUME groupTypes, NEW m \in Member, NEW h, NEW dst, sends(m, h, dst),
         casts' \in [Member -> 0 .. MaxCasts], snt_uc' \in [Member -> Nat]
  PROVE  groupTypes'
  <1>1. phase' \in [Member -> {"off", "discover", "poll", "send", "answer", "dead"}]
    BY DEF groupTypes, sends, gto
  <1>2. \A s \in Seq(Letter) : Append(s, h) \in Seq(Letter)
    BY MarksAppend DEF sends
  <1>3. inbox' \in [Member -> Seq(Letter)]
    BY <1>2, Zenon DEF groupTypes, sends, deliver
  <1> QED BY <1>1, <1>3, Zenon DEF groupTypes, sends

-----------------------------------------------------------------------------
(***************************************************************************)
(* Each action keeps the counts of members true.                           *)
(***************************************************************************)
LEMMA CountStays ==
  ASSUME countsLead, UNCHANGED <<evt, member_cnt, group>>,
         \A x \in Member : awake(x)' => awake(x)
  PROVE  countsLead'
  <1>1. joined' = joined
    BY Zenon DEF joined
  <1> QED BY <1>1, Zenon DEF countsLead

LEMMA CountSubscribe ==
  ASSUME groupTypes, countsLead, NEW m \in Member, Subscribe(m), lettersOK(m)
  PROVE  countsLead'
  <1>1. joined' = joined
    BY Zenon DEF joined, Subscribe
  <1>2. Cardinality(joined) \in 0 .. Cardinality(Member) /\ Cardinality(Member) \in Nat
    BY JoinedFinite
  <1>3. member_cnt'[m] = 0
    BY Zenon DEF Subscribe, lettersOK, in
  <1>4. leadsTo(evt'[m], {TRUE}, {FALSE}, 0, Cardinality(joined))
    <2>1. evt'[m] = [j \in 1 .. Cardinality(joined) |-> TRUE]
      BY Zenon DEF Subscribe, groupTypes
    <2>2. Len(evt'[m]) = Cardinality(joined)
      <3>1. \A n \in Nat : Len([j \in 1 .. n |-> TRUE]) = n
        OBVIOUS
      <3>2. Cardinality(joined) \in Nat
        BY <1>2
      <3> QED BY <2>1, <3>1, <3>2, Zenon
    <2>3. \A j \in 1 .. Cardinality(joined) : evt'[m][j] \in {TRUE} /\ evt'[m][j] \notin {FALSE}
      BY <2>1, Zenon
    <2> QED BY <1>2, <2>2, <2>3, CountFromNobody
  <1>5. ASSUME NEW x \in Member, awake(x)', x # m
        PROVE  leadsTo(evt'[x], {TRUE}, {FALSE}, member_cnt'[x], Cardinality(joined'))
    <2>1. phase'[x] = phase[x] /\ evt'[x] = evt[x] /\ member_cnt'[x] = member_cnt[x]
      BY <1>5, Zenon DEF Subscribe, gto, groupTypes
    <2> QED BY <1>1, <1>5, <2>1, Zenon DEF countsLead, awake
  <1> QED BY <1>1, <1>3, <1>4, <1>5, Zenon DEF countsLead

LEMMA CountEvent ==
  ASSUME groupTypes, countsLead, NEW m \in Member, awake(m), evt[m] # <<>>, discover_member(m),
         group' = group, \A x \in Member : awake(x)' => awake(x)
  PROVE  countsLead'
  <1>1. joined' = joined
    BY Zenon DEF joined
  <1>2. evt[m] \in Seq(BOOLEAN) /\ member_cnt[m] \in Int
    BY DEF groupTypes
  <1>3. evt'[m] = Tail(evt[m]) /\ Head(evt[m]) \in BOOLEAN
    <2>1. evt'[m] = Tail(evt[m])
      BY Zenon DEF discover_member, groupTypes
    <2>2. Head(evt[m]) \in BOOLEAN
      BY <1>2, MarksTail
    <2> QED BY <2>1, <2>2
  <1>4. /\ member_cnt'[m] \in Int
        /\ \/ Head(evt[m]) \in {TRUE} /\ Head(evt[m]) \notin {FALSE} /\ member_cnt'[m] = member_cnt[m] + 1
           \/ Head(evt[m]) \notin {TRUE} /\ Head(evt[m]) \in {FALSE} /\ member_cnt'[m] = member_cnt[m] - 1
    <2>1. member_cnt'[m] \in Int
      BY TypesEvent, Zenon
    <2>2. member_cnt'[m] = IF Head(evt[m]) THEN member_cnt[m] + 1 ELSE member_cnt[m] - 1
      BY Zenon DEF discover_member, groupTypes
    <2>3. CASE Head(evt[m])
      BY <1>3, <2>1, <2>2, <2>3, Zenon
    <2>4. CASE ~ Head(evt[m])
      BY <1>3, <2>1, <2>2, <2>4, Zenon
    <2> QED BY <2>3, <2>4, Zenon
  <1>5. leadsTo(evt[m], {TRUE}, {FALSE}, member_cnt[m], Cardinality(joined))
    BY Zenon DEF countsLead
  <1>6. leadsTo(evt'[m], {TRUE}, {FALSE}, member_cnt'[m], Cardinality(joined'))
    <2>1. \A d \in Int : 
            (\/ Head(evt[m]) \in {TRUE} /\ Head(evt[m]) \notin {FALSE} /\ d = member_cnt[m] + 1
             \/ Head(evt[m]) \notin {TRUE} /\ Head(evt[m]) \in {FALSE} /\ d = member_cnt[m] - 1)
            => leadsTo(Tail(evt[m]), {TRUE}, {FALSE}, d, Cardinality(joined))
      BY <1>2, <1>5, CountRead, Zenon
    <2> QED BY <1>1, <1>3, <1>4, <2>1, Zenon
  <1>7. ASSUME NEW x \in Member, awake(x)', x # m
        PROVE  leadsTo(evt'[x], {TRUE}, {FALSE}, member_cnt'[x], Cardinality(joined'))
    <2>1. evt'[x] = evt[x] /\ member_cnt'[x] = member_cnt[x]
      BY <1>7, Zenon DEF discover_member, groupTypes
    <2> QED BY <1>1, <1>7, <2>1, Zenon DEF countsLead
  <1> QED BY <1>6, <1>7, Zenon DEF countsLead

\* What a report of n more or less members does to those who get it.
LEMMA CountTold ==
  ASSUME groupTypes, countsLead, NEW x \in Member, awake(x), NEW e \in BOOLEAN,
         \/ e \in {TRUE} /\ e \notin {FALSE} /\ Cardinality(joined') = Cardinality(joined) + 1
         \/ e \notin {TRUE} /\ e \in {FALSE} /\ Cardinality(joined') = Cardinality(joined) - 1
  PROVE  leadsTo(report(e)[x], {TRUE}, {FALSE}, member_cnt[x], Cardinality(joined'))
  <1>1. evt[x] \in Seq(BOOLEAN) /\ member_cnt[x] \in Int
    BY DEF groupTypes
  <1>2. /\ Cardinality(joined) \in 0 .. Cardinality(Member) /\ Cardinality(joined) \in Int
        /\ Cardinality(Member) \in Nat
    BY JoinedFinite
  <1>3. Cardinality(joined') \in 0 .. Cardinality(Member)
    BY JoinedFiniteNext
  <1>4. leadsTo(evt[x], {TRUE}, {FALSE}, member_cnt[x], Cardinality(joined))
    BY Zenon DEF countsLead
  <1>5. report(e)[x] = Append(evt[x], e)
    BY Zenon DEF report, awake
  <1>6. leadsTo(Append(evt[x], e), {TRUE}, {FALSE}, member_cnt[x], Cardinality(joined'))
    <2>1. \A k \in 0 .. Cardinality(Member) :
            (\/ e \in {TRUE} /\ e \notin {FALSE} /\ k = Cardinality(joined) + 1
             \/ e \notin {TRUE} /\ e \in {FALSE} /\ k = Cardinality(joined) - 1)
            => leadsTo(Append(evt[x], e), {TRUE}, {FALSE}, member_cnt[x], k)
      BY <1>1, <1>2, <1>4, CountReport, Zenon
    <2> QED BY <1>3, <2>1, Zenon
  <1> QED BY <1>5, <1>6

LEMMA CountJoin ==
  ASSUME groupTypes, countsLead, NEW m \in Member, Join(m), ~ group[m]
  PROVE  countsLead'
  <1>1. joined' = joined \cup {m} /\ m \notin joined
    BY Zenon DEF joined, Join, groupTypes
  <1>2. Cardinality(joined') = Cardinality(joined) + 1
    <2>1. IsFiniteSet(joined)
      BY JoinedFinite
    <2> QED BY <1>1, <2>1, FS_AddElement
  <1>3. ASSUME NEW x \in Member, awake(x)'
        PROVE  leadsTo(evt'[x], {TRUE}, {FALSE}, member_cnt'[x], Cardinality(joined'))
    <2>1. awake(x)
      <3>1. CASE x = m
        BY <3>1 DEF awake, Join, in
      <3>2. CASE x # m
        BY <1>3, <3>2, Zenon DEF awake, Join, gto, groupTypes
      <3> QED BY <3>1, <3>2
    <2>2. leadsTo(report(TRUE)[x], {TRUE}, {FALSE}, member_cnt[x], Cardinality(joined'))
      BY <1>2, <2>1, CountTold, Zenon
    <2> QED BY <2>2, Zenon DEF Join
  <1> QED BY <1>3, Zenon DEF countsLead

LEMMA CountEnds ==
  ASSUME groupTypes, countsLead, NEW m \in Member, ends(m)
  PROVE  countsLead'
  <1>1. ASSUME NEW x \in Member, awake(x)' PROVE x # m /\ awake(x)
    <2>1. x # m
      BY <1>1 DEF awake, ends, die, gto, groupTypes
    <2> QED BY <1>1, <2>1, Zenon DEF awake, ends, die, gto, groupTypes
  <1>2. CASE group[m]
    <2>1. joined' = joined \ {m} /\ m \in joined
      BY <1>2, Zenon DEF joined, ends, die, groupTypes
    <2>2. Cardinality(joined') = Cardinality(joined) - 1
      <3>1. IsFiniteSet(joined)
        BY JoinedFinite
      <3> QED BY <2>1, <3>1, FS_RemoveElement
    <2>3. ASSUME NEW x \in Member, awake(x)'
          PROVE  leadsTo(evt'[x], {TRUE}, {FALSE}, member_cnt'[x], Cardinality(joined'))
      <3>1. leadsTo(report(FALSE)[x], {TRUE}, {FALSE}, member_cnt[x], Cardinality(joined'))
        BY <1>1, <2>2, <2>3, CountTold, Zenon
      <3>2. report(FALSE) \in [Member -> Seq(BOOLEAN)]
        BY TypesReport, Zenon
      <3>3. evt'[x] = report(FALSE)[x]
        BY <1>1, <1>2, <2>3, <3>2, Zenon DEF ends, die
      <3> QED BY <3>1, <3>3, Zenon DEF ends
    <2> QED BY <2>3, Zenon DEF countsLead
  <1>3. CASE ~ group[m]
    <2>1. joined' = joined
      BY <1>3, Zenon DEF joined, ends, die, groupTypes
    <2>2. ASSUME NEW x \in Member, awake(x)'
          PROVE  leadsTo(evt'[x], {TRUE}, {FALSE}, member_cnt'[x], Cardinality(joined'))
      <3>1. evt'[x] = evt[x] /\ member_cnt'[x] = member_cnt[x]
        BY <1>1, <1>3, <2>2, Zenon DEF ends, die, groupTypes
      <3> QED BY <1>1, <2>1, <2>2, <3>1, Zenon DEF countsLead
    <2> QED BY <2>2, Zenon DEF countsLead
  <1> QED BY <1>2, <1>3, Zenon

-----------------------------------------------------------------------------
(***************************************************************************)
(* Each action keeps the members and their messages in order.              *)
(***************************************************************************)

\* What lettersOK says of one message of y's inbox, and of y.
proper(y) ==
  {h \in Letter : /\ h.from # y
                  /\ h.type = "UCAST" => ~ h.reply /\ opts[y].reply
                  /\ h.reply => opts[h.from].reply}
ordered(y) ==
  /\ group[y] <=> phase[y] \in {"poll", "send", "answer"}
  /\ phase[y] = "off" => member_cnt[y] = 0
  /\ ~ group[y] => inbox[y] = <<>>
  /\ inbox[y] \in Seq(proper(y))
  /\ phase[y] = "answer" => src[y] # y /\ opts[src[y]].reply
  /\ opts[y].reply = FALSE => rcv_uc[y] = 0

LEMMA LettersAre ==
  groupTypes => \A y \in Member : lettersOK(y) <=> ordered(y)
  <1> SUFFICES ASSUME groupTypes, NEW y \in Member PROVE lettersOK(y) <=> ordered(y)
    OBVIOUS
  <1>1. \A s \in Seq(Letter) : \A A : (\A i \in 1 .. Len(s) : s[i] \in A) <=> s \in Seq(A)
    OBVIOUS
  <1>2. inbox[y] \in Seq(Letter)
    BY DEF groupTypes
  <1>3. (\A i \in 1 .. Len(inbox[y]) : inbox[y][i] \in proper(y)) <=> inbox[y] \in Seq(proper(y))
    BY <1>1, <1>2, Zenon
  <1>4. \A i \in 1 .. Len(inbox[y]) : inbox[y][i] \in Letter
    BY <1>2
  <1>5. \A i \in 1 .. Len(inbox[y]) :
          inbox[y][i] \in proper(y) <=>
            /\ inbox[y][i].from # y
            /\ inbox[y][i].type = "UCAST" => ~ inbox[y][i].reply /\ opts[y].reply
            /\ inbox[y][i].reply => opts[inbox[y][i].from].reply
    BY <1>4, Zenon DEF proper
  <1>6. group[y] = (phase[y] \in {"poll", "send", "answer"})
          <=> (group[y] <=> phase[y] \in {"poll", "send", "answer"})
    <2>1. group[y] \in BOOLEAN
      BY DEF groupTypes
    <2>2. CASE phase[y] \in {"poll", "send", "answer"}
      <3>1. (phase[y] \in {"poll", "send", "answer"}) = TRUE
        BY <2>2
      <3> QED BY <2>1, <2>2, <3>1, Zenon
    <2>3. CASE phase[y] \notin {"poll", "send", "answer"}
      <3>1. (phase[y] \in {"poll", "send", "answer"}) = FALSE
        BY <2>3
      <3> QED BY <2>1, <2>3, <3>1, Zenon
    <2> QED BY <2>2, <2>3
  <1> QED BY <1>3, <1>5, <1>6, Zenon DEF lettersOK, ordered

LEMMA LettersAreNext ==
  groupTypes' => \A y \in Member : lettersOK(y)' <=> ordered(y)'
  <1>1. (groupTypes => \A y \in Member : lettersOK(y) <=> ordered(y))'
    BY LettersAre, PTL
  <1> QED BY <1>1, Zenon

\* A member whose state stays.
LEMMA OrderStays ==
  ASSUME NEW y, ordered(y), opts' = opts, phase'[y] = phase[y], member_cnt'[y] = member_cnt[y],
         group'[y] = group[y], inbox'[y] = inbox[y], src'[y] = src[y], rcv_uc'[y] = rcv_uc[y]
  PROVE  ordered(y)'
  <1>1. proper(y)' = proper(y)
    BY Zenon DEF proper
  <1> QED BY <1>1, Zenon DEF ordered

LEMMA OrderSubscribe ==
  ASSUME groupTypes, NEW m \in Member, Subscribe(m), NEW y \in Member, ordered(y)
  PROVE  ordered(y)'
  <1>1. proper(y)' = proper(y)
    BY Zenon DEF proper, Subscribe
  <1>2. CASE y = m
    <2>1. phase'[y] = "discover" /\ ~ group[y]
      <3>1. phase[y] = "off" /\ phase'[y] = "discover"
        BY <1>2 DEF Subscribe, gto, in, groupTypes
      <3> QED BY <3>1 DEF ordered
    <2>2. phase'[y] \notin {"poll", "send", "answer"} /\ phase'[y] # "off" /\ phase'[y] # "answer"
      BY <2>1
    <2>3. group'[y] <=> phase'[y] \in {"poll", "send", "answer"}
      BY <2>1, <2>2, Zenon DEF Subscribe, groupTypes
    <2> QED BY <1>1, <2>1, <2>2, <2>3, Zenon DEF Subscribe, ordered, counts
  <1>3. CASE y # m
    BY <1>3, OrderStays, Zenon DEF Subscribe, gto, groupTypes, counts
  <1> QED BY <1>2, <1>3

LEMMA OrderDiscover ==
  ASSUME groupTypes, NEW m \in Member, Discover(m), NEW y \in Member, ordered(y)
  PROVE  ordered(y)'
  <1>1. proper(y)' = proper(y)
    BY Zenon DEF proper, Discover
  <1>2. CASE y = m
    <2>1. phase[y] # "off"
      BY <1>2 DEF Discover, in
    <2> QED BY <1>1, <2>1, Zenon DEF Discover, ordered, counts
  <1>3. CASE y # m
    BY <1>3, OrderStays, Zenon DEF Discover, discover_member, groupTypes, counts
  <1> QED BY <1>2, <1>3

LEMMA OrderJoin ==
  ASSUME groupTypes, NEW m \in Member, Join(m), NEW y \in Member, ordered(y)
  PROVE  ordered(y)'
  <1>1. proper(y)' = proper(y)
    BY Zenon DEF proper, Join
  <1>2. CASE y = m
    <2>1. phase'[y] = "poll"
      BY <1>2 DEF Join, gto, groupTypes
    <2>2. phase'[y] \in {"poll", "send", "answer"} /\ phase'[y] # "off" /\ phase'[y] # "answer"
      BY <2>1
    <2>3. group'[y] = TRUE
      BY <1>2, Zenon DEF Join, groupTypes
    <2> QED BY <1>1, <2>2, <2>3, Zenon DEF Join, ordered, counts
  <1>3. CASE y # m
    BY <1>3, OrderStays, Zenon DEF Join, gto, groupTypes, counts
  <1> QED BY <1>2, <1>3

LEMMA OrderReceive ==
  ASSUME groupTypes, NEW m \in Member, Receive(m), NEW y \in Member, ordered(y)
  PROVE  ordered(y)'
  <1>1. proper(y)' = proper(y) /\ opts' = opts /\ group' = group
    BY Zenon DEF proper, Receive
  <1>2. CASE y = m
    <2>1. phase[y] = "poll" /\ group[y] = TRUE
      <3>1. phase[y] = "poll" /\ phase[y] \in {"poll", "send", "answer"}
        BY <1>2 DEF Receive, in
      <3> QED BY <3>1, Zenon DEF ordered
    <2>2. CASE inbox[m] = <<>>
      <3>1. phase'[y] = phase[y] /\ phase[y] # "off"
        BY <2>1, <2>2 DEF Receive
      <3> QED BY <1>1, <2>2, <3>1, Zenon DEF Receive, ordered
    <2>3. CASE inbox[m] # <<>>
      <3>1. inbox[y] \in Seq(proper(y)) /\ inbox[y] # <<>>
        BY <1>2, <2>3, Zenon DEF ordered
      <3>2. Tail(inbox[y]) \in Seq(proper(y)) /\ Head(inbox[y]) \in proper(y)
        BY <3>1, MarksTail
      <3>3. inbox'[y] = Tail(inbox[y]) /\ src'[y] = Head(inbox[y]).from
        BY <1>2, <2>3, Zenon DEF Receive, groupTypes
      <3>4. phase'[y] = IF Head(inbox[y]).reply THEN "answer" ELSE "poll"
        BY <1>2, <2>3, Zenon DEF Receive, groupTypes, gto
      <3>5. Head(inbox[y]).from # y /\ (Head(inbox[y]).reply => opts[Head(inbox[y]).from].reply)
        BY <3>2, Zenon DEF proper
      <3>6. phase'[y] \in {"poll", "send", "answer"} /\ phase'[y] # "off"
        BY <3>4
      <3>7. phase'[y] = "answer" => src'[y] # y /\ opts'[src'[y]].reply
        <4>1. "poll" # "answer"
          OBVIOUS
        <4> QED BY <1>1, <3>3, <3>4, <3>5, <4>1, Zenon
      <3>8. opts'[y].reply = FALSE => rcv_uc'[y] = 0
        <4>1. rcv_uc'[y] = rcv_uc[y] + IF Head(inbox[y]).type = "UCAST" THEN 1 ELSE 0
          <5>1. rcv_uc' = [rcv_uc EXCEPT ![m] = @ + IF Head(inbox[m]).type = "UCAST" THEN 1 ELSE 0]
            BY <2>3, Zenon DEF Receive
          <5> QED BY <1>2, <5>1, Zenon DEF groupTypes
        <4>2. Head(inbox[y]).type # "UCAST" => rcv_uc'[y] = rcv_uc[y] + 0
          BY <4>1, Zenon
        <4>3. Head(inbox[y]).type = "UCAST" => opts[y].reply
          BY <3>2, Zenon DEF proper
        <4>4. rcv_uc[y] = 0 => rcv_uc[y] + 0 = 0
          OBVIOUS
        <4> QED BY <1>1, <4>2, <4>3, <4>4, Zenon DEF ordered
      <3> QED BY <1>1, <2>1, <3>2, <3>3, <3>6, <3>7, <3>8, Zenon DEF ordered
    <2> QED BY <2>2, <2>3
  <1>3. CASE y # m
    <2>1. member_cnt'[y] = member_cnt[y]
      BY <1>3, Zenon DEF Receive, discover_member, groupTypes
    <2>2. inbox'[y] = inbox[y] /\ src'[y] = src[y] /\ phase'[y] = phase[y] /\ rcv_uc'[y] = rcv_uc[y]
      <3>1. CASE inbox[m] = <<>>
        BY <3>1, Zenon DEF Receive
      <3>2. CASE inbox[m] # <<>>
        <4>1. rcv_uc' = [rcv_uc EXCEPT ![m] = @ + IF Head(inbox[m]).type = "UCAST" THEN 1 ELSE 0]
          BY <3>2, Zenon DEF Receive
        <4>2. inbox'[y] = inbox[y] /\ src'[y] = src[y] /\ phase'[y] = phase[y]
          BY <1>3, <3>2, Zenon DEF Receive, gto, groupTypes
        <4> QED BY <1>3, <4>1, <4>2, Zenon DEF groupTypes
      <3> QED BY <3>1, <3>2
    <2> QED BY <1>1, <2>1, <2>2, OrderStays, Zenon
  <1> QED BY <1>2, <1>3

LEMMA OrderDrained ==
  ASSUME groupTypes, NEW m \in Member, Drained(m), NEW y \in Member, ordered(y)
  PROVE  ordered(y)'
  <1>1. proper(y)' = proper(y)
    BY Zenon DEF proper, Drained
  <1>2. CASE y = m
    <2>1. phase[y] = "poll" /\ phase'[y] = "send"
      BY <1>2 DEF Drained, gto, in, groupTypes
    <2>2. /\ phase'[y] \in {"poll", "send", "answer"} /\ phase'[y] # "off" /\ phase'[y] # "answer"
          /\ phase[y] \in {"poll", "send", "answer"}
      BY <2>1
    <2> QED BY <1>1, <2>2, Zenon DEF Drained, ordered, counts
  <1>3. CASE y # m
    BY <1>3, OrderStays, Zenon DEF Drained, gto, groupTypes, counts
  <1> QED BY <1>2, <1>3

LEMMA OrderEnds ==
  ASSUME groupTypes, NEW m \in Member, ends(m), NEW y \in Member, ordered(y)
  PROVE  ordered(y)'
  <1>1. proper(y)' = proper(y)
    BY Zenon DEF proper, ends
  <1>2. CASE y = m
    <2>1. phase'[y] = "dead"
      BY <1>2 DEF ends, die, gto, groupTypes
    <2>2. phase'[y] \notin {"poll", "send", "answer"} /\ phase'[y] # "off" /\ phase'[y] # "answer"
      BY <2>1
    <2>3. group'[y] = FALSE /\ inbox'[y] = <<>>
      BY <1>2, Zenon DEF ends, die, groupTypes
    <2>4. <<>> \in Seq(proper(y))
      OBVIOUS
    <2> QED BY <1>1, <2>2, <2>3, <2>4, Zenon DEF ends, ordered
  <1>3. CASE y # m
    BY <1>3, OrderStays, Zenon DEF ends, die, gto, groupTypes
  <1> QED BY <1>2, <1>3

LEMMA OrderSends ==
  ASSUME groupTypes, NEW m \in Member, NEW h, NEW dst, sends(m, h, dst),
         NEW y \in Member, ordered(y), y \in dst => h \in proper(y)
  PROVE  ordered(y)'
  <1>1. proper(y)' = proper(y) /\ opts' = opts
    BY Zenon DEF proper, sends
  <1>2. CASE y = m
    <2>1. phase[y] \in {"send", "answer"} /\ phase'[y] = "poll"
      BY <1>2 DEF sends, gto, groupTypes
    <2>2. /\ phase'[y] \in {"poll", "send", "answer"} /\ phase'[y] # "off" /\ phase'[y] # "answer"
          /\ phase[y] \in {"poll", "send", "answer"}
      BY <2>1
    <2>3. inbox'[y] = inbox[y]
      BY <1>2, Zenon DEF sends, deliver
    <2> QED BY <1>1, <2>2, <2>3, Zenon DEF sends, ordered
  <1>3. CASE y # m
    <2>1. phase'[y] = phase[y]
      BY <1>3, Zenon DEF sends, gto, groupTypes
    <2>2. CASE y \in dst /\ group[y]
      <3>1. inbox'[y] = Append(inbox[y], h)
        BY <2>2, Zenon DEF sends, deliver
      <3>2. Append(inbox[y], h) \in Seq(proper(y))
        <4>1. inbox[y] \in Seq(proper(y)) /\ h \in proper(y)
          BY <2>2, Zenon DEF ordered
        <4> QED BY <4>1, MarksAppend
      <3> QED BY <1>1, <2>1, <2>2, <3>1, <3>2, Zenon DEF sends, ordered
    <2>3. CASE ~ (y \in dst /\ group[y])
      <3>1. inbox'[y] = inbox[y]
        BY <2>3, Zenon DEF sends, deliver
      <3> QED BY <2>1, <3>1, OrderStays, Zenon DEF sends
    <2> QED BY <2>2, <2>3, Zenon
  <1> QED BY <1>2, <1>3

-----------------------------------------------------------------------------
(***************************************************************************)
(* Each action keeps the replies within what was asked for.                *)
(***************************************************************************)
answering(y) == IF phase[y] = "answer" THEN 1 ELSE 0
replies(y) == snt_uc[y] + requests(inbox[y]) + answering(y)

LEMMA RepliesAre ==
  groupTypes => \A y \in Member : repliesOK(y) <=> replies(y) <= Cardinality(sentToAll(y))
  <1> SUFFICES ASSUME groupTypes, NEW y \in Member
               PROVE  repliesOK(y) <=> replies(y) <= Cardinality(sentToAll(y))
    OBVIOUS
  <1>1. Cardinality({i \in 1 .. Len(inbox[y]) : inbox[y][i].reply}) = requests(inbox[y])
    BY QueuesAre, Zenon
  <1> QED BY <1>1, Zenon DEF repliesOK, replies, answering

LEMMA RepliesAreNext ==
  groupTypes' => \A y \in Member : repliesOK(y)' <=> replies(y)' <= Cardinality(sentToAll(y)')
  <1>1. (groupTypes => \A y \in Member : repliesOK(y) <=> replies(y) <= Cardinality(sentToAll(y)))'
    BY RepliesAre, PTL
  <1> QED BY <1>1, Zenon

LEMMA RepliesTyped ==
  ASSUME groupTypes, NEW y \in Member
  PROVE  snt_uc[y] \in Nat /\ requests(inbox[y]) \in Nat /\ answering(y) \in Nat
  <1>1. snt_uc[y] \in Nat /\ inbox[y] \in Seq(Letter)
    BY DEF groupTypes
  <1>2. Len(inbox[y]) \in Int
    BY <1>1
  <1> QED BY <1>1, <1>2, MarksFinite DEF requests, answering

\* A member whose replies do not become more, while nobody forgets a message.
LEMMA RepliesStay ==
  ASSUME groupTypes, NEW y \in Member, replies(y) <= Cardinality(sentToAll(y)), casts' = casts,
         snt_uc'[y] = snt_uc[y], inbox'[y] = inbox[y], phase'[y] = "answer" => phase[y] = "answer"
  PROVE  replies(y)' <= Cardinality(sentToAll(y)')
  <1>1. snt_uc[y] \in Nat /\ requests(inbox[y]) \in Nat
    BY RepliesTyped
  <1>2. sentToAll(y)' = sentToAll(y)
    BY DEF sentToAll
  <1>3. Cardinality(sentToAll(y)) \in Nat
    <2>1. IsFiniteSet(sentToAll(y))
      BY SentFinite, FS_Subset DEF sentToAll
    <2> QED BY <2>1, FS_CardinalityType
  <1>4. replies(y)' <= replies(y) /\ replies(y)' \in Nat /\ replies(y) \in Nat
    BY <1>1 DEF replies, answering
  <1> QED BY <1>2, <1>3, <1>4

LEMMA RepliesReceive ==
  ASSUME groupTypes, NEW m \in Member, Receive(m), NEW y \in Member,
         replies(y) <= Cardinality(sentToAll(y))
  PROVE  replies(y)' <= Cardinality(sentToAll(y)')
  <1>1. casts' = casts /\ snt_uc' = snt_uc
    BY Zenon DEF Receive
  <1>2. CASE inbox[m] = <<>>
    <2>1. inbox' = inbox /\ phase' = phase
      BY <1>2, Zenon DEF Receive
    <2> QED BY <1>1, <2>1, RepliesStay
  <1>3. CASE inbox[m] # <<>> /\ y # m
    <2>1. inbox'[y] = inbox[y] /\ phase'[y] = phase[y]
      BY <1>3, Zenon DEF Receive, gto, groupTypes
    <2> QED BY <1>1, <2>1, RepliesStay
  <1>4. CASE inbox[m] # <<>> /\ y = m
    <2>1. phase[y] = "poll"
      BY <1>4 DEF Receive, in
    <2>2. inbox'[y] = Tail(inbox[y]) /\ phase'[y] = IF Head(inbox[y]).reply THEN "answer" ELSE "poll"
      BY <1>4, Zenon DEF Receive, gto, groupTypes
    <2>3. inbox[y] \in Seq(Letter)
      BY DEF groupTypes
    <2>4. /\ requests(Tail(inbox[y])) \in Nat
          /\ Head(inbox[y]).reply => requests(inbox[y]) = requests(Tail(inbox[y])) + 1
          /\ ~ Head(inbox[y]).reply => requests(inbox[y]) = requests(Tail(inbox[y]))
      BY <1>4, <2>3, LettersLess
    <2>5. \/ phase'[y] = "answer" /\ requests(inbox[y]) = requests(Tail(inbox[y])) + 1
          \/ phase'[y] = "poll" /\ requests(inbox[y]) = requests(Tail(inbox[y]))
      BY <2>2, <2>4, Zenon
    <2>6. snt_uc[y] \in Nat /\ requests(inbox[y]) \in Nat
      BY RepliesTyped
    <2>7. requests(Tail(inbox[y])) \in Nat
      BY <2>4, Zenon
    <2>8. replies(y)' = replies(y)
      <3>1. answering(y) = 0
        BY <2>1 DEF answering
      <3>2. requests(Tail(inbox[y])) + answering(y)' = requests(inbox[y])
        BY <2>5, <2>7 DEF answering
      <3>3. answering(y)' \in Nat
        BY DEF answering
      <3>4. \A a, b, c, d \in Nat : b + c = d => a + b + c = a + d + 0
        OBVIOUS
      <3>5. snt_uc[y] + requests(Tail(inbox[y])) + answering(y)' = snt_uc[y] + requests(inbox[y]) + 0
        BY <2>6, <2>7, <3>2, <3>3, <3>4
      <3> QED BY <1>1, <2>2, <3>1, <3>5, Zenon DEF replies
    <2>9. sentToAll(y)' = sentToAll(y)
      BY <1>1 DEF sentToAll
    <2> QED BY <2>8, <2>9
  <1> QED BY <1>2, <1>3, <1>4

LEMMA RepliesEnds ==
  ASSUME groupTypes, NEW m \in Member, ends(m), NEW y \in Member,
         replies(y) <= Cardinality(sentToAll(y))
  PROVE  replies(y)' <= Cardinality(sentToAll(y)')
  <1>1. casts' = casts /\ snt_uc' = snt_uc
    BY Zenon DEF ends
  <1>2. CASE y # m
    <2>1. inbox'[y] = inbox[y] /\ phase'[y] = phase[y]
      BY <1>2, Zenon DEF ends, die, gto, groupTypes
    <2> QED BY <1>1, <2>1, RepliesStay
  <1>3. CASE y = m
    <2>1. inbox'[y] = <<>> /\ phase'[y] = "dead"
      BY <1>3, Zenon DEF ends, die, gto, groupTypes
    <2>2. requests(inbox'[y]) = 0
      BY <2>1, LettersNone
    <2>3. snt_uc[y] \in Nat /\ requests(inbox[y]) \in Nat /\ answering(y) \in Nat
      BY RepliesTyped
    <2>4. answering(y)' = 0
      BY <2>1 DEF answering
    <2>5. sentToAll(y)' = sentToAll(y)
      BY <1>1 DEF sentToAll
    <2>6. Cardinality(sentToAll(y)) \in Nat
      <3>1. IsFiniteSet(sentToAll(y))
        BY SentFinite, FS_Subset DEF sentToAll
      <3> QED BY <3>1, FS_CardinalityType
    <2> QED BY <1>1, <2>2, <2>3, <2>4, <2>5, <2>6 DEF replies
  <1> QED BY <1>2, <1>3

\* A reply is sent: one request less for the sender, no more for anybody.
LEMMA RepliesAnswer ==
  ASSUME groupTypes, NEW m \in Member, NEW h, NEW dst, sends(m, h, dst),
         \A s \in Seq(Letter) : requests(Append(s, h)) = requests(s),
         phase[m] = "answer", casts' = casts, snt_uc' = [snt_uc EXCEPT ![m] = @ + 1],
         NEW y \in Member, replies(y) <= Cardinality(sentToAll(y))
  PROVE  replies(y)' <= Cardinality(sentToAll(y)')
  <1>1. sentToAll(y)' = sentToAll(y)
    BY DEF sentToAll
  <1>2. inbox[y] \in Seq(Letter) /\ snt_uc[y] \in Nat /\ requests(inbox[y]) \in Nat
    BY RepliesTyped DEF groupTypes
  <1>3. requests(inbox'[y]) = requests(inbox[y])
    <2>1. CASE y \in dst /\ group[y]
      <3>1. inbox'[y] = Append(inbox[y], h) /\ h \in Letter
        BY <2>1, Zenon DEF sends, deliver
      <3> QED BY <1>2, <3>1
    <2>2. CASE ~ (y \in dst /\ group[y])
      BY <2>2, Zenon DEF sends, deliver
    <2> QED BY <2>1, <2>2, Zenon
  <1>4. CASE y = m
    <2>1. snt_uc'[y] = snt_uc[y] + 1 /\ phase'[y] = "poll" /\ phase[y] = "answer"
      BY <1>4, Zenon DEF sends, gto, groupTypes
    <2>2. answering(y) = 1 /\ answering(y)' = 0
      BY <2>1 DEF answering
    <2>3. \A k, n \in Nat : k + 1 + n + 0 = k + n + 1
      OBVIOUS
    <2>4. snt_uc[y] + 1 + requests(inbox[y]) + 0 = snt_uc[y] + requests(inbox[y]) + 1
      BY <1>2, <2>3, Zenon
    <2>5. replies(y)' = replies(y)
      BY <1>3, <2>1, <2>2, <2>4, Zenon DEF replies
    <2> QED BY <1>1, <2>5, Zenon
  <1>5. CASE y # m
    <2>1. snt_uc'[y] = snt_uc[y] /\ phase'[y] = phase[y]
      BY <1>5, Zenon DEF sends, gto, groupTypes
    <2>2. replies(y)' = replies(y)
      BY <1>3, <2>1, Zenon DEF replies, answering
    <2> QED BY <1>1, <2>2, Zenon
  <1> QED BY <1>4, <1>5

\* A message is sent: the others may have one request more, out of one more.
LEMMA RepliesCast ==
  ASSUME groupTypes, NEW m \in Member, NEW h, NEW dst, sends(m, h, dst),
         phase[m] = "send", snt_uc' = snt_uc, casts[m] < MaxCasts,
         casts' = [casts EXCEPT ![m] = @ + 1],
         NEW y \in Member, replies(y) <= Cardinality(sentToAll(y))
  PROVE  replies(y)' <= Cardinality(sentToAll(y)')
  <1>1. /\ inbox[y] \in Seq(Letter) /\ snt_uc[y] \in Nat /\ requests(inbox[y]) \in Nat
        /\ answering(y) \in Nat
    BY RepliesTyped DEF groupTypes
  <1>2. /\ casts \in [Member -> 0 .. MaxCasts] /\ MaxCasts \in Nat
        /\ casts[m] \in Nat /\ casts'[m] = casts[m] + 1
        /\ \A x \in Member : x # m => casts'[x] = casts[x]
    BY GroupAssumption DEF groupTypes
  <1>3. answering(y)' <= answering(y) /\ answering(y)' \in Nat
    <2>1. phase'[y] = "answer" => phase[y] = "answer"
      <3>1. CASE y = m
        BY <3>1 DEF sends, gto, groupTypes
      <3>2. CASE y # m
        BY <3>2 DEF sends, gto, groupTypes
      <3> QED BY <3>1, <3>2
    <2> QED BY <2>1 DEF answering
  <1>4. IsFiniteSet(sentToAll(y)) /\ Cardinality(sentToAll(y)) \in Nat
    <2>1. IsFiniteSet(sentToAll(y))
      BY SentFinite, FS_Subset DEF sentToAll
    <2> QED BY <2>1, FS_CardinalityType
  <1>5. CASE y = m
    <2>1. sentToAll(y)' = sentToAll(y)
      BY <1>2, <1>5 DEF sentToAll
    <2>2. inbox'[y] = inbox[y]
      BY <1>5, Zenon DEF sends, deliver
    <2> QED BY <1>1, <1>3, <1>4, <2>1, <2>2 DEF replies
  <1>6. CASE y # m
    <2>1. /\ sentToAll(y)' = sentToAll(y) \cup {<<m, casts[m] + 1>>}
          /\ <<m, casts[m] + 1>> \notin sentToAll(y)
      <3>1. ASSUME NEW p \in (Member \ {y}) \X (1 .. MaxCasts)
            PROVE  p[2] <= casts'[p[1]] <=> p[2] <= casts[p[1]] \/ p = <<m, casts[m] + 1>>
        <4>1. p = <<p[1], p[2]>> /\ p[1] \in Member /\ p[2] \in 1 .. MaxCasts
          OBVIOUS
        <4>2. CASE p[1] = m
          BY <1>2, <4>1, <4>2
        <4>3. CASE p[1] # m
          BY <1>2, <4>1, <4>3
        <4> QED BY <4>2, <4>3
      <3>2. <<m, casts[m] + 1>> \in (Member \ {y}) \X (1 .. MaxCasts)
        BY <1>2, <1>6
      <3>3. ~ (casts[m] + 1 <= casts[m])
        BY <1>2
      <3> QED BY <3>1, <3>2, <3>3 DEF sentToAll
    <2>2. Cardinality(sentToAll(y)') = Cardinality(sentToAll(y)) + 1
      BY <1>4, <2>1, FS_AddElement
    <2>3. requests(inbox'[y]) \in Nat /\ requests(inbox'[y]) <= requests(inbox[y]) + 1
      <3>1. CASE y \in dst /\ group[y]
        <4>1. inbox'[y] = Append(inbox[y], h) /\ h \in Letter
          BY <3>1, Zenon DEF sends, deliver
        <4>2. requests(Append(inbox[y], h)) = requests(inbox[y]) + 1 \/ requests(Append(inbox[y], h)) = requests(inbox[y])
          BY <1>1, <4>1, LettersMore, Zenon
        <4> QED BY <1>1, <4>1, <4>2
      <3>2. CASE ~ (y \in dst /\ group[y])
        <4>1. inbox'[y] = inbox[y]
          BY <3>2, Zenon DEF sends, deliver
        <4> QED BY <1>1, <4>1
      <3> QED BY <3>1, <3>2, Zenon
    <2>4. \A a, b, c, d, e, k \in Nat : a + b + c <= k /\ d <= b + 1 /\ e <= c => a + d + e <= k + 1
      OBVIOUS
    <2>5. snt_uc[y] + requests(inbox'[y]) + answering(y)' <= Cardinality(sentToAll(y)) + 1
      <3>1. snt_uc[y] + requests(inbox[y]) + answering(y) <= Cardinality(sentToAll(y))
        BY DEF replies
      <3> QED BY <1>1, <1>3, <1>4, <2>3, <2>4, <3>1
    <2>6. replies(y)' = snt_uc[y] + requests(inbox'[y]) + answering(y)'
      BY DEF replies
    <2> QED BY <2>2, <2>5, <2>6
  <1> QED BY <1>5, <1>6

-----------------------------------------------------------------------------
(***************************************************************************)
(* Each action keeps the windows.                                          *)
(***************************************************************************)
windowed(a, b) ==
  /\ lettersOf(inbox[b], a) <= GroupWindow
  /\ phase[a] = "send" /\ phase[b] = "send" => lettersOf(inbox[b], a) = 0 \/ lettersOf(inbox[a], b) = 0
  /\ phase[b] = "send" /\ phase[a] = "answer" /\ src[a] = b /\ lettersOf(inbox[a], b) >= GroupWindow =>
       lettersOf(inbox[b], a) = 0

LEMMA WindowsAre ==
  groupTypes => \A a, b \in Member : windowOK(a, b) <=> windowed(a, b)
  BY QueuesAre, Zenon DEF windowOK, windowed

LEMMA WindowsAreNext ==
  groupTypes' => \A a, b \in Member : windowOK(a, b)' <=> windowed(a, b)'
  <1>1. (groupTypes => \A a, b \in Member : windowOK(a, b) <=> windowed(a, b))'
    BY WindowsAre, PTL
  <1> QED BY <1>1, Zenon

LEMMA WindowTyped ==
  ASSUME groupTypes, NEW a \in Member, NEW b \in Member
  PROVE  /\ inbox[b] \in Seq(Letter) /\ lettersOf(inbox[b], a) \in Nat
         /\ GroupWindow \in Nat /\ GroupWindow >= 1
  <1>1. inbox[b] \in Seq(Letter)
    BY DEF groupTypes
  <1>2. Len(inbox[b]) \in Int
    BY <1>1
  <1> QED BY <1>1, <1>2, MarksFinite, GroupAssumption DEF lettersOf

\* Two members of whom none comes to send or to answer, whose messages stay.
LEMMA WindowStays ==
  ASSUME NEW a, NEW b, windowed(a, b),
         inbox'[a] = inbox[a], inbox'[b] = inbox[b], src'[a] = src[a],
         phase'[a] = "send" => phase[a] = "send", phase'[b] = "send" => phase[b] = "send",
         phase'[a] = "answer" => phase[a] = "answer"
  PROVE  windowed(a, b)'
  BY DEF windowed

\* One that has read everything may send.
LEMMA WindowDrained ==
  ASSUME groupTypes, NEW m \in Member, Drained(m), NEW a \in Member, NEW b \in Member, windowed(a, b)
  PROVE  windowed(a, b)'
  <1>1. inbox' = inbox /\ src' = src /\ inbox[m] = <<>>
    BY Zenon DEF Drained
  <1>2. \A x \in Member : lettersOf(inbox[m], x) = 0
    BY <1>1, LettersNone
  <1>3. phase'[m] = "send" /\ \A x \in Member : x # m => phase'[x] = phase[x]
    BY DEF Drained, gto, groupTypes
  <1>4. CASE b = m
    BY <1>1, <1>2, <1>4 DEF windowed
  <1>5. CASE b # m /\ a = m
    BY <1>1, <1>2, <1>3, <1>5 DEF windowed
  <1>6. CASE b # m /\ a # m
    BY <1>1, <1>3, <1>6, WindowStays
  <1> QED BY <1>4, <1>5, <1>6

\* One that reads a request has room again for the one it answers.
LEMMA WindowReceive ==
  ASSUME groupTypes, NEW m \in Member, Receive(m), NEW a \in Member, NEW b \in Member,
         windowed(a, b), windowed(b, a)
  PROVE  windowed(a, b)'
  <1>1. CASE inbox[m] = <<>>
    <2>1. inbox' = inbox /\ src' = src /\ phase' = phase
      BY <1>1, Zenon DEF Receive
    <2> QED BY <2>1, WindowStays
  <1>2. CASE inbox[m] # <<>>
    <2>1. inbox'[m] = Tail(inbox[m]) /\ src'[m] = Head(inbox[m]).from
      BY <1>2, Zenon DEF Receive, groupTypes
    <2>2. phase'[m] \in {"poll", "answer"}
      <3>1. phase'[m] = IF Head(inbox[m]).reply THEN "answer" ELSE "poll"
        BY <1>2, Zenon DEF Receive, gto, groupTypes
      <3> QED BY <3>1, Zenon
    <2>3. \A x \in Member : x # m => inbox'[x] = inbox[x] /\ src'[x] = src[x] /\ phase'[x] = phase[x]
      BY <1>2, Zenon DEF Receive, gto, groupTypes
    <2>4. \A x \in Member :
            /\ lettersOf(Tail(inbox[m]), x) \in Nat
            /\ Head(inbox[m]).from = x => lettersOf(inbox[m], x) = lettersOf(Tail(inbox[m]), x) + 1
            /\ Head(inbox[m]).from # x => lettersOf(inbox[m], x) = lettersOf(Tail(inbox[m]), x)
      <3>1. inbox[m] \in Seq(Letter)
        BY DEF groupTypes
      <3> QED BY <1>2, <3>1, LettersLess, Zenon
    <2>5. \A x, y \in Member : lettersOf(inbox[y], x) \in Nat /\ GroupWindow \in Nat
      BY WindowTyped
    <2>6. CASE b = m
      <3>1. lettersOf(inbox[m], a) <= GroupWindow
        BY <2>6 DEF windowed
      <3>2. lettersOf(inbox'[m], a) <= GroupWindow
        BY <2>1, <2>4, <2>5, <3>1
      <3> QED BY <2>2, <2>6, <3>2 DEF windowed
    <2>7. CASE b # m /\ a = m
      <3>1. src'[m] = b => lettersOf(inbox'[m], b) < GroupWindow
        <4>1. lettersOf(inbox[m], b) <= GroupWindow => lettersOf(inbox[m], b) - 1 < GroupWindow
          BY <2>5
        <4>2. src'[m] = b => lettersOf(inbox'[m], b) = lettersOf(inbox[m], b) - 1
          <5>1. src'[m] = b => lettersOf(inbox[m], b) = lettersOf(Tail(inbox[m]), b) + 1
            BY <2>1, <2>4
          <5>2. lettersOf(Tail(inbox[m]), b) \in Nat
            BY <2>4
          <5> QED BY <2>1, <5>1, <5>2
        <4>3. lettersOf(inbox[m], b) <= GroupWindow
          BY <2>7 DEF windowed
        <4> QED BY <4>1, <4>2, <4>3
      <3>2. inbox'[b] = inbox[b] /\ lettersOf(inbox[b], m) <= GroupWindow
        BY <2>3, <2>7 DEF windowed
      <3>3. src'[m] = b => ~ (lettersOf(inbox'[m], b) >= GroupWindow)
        <4>1. lettersOf(inbox'[m], b) \in Nat /\ GroupWindow \in Nat
          BY <2>1, <2>4, <2>5
        <4> QED BY <3>1, <4>1
      <3>4. phase'[m] # "send"
        BY <2>2
      <3> QED BY <2>7, <3>2, <3>3, <3>4, Zenon DEF windowed
    <2>8. CASE b # m /\ a # m
      BY <2>3, <2>8, WindowStays
    <2> QED BY <2>6, <2>7, <2>8
  <1> QED BY <1>1, <1>2

LEMMA WindowEnds ==
  ASSUME groupTypes, NEW m \in Member, ends(m), NEW a \in Member, NEW b \in Member, windowed(a, b)
  PROVE  windowed(a, b)'
  <1>1. inbox'[m] = <<>> /\ phase'[m] = "dead" /\ src' = src
    BY Zenon DEF ends, die, gto, groupTypes
  <1>2. \A x \in Member : x # m => inbox'[x] = inbox[x] /\ phase'[x] = phase[x]
    BY Zenon DEF ends, die, gto, groupTypes
  <1>3. \A x : lettersOf(inbox'[m], x) = 0
    BY <1>1, LettersNone
  <1>4. GroupWindow \in Nat
    BY GroupAssumption
  <1>5. CASE b = m
    BY <1>3, <1>4, <1>5 DEF windowed
  <1>6. CASE b # m /\ a = m
    BY <1>1, <1>2, <1>6 DEF windowed
  <1>7. CASE b # m /\ a # m
    BY <1>1, <1>2, <1>7, WindowStays
  <1> QED BY <1>5, <1>6, <1>7

\* A message goes where there is room for it.
LEMMA WindowSends ==
  ASSUME groupTypes, NEW m \in Member, NEW h, NEW dst, sends(m, h, dst),
         NEW a \in Member, NEW b \in Member, windowed(a, b)
  PROVE  windowed(a, b)'
  <1>1. phase'[m] = "poll" /\ src' = src /\ \A x \in Member : x # m => phase'[x] = phase[x]
    BY DEF sends, gto, groupTypes
  <1>2. \A x, y \in Member : lettersOf(inbox[y], x) \in Nat /\ GroupWindow \in Nat
    BY WindowTyped
  <1>3. ASSUME NEW y \in Member, NEW x \in Member, x # m
        PROVE  lettersOf(inbox'[y], x) = lettersOf(inbox[y], x)
    <2>1. inbox[y] \in Seq(Letter)
      BY DEF groupTypes
    <2>2. CASE y \in dst /\ group[y]
      <3>1. inbox'[y] = Append(inbox[y], h) /\ h \in Letter /\ h.from = m
        BY <2>2, Zenon DEF sends, deliver
      <3>2. lettersOf(Append(inbox[y], h), x) = lettersOf(inbox[y], x)
        BY <1>3, <2>1, <3>1, LettersMore, Zenon
      <3> QED BY <3>1, <3>2
    <2>3. CASE ~ (y \in dst /\ group[y])
      BY <2>3, Zenon DEF sends, deliver
    <2> QED BY <2>2, <2>3, Zenon
  <1>4. lettersOf(inbox[b], m) <= GroupWindow => lettersOf(inbox'[b], m) <= GroupWindow
    <2>1. inbox[b] \in Seq(Letter)
      BY DEF groupTypes
    <2>2. CASE b \in dst /\ group[b]
      <3>1. inbox'[b] = Append(inbox[b], h) /\ h \in Letter /\ h.from = m
        BY <2>2, Zenon DEF sends, deliver
      <3>2. lettersOf(Append(inbox[b], h), m) = lettersOf(inbox[b], m) + 1
        BY <2>1, <3>1, LettersMore, Zenon
      <3>3. lettersOf(inbox[b], m) < GroupWindow
        <4>1. backlogOf(m, b) = lettersOf(inbox[b], m)
          BY QueuesAre, Zenon
        <4> QED BY <2>2, <4>1, Zenon DEF sends, open
      <3> QED BY <1>2, <3>1, <3>2, <3>3
    <2>3. CASE ~ (b \in dst /\ group[b])
      BY <2>3, Zenon DEF sends, deliver
    <2> QED BY <2>2, <2>3, Zenon
  <1>5. CASE a = m
    <2>1. lettersOf(inbox'[b], m) <= GroupWindow
      BY <1>4, <1>5 DEF windowed
    <2> QED BY <1>1, <1>5, <2>1 DEF windowed
  <1>6. CASE a # m /\ b = m
    BY <1>1, <1>3, <1>6 DEF windowed
  <1>7. CASE a # m /\ b # m
    BY <1>1, <1>3, <1>7 DEF windowed
  <1> QED BY <1>5, <1>6, <1>7

-----------------------------------------------------------------------------
(***************************************************************************)
(* The invariant of the group.                                             *)
(***************************************************************************)
LEMMA Parts ==
  ASSUME GroupInv
  PROVE  /\ groupTypes /\ countsLead
         /\ \A y \in Member : /\ lettersOK(y) /\ ordered(y)
                              /\ replies(y) <= Cardinality(sentToAll(y))
         /\ \A a, b \in Member : windowed(a, b)
  <1>1. groupTypes /\ CountTrue
    BY Zenon DEF GroupInv
  <1>2. countsLead
    BY <1>1, CountIs, Zenon
  <1>3. \A y \in Member : lettersOK(y) /\ ordered(y)
    BY <1>1, LettersAre, Zenon DEF GroupInv
  <1>4. \A y \in Member : replies(y) <= Cardinality(sentToAll(y))
    BY <1>1, RepliesAre, Zenon DEF GroupInv
  <1>5. \A a, b \in Member : windowed(a, b)
    BY <1>1, WindowsAre, Zenon DEF GroupInv
  <1> QED BY <1>1, <1>2, <1>3, <1>4, <1>5, Zenon

LEMMA Whole ==
  ASSUME groupTypes', countsLead', \A y \in Member : ordered(y)',
         \A y \in Member : replies(y)' <= Cardinality(sentToAll(y)'),
         \A a, b \in Member : windowed(a, b)'
  PROVE  GroupInv'
  <1>1. CountTrue'
    BY CountIsNext, Zenon
  <1>2. \A y \in Member : lettersOK(y)'
    BY LettersAreNext, Zenon
  <1>3. \A y \in Member : repliesOK(y)'
    BY RepliesAreNext, Zenon
  <1>4. \A a, b \in Member : windowOK(a, b)'
    BY WindowsAreNext, Zenon
  <1> QED BY <1>1, <1>2, <1>3, <1>4, Zenon DEF GroupInv

LEMMA GroupStays ==
  ASSUME GroupInv, UNCHANGED gvars
  PROVE  GroupInv'
  <1>1. UNCHANGED <<opts, phase, evt, member_cnt, group, inbox, src, casts, snt_uc, rcv_uc>>
    BY Zenon DEF gvars, counts
  <1>2. groupTypes'
    BY <1>1, Parts, Zenon DEF groupTypes
  <1>3. countsLead'
    <2>1. \A x \in Member : awake(x)' => awake(x)
      BY <1>1 DEF awake
    <2> QED BY <1>1, <2>1, Parts, CountStays, Zenon
  <1>4. \A y \in Member : ordered(y)'
    BY <1>1, Parts, OrderStays, Zenon
  <1>5. \A y \in Member : replies(y)' <= Cardinality(sentToAll(y)')
    BY <1>1, Parts, RepliesStay, Zenon
  <1>6. \A a, b \in Member : windowed(a, b)'
    BY <1>1, Parts, WindowStays, Zenon
  <1> QED BY <1>2, <1>3, <1>4, <1>5, <1>6, Whole, Zenon

\* A step that moves one member and leaves every message where it is.
LEMMA QuietStep ==
  ASSUME GroupInv, NEW m \in Member, groupTypes', UNCHANGED <<inbox, src, casts, snt_uc>>,
         \A x \in Member : x # m => phase'[x] = phase[x],
         phase'[m] \in {"discover", "poll"}
  PROVE  /\ \A y \in Member : replies(y)' <= Cardinality(sentToAll(y)')
         /\ \A a, b \in Member : windowed(a, b)'
  <1>1. \A x \in Member : (phase'[x] = "answer" => phase[x] = "answer") /\ (phase'[x] = "send" => phase[x] = "send")
    OBVIOUS
  <1>2. \A y \in Member : replies(y)' <= Cardinality(sentToAll(y)')
    BY <1>1, Parts, RepliesStay, Zenon
  <1>3. \A a, b \in Member : windowed(a, b)'
    BY <1>1, Parts, WindowStays, Zenon
  <1> QED BY <1>2, <1>3

LEMMA GroupSubscribe ==
  ASSUME GroupInv, NEW m \in Member, Subscribe(m)
  PROVE  GroupInv'
  <1>1. groupTypes'
    BY Parts, TypesSubscribe, Zenon
  <1>2. countsLead'
    BY Parts, CountSubscribe, Zenon
  <1>3. \A y \in Member : ordered(y)'
    BY Parts, OrderSubscribe, Zenon
  <1>4. UNCHANGED <<inbox, src, casts, snt_uc>>
    BY Zenon DEF Subscribe, counts
  <1>5. phase'[m] = "discover" /\ \A x \in Member : x # m => phase'[x] = phase[x]
    BY Parts, Zenon DEF Subscribe, gto, groupTypes
  <1>6. phase'[m] \in {"discover", "poll"}
    BY <1>5, Zenon
  <1> QED BY <1>1, <1>2, <1>3, <1>4, <1>5, <1>6, QuietStep, Whole, Zenon

LEMMA GroupDiscover ==
  ASSUME GroupInv, NEW m \in Member, Discover(m)
  PROVE  GroupInv'
  <1>1. groupTypes'
    BY Parts, TypesDiscover, Zenon
  <1>2. phase' = phase /\ phase[m] = "discover" /\ awake(m)
    <2>1. phase' = phase /\ phase[m] = "discover"
      BY Zenon DEF Discover, in
    <2> QED BY <2>1 DEF awake
  <1>3. countsLead'
    <2>1. \A x \in Member : awake(x)' => awake(x)
      BY <1>2, Zenon DEF awake
    <2> QED BY <1>2, <2>1, Parts, CountEvent, Zenon DEF Discover
  <1>4. \A y \in Member : ordered(y)'
    BY Parts, OrderDiscover, Zenon
  <1>5. UNCHANGED <<inbox, src, casts, snt_uc>>
    BY Zenon DEF Discover, counts
  <1>6. phase'[m] \in {"discover", "poll"} /\ \A x \in Member : x # m => phase'[x] = phase[x]
    BY <1>2, Zenon
  <1> QED BY <1>1, <1>3, <1>4, <1>5, <1>6, QuietStep, Whole, Zenon

LEMMA GroupJoin ==
  ASSUME GroupInv, NEW m \in Member, Join(m)
  PROVE  GroupInv'
  <1>1. groupTypes'
    BY Parts, TypesJoin, Zenon
  <1>2. ~ group[m]
    <2>1. phase[m] = "discover"
      BY Zenon DEF Join, in
    <2>2. phase[m] \notin {"poll", "send", "answer"}
      BY <2>1
    <2> QED BY <2>2, Parts, Zenon DEF ordered
  <1>3. countsLead'
    BY <1>2, Parts, CountJoin, Zenon
  <1>4. \A y \in Member : ordered(y)'
    BY Parts, OrderJoin, Zenon
  <1>5. UNCHANGED <<inbox, src, casts, snt_uc>>
    BY Zenon DEF Join, counts
  <1>6. phase'[m] = "poll" /\ \A x \in Member : x # m => phase'[x] = phase[x]
    BY Parts, Zenon DEF Join, gto, groupTypes
  <1>7. phase'[m] \in {"discover", "poll"}
    BY <1>6, Zenon
  <1> QED BY <1>1, <1>3, <1>4, <1>5, <1>6, <1>7, QuietStep, Whole, Zenon

LEMMA GroupReceive ==
  ASSUME GroupInv, NEW m \in Member, Receive(m)
  PROVE  GroupInv'
  <1>1. groupTypes'
    BY Parts, TypesReceive, Zenon
  <1>2. countsLead'
    <2>1. group' = group
      BY Zenon DEF Receive
    <2>2. awake(m)
      BY DEF Receive, in, awake
    <2>3. \A x \in Member : awake(x)' => awake(x)
      <3>1. CASE inbox[m] = <<>>
        BY <3>1, Zenon DEF Receive, awake
      <3>2. CASE inbox[m] # <<>>
        <4>1. \A x \in Member : x # m => phase'[x] = phase[x]
          BY <3>2, Parts, Zenon DEF Receive, gto, groupTypes
        <4> QED BY <2>2, <4>1, Zenon DEF awake
      <3> QED BY <3>1, <3>2
    <2>4. CASE evt[m] # <<>>
      <3>1. discover_member(m)
        BY <2>4, Zenon DEF Receive
      <3> QED BY <2>1, <2>2, <2>3, <2>4, <3>1, Parts, CountEvent, Zenon
    <2>5. CASE evt[m] = <<>>
      <3>1. UNCHANGED <<evt, member_cnt>>
        BY <2>5, Zenon DEF Receive
      <3> QED BY <2>1, <2>3, <3>1, Parts, CountStays, Zenon
    <2> QED BY <2>4, <2>5
  <1>3. \A y \in Member : ordered(y)'
    BY Parts, OrderReceive, Zenon
  <1>4. \A y \in Member : replies(y)' <= Cardinality(sentToAll(y)')
    BY Parts, RepliesReceive, Zenon
  <1>5. \A a, b \in Member : windowed(a, b)'
    BY Parts, WindowReceive, Zenon
  <1> QED BY <1>1, <1>2, <1>3, <1>4, <1>5, Whole, Zenon

LEMMA GroupDrained ==
  ASSUME GroupInv, NEW m \in Member, Drained(m)
  PROVE  GroupInv'
  <1>1. groupTypes'
    BY Parts, TypesDrained, Zenon
  <1>2. /\ UNCHANGED <<evt, member_cnt, group, inbox, casts, snt_uc>>
        /\ phase[m] = "poll" /\ phase'[m] = "send" /\ \A x \in Member : x # m => phase'[x] = phase[x]
    BY Parts, Zenon DEF Drained, in, gto, counts, groupTypes
  <1>3. countsLead'
    <2>1. \A x \in Member : awake(x)' => awake(x)
      BY <1>2 DEF awake
    <2> QED BY <1>2, <2>1, Parts, CountStays, Zenon
  <1>4. \A y \in Member : ordered(y)'
    BY Parts, OrderDrained, Zenon
  <1>5. \A y \in Member : replies(y)' <= Cardinality(sentToAll(y)')
    <2>1. \A y \in Member : phase'[y] = "answer" => phase[y] = "answer"
      BY <1>2
    <2> QED BY <1>2, <2>1, Parts, RepliesStay, Zenon
  <1>6. \A a, b \in Member : windowed(a, b)'
    BY Parts, WindowDrained, Zenon
  <1> QED BY <1>1, <1>3, <1>4, <1>5, <1>6, Whole, Zenon

LEMMA GroupEnds ==
  ASSUME GroupInv, NEW m \in Member, ends(m)
  PROVE  GroupInv'
  <1>1. groupTypes'
    BY Parts, TypesEnds, Zenon
  <1>2. countsLead'
    BY Parts, CountEnds, Zenon
  <1>3. \A y \in Member : ordered(y)'
    BY Parts, OrderEnds, Zenon
  <1>4. \A y \in Member : replies(y)' <= Cardinality(sentToAll(y)')
    BY Parts, RepliesEnds, Zenon
  <1>5. \A a, b \in Member : windowed(a, b)'
    BY Parts, WindowEnds, Zenon
  <1> QED BY <1>1, <1>2, <1>3, <1>4, <1>5, Whole, Zenon

LEMMA GroupSends ==
  ASSUME GroupInv, NEW m \in Member, NEW h, NEW dst, sends(m, h, dst),
         casts' \in [Member -> 0 .. MaxCasts], snt_uc' \in [Member -> Nat],
         \A y \in dst : h \in proper(y),
         \A y \in Member : replies(y)' <= Cardinality(sentToAll(y)')
  PROVE  GroupInv'
  <1>1. groupTypes'
    BY Parts, TypesSends, Zenon
  <1>2. countsLead'
    <2>1. phase[m] \in {"send", "answer"} /\ \A x \in Member : x # m => phase'[x] = phase[x]
      BY Parts, Zenon DEF sends, gto, groupTypes
    <2>2. \A x \in Member : awake(x)' => awake(x)
      BY <2>1 DEF awake
    <2> QED BY <2>2, Parts, CountStays, Zenon DEF sends
  <1>3. \A y \in Member : ordered(y)'
    BY Parts, OrderSends, Zenon
  <1>4. \A a, b \in Member : windowed(a, b)'
    BY Parts, WindowSends, Zenon
  <1> QED BY <1>1, <1>2, <1>3, <1>4, Whole, Zenon

LEMMA GroupAnswer ==
  ASSUME GroupInv, NEW m \in Member, Answer(m)
  PROVE  GroupInv'
  <1>1. /\ phase[m] = "answer" /\ casts' = casts
        /\ UNCHANGED <<opts, member_cnt, src, rcv_uc>>
    BY Zenon DEF Answer, in
  <1>2. CASE ~ group[src[m]] /\ die(m) /\ UNCHANGED snt_uc
    <2>1. ends(m)
      BY <1>1, <1>2, Zenon DEF ends
    <2> QED BY <2>1, GroupEnds
  <1>3. CASE /\ open(m, src[m])
             /\ deliver(message("UCAST", m, FALSE), {src[m]})
             /\ snt_uc' = [snt_uc EXCEPT ![m] = @ + 1]
             /\ gto(m, "poll")
             /\ UNCHANGED <<evt, group>>
    <2> DEFINE h == message("UCAST", m, FALSE)
               dst == {src[m]}
    <2>1. src[m] # m /\ opts[src[m]].reply /\ src[m] \in Member
      BY <1>1, Parts, Zenon DEF ordered, groupTypes
    <2>2. h \in Letter /\ h.from = m /\ h.type = "UCAST" /\ ~ h.reply
      <3>1. "UCAST" \in {"NONE", "BCAST", "MCAST", "ACAST", "UCAST"} /\ FALSE \in BOOLEAN
        BY Zenon
      <3> QED BY <3>1, Zenon DEF Letter, message
    <2> HIDE DEF h, dst
    <2>3. sends(m, h, dst)
      <3>1. phase[m] \in {"send", "answer"} /\ dst \subseteq Member \ {m}
        BY <1>1, <2>1, Zenon DEF dst
      <3> QED BY <1>1, <1>3, <2>2, <3>1, Zenon DEF sends, h, dst
    <2>4. \A y \in dst : h \in proper(y)
      BY <2>1, <2>2, Zenon DEF proper, dst
    <2>5. \A s \in Seq(Letter) : requests(Append(s, h)) = requests(s)
      BY <2>2, LettersMore, Zenon
    <2>6. \A y \in Member : replies(y)' <= Cardinality(sentToAll(y)')
      BY <1>1, <1>3, <2>3, <2>5, Parts, RepliesAnswer, Zenon
    <2>7. casts' \in [Member -> 0 .. MaxCasts]
      BY <1>1, Parts, Zenon DEF groupTypes
    <2>8. snt_uc' \in [Member -> Nat]
      <3>1. \A n \in Nat : n + 1 \in Nat
        OBVIOUS
      <3> QED BY <1>3, <3>1, Parts, Zenon DEF groupTypes
    <2> QED BY <2>3, <2>4, <2>6, <2>7, <2>8, GroupSends, Zenon
  <1> QED BY <1>2, <1>3, Zenon DEF Answer

LEMMA GroupSendsOut ==
  ASSUME GroupInv, NEW m \in Member, Cast(m)
  PROVE  GroupInv'
  <1>1. /\ phase[m] = "send" /\ casts[m] < MaxCasts
        /\ UNCHANGED <<opts, src, snt_uc, rcv_uc>>
    BY Zenon DEF Cast, in
  <1>2. CASE joined \subseteq {m}
    <2>1. ends(m)
      BY <1>1, <1>2, Zenon DEF Cast, ends
    <2> QED BY <2>1, GroupEnds
  <1>3. CASE ~ (joined \subseteq {m})
    <2> DEFINE h == message(opts[m].mtyp, m, opts[m].reply)
    <2>1. PICK dst \in destinations(m) : (\A x \in dst : open(m, x)) /\ deliver(h, dst)
      BY <1>3, Zenon DEF Cast
    <2>2. /\ casts' = [casts EXCEPT ![m] = @ + 1] /\ gto(m, "poll")
          /\ UNCHANGED <<evt, member_cnt, group>>
      BY <1>3, Zenon DEF Cast
    <2>3. dst \subseteq Member \ {m}
      <3>1. joined \subseteq Member
        BY Zenon DEF joined
      <3>2. CASE opts[m].mtyp = "ACAST"
        <4>1. dst \in {{x} : x \in joined \ {m}}
          BY <3>2, Zenon DEF destinations
        <4> QED BY <3>1, <4>1, Zenon
      <3>3. CASE opts[m].mtyp # "ACAST"
        <4>1. dst \in {joined \ {m}}
          BY <3>3, Zenon DEF destinations
        <4> QED BY <3>1, <4>1, Zenon
      <3> QED BY <3>2, <3>3
    <2>4. /\ opts[m].mtyp \in {"NONE", "BCAST", "MCAST", "ACAST"} /\ opts[m].reply \in BOOLEAN
      BY Parts, Zenon DEF groupTypes
    <2>5. /\ h \in Letter /\ h.from = m /\ h.type # "UCAST" /\ (h.reply => opts[m].reply)
      <3>1. opts[m].mtyp \in {"NONE", "BCAST", "MCAST", "ACAST", "UCAST"} /\ opts[m].mtyp # "UCAST"
        BY <2>4
      <3> QED BY <2>4, <3>1, Zenon DEF Letter, message
    <2> HIDE DEF h
    <2>6. sends(m, h, dst)
      <3>1. phase[m] \in {"send", "answer"}
        BY <1>1, Zenon
      <3> QED BY <1>1, <2>1, <2>2, <2>3, <2>5, <3>1, Zenon DEF sends
    <2>7. \A y \in dst : h \in proper(y)
      BY <2>3, <2>5, Zenon DEF proper
    <2>8. \A y \in Member : replies(y)' <= Cardinality(sentToAll(y)')
      BY <1>1, <2>2, <2>6, Parts, RepliesCast, Zenon
    <2>9. casts' \in [Member -> 0 .. MaxCasts]
      <3>1. \A n \in 0 .. MaxCasts : n < MaxCasts => n + 1 \in 0 .. MaxCasts
        BY GroupAssumption
      <3> QED BY <1>1, <2>2, <3>1, Parts, Zenon DEF groupTypes
    <2>10. snt_uc' \in [Member -> Nat]
      BY <1>1, Parts, Zenon DEF groupTypes
    <2> QED BY <2>6, <2>7, <2>8, <2>9, <2>10, GroupSends, Zenon
  <1> QED BY <1>2, <1>3

\* Nobody has been started.
LEMMA GroupStarts ==
  ASSUME GroupInit
  PROVE  GroupInv
  <1>1. groupTypes
    <2>1. opts \in [Member -> [mtyp : {"NONE", "BCAST", "MCAST", "ACAST"}, reply : BOOLEAN, stops : BOOLEAN]]
      BY GroupAssumption, Zenon DEF GroupInit
    <2>2. 0 \in 0 .. MaxCasts /\ 0 \in Nat /\ 0 \in Int
      BY GroupAssumption
    <2>3. <<>> \in Seq(BOOLEAN) /\ <<>> \in Seq(Letter)
      OBVIOUS
    <2>4. FALSE \in BOOLEAN /\ "off" \in {"off", "discover", "poll", "send", "answer", "dead"}
      BY Zenon
    <2> QED BY <2>1, <2>2, <2>3, <2>4, Zenon DEF GroupInit, groupTypes
  <1>2. \A y \in Member : /\ phase[y] = "off" /\ inbox[y] = <<>> /\ ~ group[y] /\ member_cnt[y] = 0
                          /\ snt_uc[y] = 0 /\ rcv_uc[y] = 0
    BY Zenon DEF GroupInit
  <1>3. countsLead
    <2>1. \A y \in Member : ~ awake(y)
      BY <1>2 DEF awake
    <2> QED BY <2>1, Zenon DEF countsLead
  <1>4. \A y \in Member : ordered(y)
    <2>1. "off" \notin {"poll", "send", "answer"} /\ "off" # "answer"
      OBVIOUS
    <2>2. \A A : <<>> \in Seq(A)
      OBVIOUS
    <2> QED BY <1>2, <2>1, <2>2, Zenon DEF ordered
  <1>5. ASSUME NEW y \in Member PROVE replies(y) <= Cardinality(sentToAll(y))
    <2>1. IsFiniteSet(sentToAll(y))
      BY SentFinite, FS_Subset DEF sentToAll
    <2>2. Cardinality(sentToAll(y)) \in Nat
      BY <2>1, FS_CardinalityType
    <2>3. requests(inbox[y]) = 0
      BY <1>2, LettersNone
    <2>4. answering(y) = 0
      BY <1>2 DEF answering
    <2>5. replies(y) = 0 + 0 + 0
      BY <1>2, <2>3, <2>4, Zenon DEF replies
    <2> QED BY <2>2, <2>5
  <1>6. \A a, b \in Member : windowed(a, b)
    <2>1. \A a, b \in Member : lettersOf(inbox[b], a) = 0
      BY <1>2, LettersNone
    <2> QED BY <2>1, GroupAssumption DEF windowed
  <1>7. CountTrue
    BY <1>1, <1>3, CountIs, Zenon
  <1>8. \A y \in Member : lettersOK(y)
    BY <1>1, <1>4, LettersAre, Zenon
  <1>9. \A y \in Member : repliesOK(y)
    BY <1>1, <1>5, RepliesAre, Zenon
  <1>10. \A a, b \in Member : windowOK(a, b)
    BY <1>1, <1>6, WindowsAre, Zenon
  <1> QED BY <1>1, <1>7, <1>8, <1>9, <1>10, Zenon DEF GroupInv

-----------------------------------------------------------------------------
\* GroupInv is inductive, for any number of members with any options, that
\* broadcast, multicast or anycast, ask for replies, and are stopped or die at
\* any step (group_cast.c).
THEOREM GroupInductive ==
  BlastSpec => []GroupInv
  <1>1. BlastInit => GroupInv
    BY GroupStarts DEF BlastInit
  <1>2. GroupInv /\ [BlastNext]_<<mvars, gvars, program>> => GroupInv'
    <2> SUFFICES ASSUME GroupInv, [BlastNext]_<<mvars, gvars, program>> PROVE GroupInv'
      OBVIOUS
    <2>1. CASE UNCHANGED gvars
      BY <2>1, GroupStays
    <2>2. ASSUME NEW m \in Member,
                 \/ Subscribe(m) \/ Discover(m) \/ Join(m) \/ Receive(m) \/ Drained(m)
                 \/ Answer(m) \/ Cast(m) \/ Stop(m)
          PROVE  GroupInv'
      <3>1. ASSUME Stop(m) PROVE GroupInv'
        <4>1. ends(m)
          BY <3>1, Zenon DEF Stop, ends, counts
        <4> QED BY <4>1, GroupEnds
      <3> QED BY <2>2, <3>1, GroupSubscribe, GroupDiscover, GroupJoin, GroupReceive, GroupDrained,
                 GroupAnswer, GroupSendsOut, Zenon
    <2>3. CASE GroupNext
      BY <2>2, <2>3, Zenon DEF GroupNext
    <2>4. CASE UNCHANGED <<mvars, gvars, program>>
      BY <2>1, <2>4, Zenon
    <2> QED BY <2>1, <2>3, <2>4, Zenon DEF BlastNext
  <1> QED BY <1>1, <1>2, PTL DEF BlastSpec

\* A member's count and its unread events always add up to the members there
\* are, whoever joins, is stopped or dies while it reads them; and it never
\* counts less than nobody or more than everybody (discover_member).
THEOREM CountsTrue ==
  BlastSpec => []CountTrue
  <1>1. GroupInv => CountTrue
    BY Zenon DEF GroupInv
  <1> QED BY <1>1, GroupInductive, PTL

\* Replies end: no more are sent than the others can have asked for, and a
\* member that asks for none gets none (group_transceive).
THEOREM RepliesBounded ==
  BlastSpec => []RepliesEnd
  <1>1. GroupInv => RepliesEnd
    <2> SUFFICES ASSUME GroupInv, NEW m \in Member
                 PROVE  /\ snt_uc[m] <= (Cardinality(Member) - 1) * MaxCasts
                        /\ opts[m].reply = FALSE => rcv_uc[m] = 0
      BY Zenon DEF RepliesEnd
    <2>1. opts[m].reply = FALSE => rcv_uc[m] = 0
      BY Parts, Zenon DEF lettersOK
    <2>2. snt_uc[m] \in Nat /\ requests(inbox[m]) \in Nat /\ answering(m) \in Nat
      BY Parts, RepliesTyped
    <2>3. /\ Cardinality(sentToAll(m)) \in Nat
          /\ Cardinality(sentToAll(m)) <= (Cardinality(Member) - 1) * MaxCasts
      <3>1. /\ IsFiniteSet(sentToAll(m))
            /\ Cardinality(sentToAll(m)) <= Cardinality((Member \ {m}) \X (1 .. MaxCasts))
        BY SentFinite, FS_Subset DEF sentToAll
      <3>2. Cardinality((Member \ {m}) \X (1 .. MaxCasts)) = (Cardinality(Member) - 1) * MaxCasts
        BY SentFinite
      <3>3. Cardinality(sentToAll(m)) \in Nat
        BY <3>1, FS_CardinalityType
      <3> QED BY <3>1, <3>2, <3>3, Zenon
    <2>4. (Cardinality(Member) - 1) * MaxCasts \in Int
      <3>1. Cardinality((Member \ {m}) \X (1 .. MaxCasts)) \in Nat
        BY SentFinite, FS_CardinalityType
      <3>2. Cardinality((Member \ {m}) \X (1 .. MaxCasts)) \in Int
        BY <3>1
      <3> QED BY <3>2, SentFinite, Zenon
    <2>5. snt_uc[m] + requests(inbox[m]) + answering(m) <= Cardinality(sentToAll(m))
      BY Parts, Zenon DEF replies
    <2>6. \A a, b, c, k \in Nat : \A n \in Int : a + b + c <= k /\ k <= n => a <= n
      OBVIOUS
    <2>7. snt_uc[m] <= (Cardinality(Member) - 1) * MaxCasts
      BY <2>2, <2>3, <2>4, <2>5, <2>6
    <2> QED BY <2>1, <2>7, Zenon
  <1> QED BY <1>1, GroupInductive, PTL

\* With at most one member that asks for replies no two members ever wait to
\* send to each other, whatever the window: two that send have not both failed
\* to read, and who answers a sender reads before it answers again.
THEOREM NobodyStuck ==
  BlastSpec => []NoStandstill
  <1>1. GroupInv => NoStandstill
    <2> DEFINE askers == {y \in Member : opts[y].reply}
    <2> SUFFICES ASSUME GroupInv, Cardinality(askers) <= 1,
                        NEW m \in Member, NEW x \in Member, waits(m, x), waits(x, m)
                 PROVE  FALSE
      BY Zenon DEF NoStandstill
    <2>1. groupTypes /\ windowOK(m, x) /\ windowOK(x, m)
      BY Zenon DEF GroupInv
    <2>2. /\ backlogOf(m, x) \in Nat /\ backlogOf(x, m) \in Nat
          /\ GroupWindow \in Nat /\ GroupWindow >= 1
      BY <2>1, QueuesAre, WindowTyped
    <2>3. backlogOf(m, x) >= GroupWindow /\ backlogOf(x, m) >= GroupWindow
      <3>1. ~ open(m, x) /\ ~ open(x, m)
        BY Zenon DEF waits
      <3>2. ~ (backlogOf(m, x) < GroupWindow) /\ ~ (backlogOf(x, m) < GroupWindow)
        BY <3>1, Zenon DEF open
      <3> QED BY <2>2, <3>2
    <2>4. backlogOf(m, x) # 0 /\ backlogOf(x, m) # 0
      BY <2>2, <2>3
    <2>5. CASE phase[m] = "answer" /\ phase[x] = "answer"
      <3>1. "answer" # "send"
        OBVIOUS
      <3>2. x = src[m] /\ m = src[x]
        BY <2>5, <3>1, Zenon DEF waits
      <3>3. x # m /\ x \in askers /\ m \in askers
        BY <2>5, <3>2, Parts, Zenon DEF ordered
      <3>4. IsFiniteSet(askers)
        <4>1. askers \subseteq Member
          BY Zenon
        <4> QED BY <4>1, GroupAssumption, FS_Subset
      <3> HIDE DEF askers
      <3>5. Cardinality({m, x}) <= Cardinality(askers)
        <4>1. {m, x} \subseteq askers
          BY <3>3, Zenon
        <4> QED BY <3>4, <4>1, FS_Subset
      <3>6. Cardinality({m, x}) = 2
        <4>1. IsFiniteSet({x}) /\ Cardinality({x}) = 1
          BY FS_Singleton
        <4>2. {m, x} = {x} \cup {m} /\ m \notin {x}
          BY <3>3, Zenon
        <4>3. Cardinality({x} \cup {m}) = 1 + 1
          BY <4>1, <4>2, FS_AddElement
        <4> QED BY <4>2, <4>3
      <3>7. Cardinality(askers) \in Nat
        BY <3>4, FS_CardinalityType
      <3> QED BY <3>5, <3>6, <3>7
    <2>6. CASE phase[m] = "send" /\ phase[x] = "send"
      BY <2>1, <2>4, <2>6 DEF windowOK
    <2>7. CASE phase[m] = "send" /\ phase[x] = "answer"
      <3>1. "answer" # "send"
        OBVIOUS
      <3>2. m = src[x]
        BY <2>7, <3>1, Zenon DEF waits
      <3> QED BY <2>1, <2>3, <2>4, <2>7, <3>2, Zenon DEF windowOK
    <2>8. CASE phase[m] = "answer" /\ phase[x] = "send"
      <3>1. "answer" # "send"
        OBVIOUS
      <3>2. x = src[m]
        BY <2>8, <3>1, Zenon DEF waits
      <3> QED BY <2>1, <2>3, <2>4, <2>8, <3>2, Zenon DEF windowOK
    <2> QED BY <2>5, <2>6, <2>7, <2>8, Zenon DEF waits
  <1> QED BY <1>1, GroupInductive, PTL

-----------------------------------------------------------------------------
(***************************************************************************)
(* The transmissions.  Sequence numbers do not wrap within one.            *)
(***************************************************************************)
LEMMA SeqnoFacts ==
  /\ SEQNOS \in Nat /\ Packets \in Nat /\ Packets >= 1 /\ Packets < SEQNOS /\ MaxTests \in Nat
  /\ (SEQNOS - 1 + 1) % SEQNOS = 0
  /\ \A a \in Int : 0 <= a /\ a < SEQNOS => a % SEQNOS = a
  /\ \A a \in Int : a % SEQNOS >= 0 /\ a % SEQNOS < SEQNOS /\ a % SEQNOS \in Int
  <1>1. SEQNOS = 65536
    BY DEF SEQNOS
  <1>2. Packets \in 1 .. SEQNOS - 1 /\ MaxTests \in Nat
    BY McastAssumption
  <1>3. (65536 - 1 + 1) % 65536 = 0
    OBVIOUS
  <1>4. ASSUME NEW a \in Int, 0 <= a, a < 65536 PROVE a % 65536 = a
    BY <1>4
  <1>5. ASSUME NEW a \in Int PROVE a % 65536 >= 0 /\ a % 65536 < 65536 /\ a % 65536 \in Int
    OBVIOUS
  <1>6. \A a \in Int : 0 <= a /\ a < SEQNOS => a % SEQNOS = a
    BY <1>1, <1>4
  <1>7. \A a \in Int : a % SEQNOS >= 0 /\ a % SEQNOS < SEQNOS /\ a % SEQNOS \in Int
    BY <1>1, <1>5
  <1>8. (SEQNOS - 1 + 1) % SEQNOS = 0
    BY <1>1, <1>3
  <1>9. SEQNOS \in Nat /\ Packets \in Nat /\ Packets >= 1 /\ Packets < SEQNOS /\ MaxTests \in Nat
    BY <1>1, <1>2
  <1> QED BY <1>6, <1>7, <1>8, <1>9

\* What the code does with one packet: number r of transmission t of node d.
reads(n, d, t, r) ==
  /\ d \in Node /\ t \in 1 .. MaxTests /\ r \in 1 .. Packets
  /\ rq[n] # <<>> /\ Head(rq[n]).domain = d /\ Head(rq[n]).test = t
  /\ Head(rq[n]).remaining_pkts = r /\ Head(rq[n]).seqno = Packets - r
  /\ rq'[n] = Tail(rq[n])
  /\ saw'[n] = [saw[n] EXCEPT ![<<d, t>>] = @ \cup {r}]

\* The record after it, and the gaps reported.
cntAfter(n, d) == sndrs[n][slot(d)].cnt + 1
totalAfter(n, d, r) == IF sndrs[n][slot(d)].cnt = 0 THEN r ELSE sndrs[n][slot(d)].total_cnt
gapsAfter(n, d, r) ==
  gaps[n][d] + IF sndrs[n][slot(d)].cnt # 0 THEN (Packets - r - sndrs[n][slot(d)].rcv_nxt) % SEQNOS ELSE 0

\* What is kept of it.
keeps(n, d, t, r) ==
  /\ \A x \in Node : slot(x) # slot(d) => sndrs'[n][slot(x)] = sndrs[n][slot(x)]
  /\ \A x \in Node : x # d => gaps'[n][x] = gaps[n][x]
  /\ r # 1 => /\ sndrs'[n][slot(d)] = [rcv_nxt |-> (Packets - r + 1) % SEQNOS, cnt |-> cntAfter(n, d),
                                       total_cnt |-> totalAfter(n, d, r)]
              /\ gaps'[n][d] = gapsAfter(n, d, r) /\ said'[n] = said[n]
  /\ r = 1 => /\ sndrs'[n][slot(d)] = clear /\ gaps'[n][d] = 0
              /\ said'[n] = [from |-> d, test |-> t, gaps |-> gapsAfter(n, d, r),
                             ok |-> cntAfter(n, d) = totalAfter(n, d, r),
                             missing |-> (totalAfter(n, d, r) - cntAfter(n, d)) % SEQNOS]

\* The state of one receiver.
same(n) == /\ rq'[n] = rq[n] /\ saw'[n] = saw[n] /\ sndrs'[n] = sndrs[n]
           /\ gaps'[n] = gaps[n] /\ said'[n] = said[n]

LEMMA HeadOf ==
  ASSUME mcastTypes, NEW n \in Node, rq[n] # <<>>
  PROVE  /\ Head(rq[n]) \in Packet /\ Tail(rq[n]) \in Seq(Packet) /\ Head(rq[n]) = rq[n][1]
         /\ Len(rq[n]) \in Nat /\ Len(rq[n]) >= 1 /\ Len(Tail(rq[n])) = Len(rq[n]) - 1
         /\ \A i \in 1 .. Len(Tail(rq[n])) : Tail(rq[n])[i] = rq[n][i + 1]
  <1>1. rq[n] \in Seq(Packet)
    BY DEF mcastTypes
  <1> QED BY <1>1

LEMMA SlotDomain ==
  ASSUME mcastTypes, NEW n \in Node, NEW x \in Node
  PROVE  /\ slot(x) \in {slot(y) : y \in Node} /\ sndrs[n] \in [{slot(y) : y \in Node} -> Record]
         /\ sndrs[n][slot(x)] \in Record /\ gaps[n] \in [Node -> Nat] /\ gaps[n][x] \in Nat
         /\ sndrs[n][slot(x)].cnt \in Nat /\ sndrs[n][slot(x)].total_cnt \in 0 .. Packets
         /\ sndrs[n][slot(x)].rcv_nxt \in 0 .. SEQNOS - 1
  <1>1. slot(x) \in {slot(y) : y \in Node} /\ sndrs[n] \in [{slot(y) : y \in Node} -> Record]
    BY DEF mcastTypes
  <1>2. sndrs[n][slot(x)] \in Record
    BY <1>1, Zenon
  <1>3. gaps[n] \in [Node -> Nat] /\ gaps[n][x] \in Nat
    BY DEF mcastTypes
  <1> QED BY <1>1, <1>2, <1>3 DEF Record

\* One step of a receiver is such a reading.
LEMMA ReceiverReads ==
  ASSUME mcastTypes, NEW n \in Node, orderOK(n), mcast_receiver(n)
  PROVE  /\ UNCHANGED <<use, xmit, rcvr>>
         /\ \A x \in Node : x # n => same(x)
         /\ \E d \in Node, t \in 1 .. MaxTests, r \in 1 .. Packets : reads(n, d, t, r) /\ keeps(n, d, t, r)
  <1> DEFINE pkt == Head(rq[n])
             old == sndrs[n][slot(pkt.domain)]
             gap == (pkt.seqno - old.rcv_nxt) % SEQNOS
             reported == IF old.cnt # 0 THEN gap ELSE 0
             sndr == [rcv_nxt |-> (pkt.seqno + 1) % SEQNOS, cnt |-> old.cnt + 1,
                      total_cnt |-> IF old.cnt = 0 THEN pkt.remaining_pkts ELSE old.total_cnt]
             last == pkt.remaining_pkts = 1
             total == gaps[n][pkt.domain] + reported
             verdict == [from |-> pkt.domain, test |-> pkt.test, gaps |-> total,
                         ok |-> sndr.cnt = sndr.total_cnt,
                         missing |-> (sndr.total_cnt - sndr.cnt) % SEQNOS]
  <1>1. /\ rq[n] # <<>> /\ rq' = [rq EXCEPT ![n] = Tail(@)]
        /\ saw' = [saw EXCEPT ![n][<<pkt.domain, pkt.test>>] = @ \cup {pkt.remaining_pkts}]
        /\ gaps' = [gaps EXCEPT ![n][pkt.domain] = IF last THEN 0 ELSE total]
        /\ said' = (IF ~ last THEN said ELSE [said EXCEPT ![n] = verdict])
        /\ sndrs' = [sndrs EXCEPT ![n][slot(pkt.domain)] = IF last THEN clear ELSE sndr]
        /\ UNCHANGED <<use, xmit, rcvr>>
    BY Zenon DEF mcast_receiver
  <1>2. /\ pkt \in Packet /\ pkt = rq[n][1] /\ 1 \in 1 .. Len(rq[n])
    BY <1>1, HeadOf
  <1>3. pkt.domain \in Node /\ pkt.test \in 1 .. MaxTests /\ pkt.remaining_pkts \in 1 .. Packets
    BY <1>2 DEF Packet
  <1>4. pkt.seqno = Packets - pkt.remaining_pkts
    BY <1>2, Zenon DEF orderOK
  <1>5. \A x \in Node : x # n => same(x)
    BY <1>1, Zenon DEF same, mcastTypes
  <1>6. PICK d \in Node, t \in 1 .. MaxTests, r \in 1 .. Packets :
          pkt.domain = d /\ pkt.test = t /\ pkt.remaining_pkts = r
    BY <1>3, Zenon
  <1>7. reads(n, d, t, r)
    <2>1. rq'[n] = Tail(rq[n])
      BY <1>1, Zenon DEF mcastTypes
    <2>2. saw'[n] = [saw[n] EXCEPT ![<<d, t>>] = @ \cup {r}]
      BY <1>1, <1>6, Zenon DEF mcastTypes
    <2> QED BY <1>1, <1>4, <1>6, <2>1, <2>2, Zenon DEF reads
  <1>8. keeps(n, d, t, r)
    <2>1. gap = (Packets - r - sndrs[n][slot(d)].rcv_nxt) % SEQNOS
      BY <1>4, <1>6, Zenon
    <2>2. total = gapsAfter(n, d, r)
      BY <1>6, <2>1, Zenon DEF gapsAfter
    <2>3. sndr = [rcv_nxt |-> (Packets - r + 1) % SEQNOS, cnt |-> cntAfter(n, d), total_cnt |-> totalAfter(n, d, r)]
      BY <1>4, <1>6, Zenon DEF cntAfter, totalAfter
    <2>4. verdict = [from |-> d, test |-> t, gaps |-> gapsAfter(n, d, r),
                     ok |-> cntAfter(n, d) = totalAfter(n, d, r),
                     missing |-> (totalAfter(n, d, r) - cntAfter(n, d)) % SEQNOS]
      BY <1>6, <2>2, Zenon DEF cntAfter, totalAfter
    <2> HIDE DEF total, sndr, verdict
    <2>5. \A x \in Node : slot(x) # slot(d) => sndrs'[n][slot(x)] = sndrs[n][slot(x)]
      <3>1. \A x \in Node : slot(x) \in {slot(y) : y \in Node}
        BY Zenon
      <3> QED BY <1>1, <1>6, <3>1, Zenon DEF mcastTypes
    <2>6. \A x \in Node : x # d => gaps'[n][x] = gaps[n][x]
      BY <1>1, <1>6, Zenon DEF mcastTypes
    <2>7. sndrs'[n][slot(d)] = IF last THEN clear ELSE sndr
      <3>1. slot(d) \in {slot(y) : y \in Node}
        BY Zenon
      <3> QED BY <1>1, <1>6, <3>1, Zenon DEF mcastTypes
    <2>8. gaps'[n][d] = IF last THEN 0 ELSE total
      BY <1>1, <1>6, Zenon DEF mcastTypes
    <2>9. said'[n] = IF last THEN verdict ELSE said[n]
      BY <1>1, Zenon DEF mcastTypes
    <2> QED BY <1>6, <2>2, <2>3, <2>4, <2>5, <2>6, <2>7, <2>8, <2>9, Zenon DEF keeps
  <1> QED BY <1>1, <1>5, <1>7, <1>8, Zenon

\* A transmitter's state, and steps that change nothing but it.
Xmitter == [pc : {"off", "wait", "blast", "spin"}, test : 0 .. MaxTests,
            seqno : 0 .. SEQNOS - 1, count : 0 .. Packets]

LEMMA XmitTyped ==
  ASSUME mcastTypes, NEW x \in Node
  PROVE  /\ xmit[x] \in Xmitter /\ xmit[x].pc \in {"off", "wait", "blast", "spin"}
         /\ xmit[x].test \in 0 .. MaxTests /\ xmit[x].seqno \in 0 .. SEQNOS - 1
         /\ xmit[x].count \in 0 .. Packets /\ use[x].tests \in 0 .. MaxTests
  <1>1. xmit[x] \in Xmitter
    BY DEF mcastTypes, Xmitter
  <1>2. use[x].tests \in 0 .. MaxTests
    BY DEF mcastTypes
  <1> QED BY <1>1, <1>2 DEF Xmitter

LEMMA McastTypesStart ==
  ASSUME mcastTypes, NEW n \in Node, Start(n)
  PROVE  /\ mcastTypes' /\ xmit'[n].test = xmit[n].test + 1 /\ xmit'[n].count = Packets
         /\ xmit'[n].seqno = SEQNOS - 1 /\ xmit'[n].test \in 1 .. MaxTests
         /\ \A x \in Node : x # n => xmit'[x] = xmit[x]
  <1> DEFINE new == [pc |-> IF use[n].mode = "s" THEN "spin" ELSE "wait", test |-> xmit[n].test + 1,
                     seqno |-> SEQNOS - 1, count |-> Packets]
  <1>1. [idle(xmit[n].test + 1) EXCEPT !.pc = IF use[n].mode = "s" THEN "spin" ELSE "wait"] = new
    BY DEF idle
  <1>2. xmit' = [xmit EXCEPT ![n] = new]
    BY <1>1 DEF Start
  <1>3. xmit[n].test + 1 \in 1 .. MaxTests
    BY XmitTyped, SeqnoFacts DEF Start
  <1>4. new \in Xmitter
    BY <1>3, SeqnoFacts DEF Xmitter
  <1>5. xmit' \in [Node -> Xmitter]
    BY <1>2, <1>4 DEF mcastTypes, Xmitter
  <1>6. rcvr' \in [Node -> {"off", "up", "dead"}]
    BY DEF mcastTypes, Start
  <1>7. mcastTypes'
    BY <1>5, <1>6, Zenon DEF mcastTypes, Start, Xmitter
  <1>8. xmit'[n] = new /\ \A x \in Node : x # n => xmit'[x] = xmit[x]
    BY <1>2 DEF mcastTypes
  <1> QED BY <1>3, <1>7, <1>8

LEMMA McastTypesBind ==
  ASSUME mcastTypes, NEW n \in Node, Bind(n)
  PROVE  mcastTypes'
  <1>1. rcvr' \in [Node -> {"off", "up", "dead"}] /\ rq' \in [Node -> Seq(Packet)]
    BY DEF mcastTypes, Bind
  <1>2. clear \in Record
    BY SeqnoFacts DEF clear, Record
  <1>3. sndrs' \in [Node -> [{slot(x) : x \in Node} -> Record]]
    <2>1. DOMAIN sndrs[n] = {slot(x) : x \in Node}
      BY Zenon DEF mcastTypes
    <2> QED BY <1>2, <2>1, Zenon DEF mcastTypes, Bind
  <1>4. gaps' \in [Node -> [Node -> Nat]]
    BY DEF mcastTypes, Bind
  <1>5. silence \in [from : Node \cup {0}, test : 0 .. MaxTests, ok : BOOLEAN, missing : Nat, gaps : Nat]
    BY SeqnoFacts DEF silence
  <1>6. said' \in [Node -> [from : Node \cup {0}, test : 0 .. MaxTests, ok : BOOLEAN, missing : Nat, gaps : Nat]]
    BY <1>5, Zenon DEF mcastTypes, Bind
  <1>7. saw' \in [Node -> [Tests -> SUBSET (1 .. Packets)]]
    BY Zenon DEF mcastTypes, Bind
  <1> QED BY <1>1, <1>3, <1>4, <1>6, <1>7, Zenon DEF mcastTypes, Bind

LEMMA McastTypesFirst ==
  ASSUME mcastTypes, NEW n \in Node, FirstServer(n)
  PROVE  /\ mcastTypes'
         /\ \A x \in Node : xmit'[x].test = xmit[x].test /\ xmit'[x].count = xmit[x].count /\ xmit'[x].seqno = xmit[x].seqno
  <1>1. xmit' = [xmit EXCEPT ![n].pc = "blast"]
    BY DEF FirstServer
  <1>2. xmit' \in [Node -> Xmitter]
    <2>1. xmit \in [Node -> Xmitter]
      BY Zenon DEF mcastTypes, Xmitter
    <2> QED BY <1>1, <2>1 DEF Xmitter
  <1>3. \A x \in Node : xmit'[x].test = xmit[x].test /\ xmit'[x].count = xmit[x].count /\ xmit'[x].seqno = xmit[x].seqno
    BY <1>1 DEF mcastTypes
  <1>4. mcastTypes'
    BY <1>2, Zenon DEF mcastTypes, FirstServer, Xmitter
  <1> QED BY <1>3, <1>4

LEMMA McastTypesFinish ==
  ASSUME mcastTypes, NEW n \in Node, Finish(n)
  PROVE  /\ mcastTypes'
         /\ \A x \in Node : xmit'[x].test = xmit[x].test /\ xmit'[x].count = xmit[x].count /\ xmit'[x].seqno = xmit[x].seqno
  <1>1. xmit' = [xmit EXCEPT ![n].pc = "off"]
    BY DEF Finish
  <1>2. xmit' \in [Node -> Xmitter]
    <2>1. xmit \in [Node -> Xmitter]
      BY Zenon DEF mcastTypes, Xmitter
    <2> QED BY <1>1, <2>1 DEF Xmitter
  <1>3. \A x \in Node : xmit'[x].test = xmit[x].test /\ xmit'[x].count = xmit[x].count /\ xmit'[x].seqno = xmit[x].seqno
    BY <1>1 DEF mcastTypes
  <1>4. rcvr' \in [Node -> {"off", "up", "dead"}]
    BY DEF mcastTypes, Finish
  <1>5. mcastTypes'
    BY <1>2, <1>4, Zenon DEF mcastTypes, Finish, Xmitter
  <1> QED BY <1>3, <1>5

\* The packet that is sent has the number of its place.
packet(n) == [domain |-> n, test |-> xmit[n].test, seqno |-> Packets - xmit[n].count,
              remaining_pkts |-> xmit[n].count]

LEMMA McastTypesTransmit ==
  ASSUME mcastTypes, NEW n \in Node, numberedOK(n), Transmit(n), xmit[n].test >= 1
  PROVE  /\ mcastTypes' /\ packet(n) \in Packet /\ xmit[n].count \in 1 .. Packets
         /\ xmit'[n].test = xmit[n].test /\ xmit'[n].count = xmit[n].count - 1
         /\ xmit'[n].seqno = Packets - xmit[n].count
         /\ \A x \in Node : x # n => xmit'[x] = xmit[x]
         /\ \A x \in Node : rq'[x] = rq[x] \/ rq'[x] = Append(rq[x], packet(n))
  <1>1. /\ xmit[n].count \in 1 .. Packets /\ xmit[n].test \in 1 .. MaxTests
        /\ xmit[n].seqno \in 0 .. SEQNOS - 1
    BY XmitTyped, SeqnoFacts DEF Transmit
  <1>2. (xmit[n].seqno + 1) % SEQNOS = Packets - xmit[n].count
    <2>1. CASE xmit[n].count = Packets
      <3>1. xmit[n].seqno = SEQNOS - 1
        BY <2>1 DEF numberedOK
      <3>2. Packets - xmit[n].count = 0
        BY <2>1, SeqnoFacts
      <3> QED BY <3>1, <3>2, SeqnoFacts, Zenon
    <2>2. CASE xmit[n].count # Packets
      <3>1. xmit[n].seqno = Packets - xmit[n].count - 1
        BY <2>2 DEF numberedOK
      <3>2. xmit[n].seqno + 1 = Packets - xmit[n].count
        BY <1>1, <3>1, SeqnoFacts
      <3>3. Packets - xmit[n].count \in Int /\ 0 <= Packets - xmit[n].count /\ Packets - xmit[n].count < SEQNOS
        BY <1>1, SeqnoFacts
      <3> QED BY <3>2, <3>3, SeqnoFacts, Zenon
    <2> QED BY <2>1, <2>2
  <1>3. packet(n) \in Packet
    <2>1. Packets - xmit[n].count \in 0 .. SEQNOS - 1
      BY <1>1, SeqnoFacts
    <2> QED BY <1>1, <2>1 DEF packet, Packet
  <1>4. /\ xmit' = [xmit EXCEPT ![n].seqno = Packets - xmit[n].count, ![n].count = @ - 1]
        /\ rq' = [x \in Node |-> IF x \in up /\ Len(rq[x]) < RcvQueue THEN Append(rq[x], packet(n)) ELSE rq[x]]
        /\ UNCHANGED <<use, rcvr, sndrs, gaps, said, saw>>
    BY <1>2, Zenon DEF Transmit, packet
  <1>5. /\ xmit' \in [Node -> Xmitter] /\ xmit'[n].test = xmit[n].test
        /\ xmit'[n].count = xmit[n].count - 1 /\ xmit'[n].seqno = Packets - xmit[n].count
        /\ \A x \in Node : x # n => xmit'[x] = xmit[x]
    <2>1. Packets - xmit[n].count \in 0 .. SEQNOS - 1 /\ xmit[n].count - 1 \in 0 .. Packets
      BY <1>1, SeqnoFacts
    <2>2. xmit \in [Node -> Xmitter]
      BY Zenon DEF mcastTypes, Xmitter
    <2> QED BY <1>4, <2>1, <2>2 DEF Xmitter
  <1>6. \A x \in Node : rq'[x] = rq[x] \/ rq'[x] = Append(rq[x], packet(n))
    BY <1>4, Zenon
  <1>7. rq' \in [Node -> Seq(Packet)]
    <2>1. \A s \in Seq(Packet) : Append(s, packet(n)) \in Seq(Packet)
      BY <1>3
    <2> QED BY <1>4, <2>1, Zenon DEF mcastTypes
  <1>8. mcastTypes'
    BY <1>4, <1>5, <1>7, Zenon DEF mcastTypes, Xmitter
  <1> QED BY <1>1, <1>3, <1>5, <1>6, <1>8

LEMMA AfterTyped ==
  ASSUME mcastTypes, NEW n \in Node, NEW d \in Node, NEW r \in 1 .. Packets
  PROVE  /\ cntAfter(n, d) \in Nat /\ totalAfter(n, d, r) \in 0 .. Packets /\ gapsAfter(n, d, r) \in Nat
         /\ (Packets - r + 1) % SEQNOS \in 0 .. SEQNOS - 1
         /\ (totalAfter(n, d, r) - cntAfter(n, d)) % SEQNOS \in Nat
  <1>1. /\ gaps[n][d] \in Nat /\ sndrs[n][slot(d)].cnt \in Nat
        /\ sndrs[n][slot(d)].total_cnt \in 0 .. Packets /\ sndrs[n][slot(d)].rcv_nxt \in 0 .. SEQNOS - 1
    BY SlotDomain
  <1>2. \A a \in Int : a % SEQNOS \in 0 .. SEQNOS - 1 /\ a % SEQNOS \in Nat
    BY SeqnoFacts
  <1>3. cntAfter(n, d) \in Nat
    BY <1>1 DEF cntAfter
  <1>4. totalAfter(n, d, r) \in 0 .. Packets
    BY <1>1 DEF totalAfter
  <1>5. Packets - r - sndrs[n][slot(d)].rcv_nxt \in Int
    BY <1>1, SeqnoFacts
  <1>6. (Packets - r - sndrs[n][slot(d)].rcv_nxt) % SEQNOS \in Nat
    BY <1>2, <1>5, Zenon
  <1>7. gapsAfter(n, d, r) \in Nat
    BY <1>1, <1>6 DEF gapsAfter
  <1>8. Packets - r + 1 \in Int
    BY SeqnoFacts
  <1>9. totalAfter(n, d, r) - cntAfter(n, d) \in Int
    BY <1>3, <1>4
  <1> QED BY <1>2, <1>3, <1>4, <1>7, <1>8, <1>9, Zenon

LEMMA McastTypesReceiver ==
  ASSUME mcastTypes, NEW n \in Node, orderOK(n), mcast_receiver(n)
  PROVE  mcastTypes'
  <1>1. /\ UNCHANGED <<use, xmit, rcvr>> /\ \A x \in Node : x # n => same(x)
    BY ReceiverReads, Zenon
  <1>2. PICK d \in Node, t \in 1 .. MaxTests, r \in 1 .. Packets : reads(n, d, t, r) /\ keeps(n, d, t, r)
    BY ReceiverReads, Zenon
  <1>3. rq'[n] \in Seq(Packet)
    BY <1>2, HeadOf, Zenon DEF reads
  <1>4. saw'[n] \in [Tests -> SUBSET (1 .. Packets)]
    <2>1. saw[n] \in [Tests -> SUBSET (1 .. Packets)] /\ <<d, t>> \in Tests
      BY Zenon DEF mcastTypes, Tests
    <2>2. saw[n][<<d, t>>] \cup {r} \in SUBSET (1 .. Packets)
      BY <2>1, Zenon
    <2> QED BY <1>2, <2>1, <2>2, Zenon DEF reads
  <1>5. /\ cntAfter(n, d) \in Nat /\ totalAfter(n, d, r) \in 0 .. Packets /\ gapsAfter(n, d, r) \in Nat
        /\ (Packets - r + 1) % SEQNOS \in 0 .. SEQNOS - 1
        /\ (totalAfter(n, d, r) - cntAfter(n, d)) % SEQNOS \in Nat
    BY AfterTyped
  <1>6. /\ sndrs' = [sndrs EXCEPT ![n] = sndrs'[n]] /\ gaps' = [gaps EXCEPT ![n] = gaps'[n]]
        /\ DOMAIN sndrs'[n] = {slot(y) : y \in Node} /\ DOMAIN gaps'[n] = Node
        /\ sndrs'[n] = [z \in DOMAIN sndrs'[n] |-> sndrs'[n][z]] /\ gaps'[n] = [z \in DOMAIN gaps'[n] |-> gaps'[n][z]]
        /\ DOMAIN rq' = Node /\ DOMAIN saw' = Node /\ DOMAIN said' = Node
        /\ rq' = [x \in Node |-> rq'[x]] /\ saw' = [x \in Node |-> saw'[x]] /\ said' = [x \in Node |-> said'[x]]
        /\ sndrs' = [x \in Node |-> sndrs'[x]] /\ gaps' = [x \in Node |-> gaps'[x]]
    <2>1. Head(rq[n]).domain = d
      BY <1>2, Zenon DEF reads
    <2> QED BY <2>1, Zenon DEF mcast_receiver, mcastTypes
  <1>7. sndrs'[n] \in [{slot(y) : y \in Node} -> Record]
    <2>1. ASSUME NEW x \in Node PROVE sndrs'[n][slot(x)] \in Record
      <3>1. CASE slot(x) # slot(d)
        BY <1>2, <3>1, SlotDomain, Zenon DEF keeps
      <3>2. CASE slot(x) = slot(d) /\ r = 1
        <4>1. clear \in Record
          BY SeqnoFacts DEF clear, Record
        <4> QED BY <1>2, <3>2, <4>1, Zenon DEF keeps
      <3>3. CASE slot(x) = slot(d) /\ r # 1
        <4>1. [rcv_nxt |-> (Packets - r + 1) % SEQNOS, cnt |-> cntAfter(n, d), total_cnt |-> totalAfter(n, d, r)]
                \in Record
          BY <1>5 DEF Record
        <4> QED BY <1>2, <3>3, <4>1, Zenon DEF keeps
      <3> QED BY <3>1, <3>2, <3>3
    <2>2. \A z \in {slot(y) : y \in Node} : sndrs'[n][z] \in Record
      BY <2>1, Zenon
    <2>3. sndrs'[n] = [z \in {slot(y) : y \in Node} |-> sndrs'[n][z]]
      BY <1>6, Zenon
    <2>4. [z \in {slot(y) : y \in Node} |-> sndrs'[n][z]] \in [{slot(y) : y \in Node} -> Record]
      BY <2>2, Zenon
    <2> QED BY <2>3, <2>4, Zenon
  <1>8. gaps'[n] \in [Node -> Nat]
    <2>1. ASSUME NEW x \in Node PROVE gaps'[n][x] \in Nat
      <3>1. CASE x # d
        BY <1>2, <3>1, SlotDomain, Zenon DEF keeps
      <3>2. CASE x = d
        <4>1. gaps'[n][d] = 0 \/ gaps'[n][d] = gapsAfter(n, d, r)
          BY <1>2, Zenon DEF keeps
        <4> QED BY <1>5, <3>2, <4>1
      <3> QED BY <3>1, <3>2
    <2> QED BY <1>6, <2>1, Zenon
  <1>9. said'[n] \in [from : Node \cup {0}, test : 0 .. MaxTests, ok : BOOLEAN, missing : Nat, gaps : Nat]
    <2>1. CASE r # 1
      BY <1>2, <2>1, Zenon DEF keeps, mcastTypes
    <2>2. CASE r = 1
      <3> DEFINE allThere == cntAfter(n, d) = totalAfter(n, d, r)
      <3>1. d \in Node \cup {0} /\ t \in 0 .. MaxTests /\ allThere \in BOOLEAN
        BY SeqnoFacts
      <3>2. said'[n] = [from |-> d, test |-> t, gaps |-> gapsAfter(n, d, r), ok |-> allThere,
                        missing |-> (totalAfter(n, d, r) - cntAfter(n, d)) % SEQNOS]
        BY <1>2, <2>2, Zenon DEF keeps
      <3> HIDE DEF allThere
      <3>3. [from |-> d, test |-> t, gaps |-> gapsAfter(n, d, r), ok |-> allThere,
             missing |-> (totalAfter(n, d, r) - cntAfter(n, d)) % SEQNOS]
              \in [from : Node \cup {0}, test : 0 .. MaxTests, ok : BOOLEAN, missing : Nat, gaps : Nat]
        BY <1>5, <3>1, Zenon
      <3> QED BY <3>2, <3>3, Zenon
    <2> QED BY <2>1, <2>2
  <1>10. /\ rq' \in [Node -> Seq(Packet)] /\ saw' \in [Node -> [Tests -> SUBSET (1 .. Packets)]]
         /\ sndrs' \in [Node -> [{slot(y) : y \in Node} -> Record]] /\ gaps' \in [Node -> [Node -> Nat]]
         /\ said' \in [Node -> [from : Node \cup {0}, test : 0 .. MaxTests, ok : BOOLEAN, missing : Nat, gaps : Nat]]
    <2>1. \A x \in Node : /\ rq'[x] \in Seq(Packet) /\ saw'[x] \in [Tests -> SUBSET (1 .. Packets)]
                          /\ sndrs'[x] \in [{slot(y) : y \in Node} -> Record] /\ gaps'[x] \in [Node -> Nat]
                          /\ said'[x] \in [from : Node \cup {0}, test : 0 .. MaxTests, ok : BOOLEAN, missing : Nat, gaps : Nat]
      BY <1>1, <1>3, <1>4, <1>7, <1>8, <1>9, Zenon DEF same, mcastTypes
    <2> QED BY <1>6, <2>1, Zenon
  <1> QED BY <1>1, <1>10, Zenon DEF mcastTypes

\* Packets keep their numbers.
LEMMA NumbersStay ==
  ASSUME NEW x, numberedOK(x), xmit'[x].count = xmit[x].count, xmit'[x].seqno = xmit[x].seqno,
         xmit'[x].test = xmit[x].test, xmit'[x].pc = "off" \/ xmit[x].pc # "off"
  PROVE  numberedOK(x)'
  BY DEF numberedOK

\* A transmitter goes on.
advances ==
  \A x \in Node : \A t \in 1 .. MaxTests, r \in 1 .. Packets :
    before(t, r, xmit[x].test, xmit[x].count) => before(t, r, xmit'[x].test, xmit'[x].count)

LEMMA StartAdvances ==
  ASSUME mcastTypes, NEW n \in Node, Start(n), \A x \in Node : numberedOK(x)
  PROVE  advances /\ \A x \in Node : numberedOK(x)'
  <1>1. /\ xmit'[n].test = xmit[n].test + 1 /\ xmit'[n].count = Packets /\ xmit'[n].seqno = SEQNOS - 1
        /\ xmit'[n].test \in 1 .. MaxTests /\ \A x \in Node : x # n => xmit'[x] = xmit[x]
    BY McastTypesStart
  <1>2. xmit[n].test \in 0 .. MaxTests
    BY XmitTyped
  <1>3. ASSUME NEW x \in Node, NEW t \in 1 .. MaxTests, NEW r \in 1 .. Packets,
               before(t, r, xmit[x].test, xmit[x].count)
        PROVE  before(t, r, xmit'[x].test, xmit'[x].count)
    <2>1. CASE x = n
      BY <1>1, <1>2, <1>3, <2>1 DEF before
    <2>2. CASE x # n
      BY <1>1, <1>3, <2>2
    <2> QED BY <2>1, <2>2
  <1>4. \A x \in Node : numberedOK(x)'
    BY <1>1 DEF numberedOK
  <1> QED BY <1>3, <1>4 DEF advances

LEMMA TransmitAdvances ==
  ASSUME mcastTypes, NEW n \in Node, Transmit(n), \A x \in Node : numberedOK(x)
  PROVE  /\ advances /\ \A x \in Node : numberedOK(x)'
         /\ before(xmit[n].test, xmit[n].count, xmit'[n].test, xmit'[n].count)
         /\ xmit[n].test >= 1
  <1>0. xmit[n].test >= 1
    BY DEF numberedOK, Transmit
  <1>1. /\ xmit'[n].test = xmit[n].test /\ xmit'[n].count = xmit[n].count - 1
        /\ xmit'[n].seqno = Packets - xmit[n].count /\ xmit[n].count \in 1 .. Packets
        /\ \A x \in Node : x # n => xmit'[x] = xmit[x]
    BY <1>0, McastTypesTransmit
  <1>2. xmit[n].test \in 0 .. MaxTests
    BY XmitTyped
  <1>3. ASSUME NEW x \in Node, NEW t \in 1 .. MaxTests, NEW r \in 1 .. Packets,
               before(t, r, xmit[x].test, xmit[x].count)
        PROVE  before(t, r, xmit'[x].test, xmit'[x].count)
    <2>1. CASE x = n
      BY <1>1, <1>2, <1>3, <2>1 DEF before
    <2>2. CASE x # n
      BY <1>1, <1>3, <2>2
    <2> QED BY <2>1, <2>2
  <1>4. \A x \in Node : numberedOK(x)'
    <2>1. numberedOK(n)'
      <3>1. xmit[n].count - 1 # Packets /\ Packets - (xmit[n].count - 1) - 1 = Packets - xmit[n].count
        BY <1>1, SeqnoFacts
      <3> QED BY <1>0, <1>1, <3>1 DEF numberedOK
    <2>2. \A x \in Node : x # n => numberedOK(x)'
      BY <1>1 DEF numberedOK
    <2> QED BY <2>1, <2>2
  <1>5. before(xmit[n].test, xmit[n].count, xmit'[n].test, xmit'[n].count)
    BY <1>1, <1>2 DEF before
  <1> QED BY <1>0, <1>3, <1>4, <1>5 DEF advances

-----------------------------------------------------------------------------
(***************************************************************************)
(* What is read, queued and to come stays in order.                        *)
(***************************************************************************)
LEMMA QueueTyped ==
  ASSUME mcastTypes, NEW n \in Node
  PROVE  /\ Len(rq[n]) \in Nat /\ rq[n] \in Seq(Packet)
         /\ \A i \in 1 .. Len(rq[n]) :
              /\ rq[n][i].domain \in Node /\ rq[n][i].test \in 1 .. MaxTests
              /\ rq[n][i].remaining_pkts \in 1 .. Packets
  <1>1. rq[n] \in Seq(Packet)
    BY DEF mcastTypes
  <1>2. \A i \in 1 .. Len(rq[n]) : rq[n][i] \in Packet
    BY <1>1
  <1> QED BY <1>1, <1>2 DEF Packet

LEMMA LineStays ==
  ASSUME mcastTypes, NEW n \in Node, orderOK(n), advances, rq'[n] = rq[n], saw'[n] = saw[n]
  PROVE  orderOK(n)'
  <1>1. ASSUME NEW i \in 1 .. Len(rq[n])
        PROVE  LET p == rq[n][i]
               IN  /\ p.seqno = Packets - p.remaining_pkts
                   /\ before(p.test, p.remaining_pkts, xmit'[p.domain].test, xmit'[p.domain].count)
                   /\ \A r \in 1 .. Packets, t \in 1 .. MaxTests : r \in saw[n][<<p.domain, t>>] =>
                        before(t, r, p.test, p.remaining_pkts)
                   /\ \A j \in 1 .. i - 1 : rq[n][j].domain = p.domain =>
                        before(rq[n][j].test, rq[n][j].remaining_pkts, p.test, p.remaining_pkts)
    <2>1. /\ rq[n][i].domain \in Node /\ rq[n][i].test \in 1 .. MaxTests
          /\ rq[n][i].remaining_pkts \in 1 .. Packets
      BY QueueTyped
    <2> QED BY <2>1, Zenon DEF orderOK, advances
  <1>2. \A x \in Node, t \in 1 .. MaxTests, r \in 1 .. Packets : r \in saw[n][<<x, t>>] =>
          before(t, r, xmit'[x].test, xmit'[x].count)
    BY Zenon DEF orderOK, advances
  <1> QED BY <1>1, <1>2, Zenon DEF orderOK

LEMMA LineEmpty ==
  ASSUME NEW n \in Node, rq'[n] = <<>>, \A x \in Node, t \in 1 .. MaxTests : saw'[n][<<x, t>>] = {}
  PROVE  orderOK(n)'
  <1>1. \A i \in 1 .. Len(rq'[n]) : FALSE
    OBVIOUS
  <1> QED BY <1>1, Zenon DEF orderOK

\* A packet joins the line.
LEMMA LineGrows ==
  ASSUME mcastTypes, NEW n \in Node, orderOK(n), advances, NEW m \in Node,
         packet(m) \in Packet, rq'[n] = Append(rq[n], packet(m)), saw'[n] = saw[n],
         before(xmit[m].test, xmit[m].count, xmit'[m].test, xmit'[m].count)
  PROVE  orderOK(n)'
  <1> DEFINE q == Append(rq[n], packet(m))
  <1>1. /\ Len(rq[n]) \in Nat /\ Len(q) = Len(rq[n]) + 1 /\ q[Len(rq[n]) + 1] = packet(m)
        /\ \A i \in 1 .. Len(rq[n]) : q[i] = rq[n][i]
    BY QueueTyped
  <1> HIDE DEF q
  <1>2. /\ packet(m).domain = m /\ packet(m).test = xmit[m].test /\ packet(m).remaining_pkts = xmit[m].count
        /\ packet(m).seqno = Packets - xmit[m].count
    BY DEF packet
  <1>3. ASSUME NEW i \in 1 .. Len(q)
        PROVE  LET p == q[i]
               IN  /\ p.seqno = Packets - p.remaining_pkts
                   /\ before(p.test, p.remaining_pkts, xmit'[p.domain].test, xmit'[p.domain].count)
                   /\ \A r \in 1 .. Packets, t \in 1 .. MaxTests : r \in saw[n][<<p.domain, t>>] =>
                        before(t, r, p.test, p.remaining_pkts)
                   /\ \A j \in 1 .. i - 1 : q[j].domain = p.domain =>
                        before(q[j].test, q[j].remaining_pkts, p.test, p.remaining_pkts)
    <2>1. CASE i \in 1 .. Len(rq[n])
      <3>1. /\ rq[n][i].domain \in Node /\ rq[n][i].test \in 1 .. MaxTests
            /\ rq[n][i].remaining_pkts \in 1 .. Packets
        BY <2>1, QueueTyped
      <3>2. \A j \in 1 .. i - 1 : q[j] = rq[n][j]
        BY <1>1, <2>1
      <3>3. q[i] = rq[n][i]
        BY <1>1, <2>1
      <3> QED BY <2>1, <3>1, <3>2, <3>3, Zenon DEF orderOK, advances
    <2>2. CASE i = Len(rq[n]) + 1
      <3>1. \A j \in 1 .. i - 1 : q[j] = rq[n][j] /\ j \in 1 .. Len(rq[n])
        BY <1>1, <2>2
      <3>2. q[i] = packet(m)
        BY <1>1, <2>2
      <3>3. \A r \in 1 .. Packets, t \in 1 .. MaxTests : r \in saw[n][<<m, t>>] =>
              before(t, r, xmit[m].test, xmit[m].count)
        BY Zenon DEF orderOK
      <3>4. \A j \in 1 .. i - 1 : q[j].domain = m =>
              before(q[j].test, q[j].remaining_pkts, xmit[m].test, xmit[m].count)
        BY <3>1, Zenon DEF orderOK
      <3> QED BY <1>2, <3>2, <3>3, <3>4, Zenon
    <2> QED BY <1>1, <2>1, <2>2
  <1>4. \A x \in Node, t \in 1 .. MaxTests, r \in 1 .. Packets : r \in saw[n][<<x, t>>] =>
          before(t, r, xmit'[x].test, xmit'[x].count)
    BY Zenon DEF orderOK, advances
  <1>5. rq'[n] = q
    BY DEF q
  <1> QED BY <1>3, <1>4, <1>5, Zenon DEF orderOK

\* What has been read of each transmission after one packet more.
LEMMA SawAfter ==
  ASSUME mcastTypes, NEW n \in Node, NEW d, NEW t, NEW r, reads(n, d, t, r)
  PROVE  /\ saw'[n][<<d, t>>] = saw[n][<<d, t>>] \cup {r}
         /\ \A x \in Node, u \in 1 .. MaxTests : x # d \/ u # t => saw'[n][<<x, u>>] = saw[n][<<x, u>>]
         /\ \A x \in Node, u \in 1 .. MaxTests : saw[n][<<x, u>>] \subseteq 1 .. Packets
  <1>1. saw[n] \in [Tests -> SUBSET (1 .. Packets)]
    BY DEF mcastTypes
  <1>2. \A x \in Node, u \in 1 .. MaxTests : <<x, u>> \in Tests
    BY DEF Tests
  <1>3. d \in Node /\ t \in 1 .. MaxTests /\ saw'[n] = [saw[n] EXCEPT ![<<d, t>>] = @ \cup {r}]
    BY DEF reads
  <1> QED BY <1>1, <1>2, <1>3, Zenon

\* The packet at the head of the line is read.
LEMMA LineMoves ==
  ASSUME mcastTypes, NEW n \in Node, orderOK(n), xmit' = xmit, NEW d, NEW t, NEW r, reads(n, d, t, r)
  PROVE  orderOK(n)'
  <1> DEFINE q == Tail(rq[n])
  <1>1. /\ rq[n] # <<>> /\ rq'[n] = q /\ d \in Node /\ t \in 1 .. MaxTests /\ r \in 1 .. Packets
    BY DEF reads
  <1>2. /\ Len(rq[n]) \in Nat /\ Len(rq[n]) >= 1 /\ Len(q) = Len(rq[n]) - 1 /\ Head(rq[n]) = rq[n][1]
        /\ \A i \in 1 .. Len(q) : q[i] = rq[n][i + 1]
    BY <1>1, HeadOf
  <1>3. rq[n][1].domain = d /\ rq[n][1].test = t /\ rq[n][1].remaining_pkts = r /\ 1 \in 1 .. Len(rq[n])
    BY <1>2 DEF reads
  <1> HIDE DEF q
  <1>3a. /\ saw'[n][<<d, t>>] = saw[n][<<d, t>>] \cup {r}
         /\ \A x \in Node, u \in 1 .. MaxTests : x # d \/ u # t => saw'[n][<<x, u>>] = saw[n][<<x, u>>]
         /\ \A x \in Node, u \in 1 .. MaxTests : saw[n][<<x, u>>] \subseteq 1 .. Packets
    BY SawAfter, Zenon
  <1>4. \A x \in Node, u \in 1 .. MaxTests, s \in 1 .. Packets :
          s \in saw'[n][<<x, u>>] => s \in saw[n][<<x, u>>] \/ (x = d /\ u = t /\ s = r)
    <2> SUFFICES ASSUME NEW x \in Node, NEW u \in 1 .. MaxTests, NEW s \in 1 .. Packets, s \in saw'[n][<<x, u>>]
                 PROVE  s \in saw[n][<<x, u>>] \/ (x = d /\ u = t /\ s = r)
      OBVIOUS
    <2>1. CASE x = d /\ u = t
      <3>1. s \in saw[n][<<d, t>>] \cup {r}
        BY <1>3a, <2>1, Zenon
      <3> QED BY <2>1, <3>1, Zenon
    <2>2. CASE x # d \/ u # t
      <3>1. saw'[n][<<x, u>>] = saw[n][<<x, u>>]
        BY <1>3a, <2>2, Zenon
      <3> QED BY <3>1, Zenon
    <2> QED BY <2>1, <2>2, Zenon
  <1>5. ASSUME NEW i \in 1 .. Len(q)
        PROVE  LET p == q[i]
               IN  /\ p.seqno = Packets - p.remaining_pkts
                   /\ before(p.test, p.remaining_pkts, xmit[p.domain].test, xmit[p.domain].count)
                   /\ \A s \in 1 .. Packets, u \in 1 .. MaxTests : s \in saw'[n][<<p.domain, u>>] =>
                        before(u, s, p.test, p.remaining_pkts)
                   /\ \A j \in 1 .. i - 1 : q[j].domain = p.domain =>
                        before(q[j].test, q[j].remaining_pkts, p.test, p.remaining_pkts)
    <2>1. /\ i + 1 \in 1 .. Len(rq[n]) /\ q[i] = rq[n][i + 1] /\ 1 \in 1 .. (i + 1) - 1
          /\ \A j \in 1 .. i - 1 : j + 1 \in 1 .. (i + 1) - 1 /\ q[j] = rq[n][j + 1]
      BY <1>2
    <2>2. rq[n][i + 1].domain \in Node
      BY <2>1, QueueTyped
    <2>3. rq[n][i + 1].domain = d => before(t, r, rq[n][i + 1].test, rq[n][i + 1].remaining_pkts)
      BY <1>3, <2>1, Zenon DEF orderOK
    <2>4. \A j \in 1 .. i - 1 : q[j].domain = q[i].domain =>
            before(q[j].test, q[j].remaining_pkts, q[i].test, q[i].remaining_pkts)
      BY <2>1, Zenon DEF orderOK
    <2>5. \A s \in 1 .. Packets, u \in 1 .. MaxTests : s \in saw[n][<<q[i].domain, u>>] =>
            before(u, s, q[i].test, q[i].remaining_pkts)
      BY <2>1, Zenon DEF orderOK
    <2>6. /\ q[i].seqno = Packets - q[i].remaining_pkts
          /\ before(q[i].test, q[i].remaining_pkts, xmit[q[i].domain].test, xmit[q[i].domain].count)
      BY <2>1, Zenon DEF orderOK
    <2> QED BY <1>4, <2>1, <2>2, <2>3, <2>4, <2>5, <2>6, Zenon
  <1>6. ASSUME NEW x \in Node, NEW u \in 1 .. MaxTests, NEW s \in 1 .. Packets, s \in saw'[n][<<x, u>>]
        PROVE  before(u, s, xmit[x].test, xmit[x].count)
    <2>1. CASE s \in saw[n][<<x, u>>]
      BY <2>1, Zenon DEF orderOK
    <2>2. CASE x = d /\ u = t /\ s = r
      BY <1>3, <2>2, Zenon DEF orderOK
    <2> QED BY <1>4, <1>6, <2>1, <2>2, Zenon
  <1> QED BY <1>1, <1>5, <1>6, Zenon DEF orderOK

-----------------------------------------------------------------------------
(***************************************************************************)
(* The records of the senders.                                             *)
(***************************************************************************)
LEMMA RecordStays ==
  ASSUME mcastTypes, NEW n \in Node, NEW x \in Node, recordOK(n, x),
         \A u \in 1 .. MaxTests : saw'[n][<<x, u>>] = saw[n][<<x, u>>],
         sndrs'[n][slot(x)] = sndrs[n][slot(x)], gaps'[n][x] = gaps[n][x]
  PROVE  recordOK(n, x)'
  <1>1. \A t \in 1 .. MaxTests : \A u \in 1 .. t - 1 : u \in 1 .. MaxTests
    BY SeqnoFacts
  <1>2. \A t \in 1 .. MaxTests : \A u \in t + 1 .. MaxTests : u \in 1 .. MaxTests
    BY SeqnoFacts
  <1>3. ASSUME NEW t \in 1 .. MaxTests, underWay(n, x, t)' PROVE underWay(n, x, t)
    <2>1. wellEnded(n, x, t)
      BY <1>1, <1>3, Zenon DEF wellEnded, underWay
    <2>2. \A u \in t + 1 .. MaxTests : saw[n][<<x, u>>] = {}
      BY <1>2, <1>3, Zenon DEF underWay
    <2> QED BY <1>3, <2>1, <2>2, Zenon DEF underWay
  <1>4. /\ (\A t \in 1 .. MaxTests : saw[n][<<x, t>>] # {} => 1 \in saw[n][<<x, t>>]) =>
             sndrs[n][slot(x)].cnt = 0 /\ gaps[n][x] = 0
        /\ \A t \in 1 .. MaxTests : underWay(n, x, t) =>
             LET S == saw[n][<<x, t>>]
             IN  /\ sndrs[n][slot(x)].cnt = Cardinality(S) /\ sndrs[n][slot(x)].total_cnt \in S
                 /\ \E l \in S :
                      /\ \A r \in S : l <= r /\ r <= sndrs[n][slot(x)].total_cnt
                      /\ sndrs[n][slot(x)].rcv_nxt = Packets - l + 1
                      /\ gaps[n][x] = sndrs[n][slot(x)].total_cnt - l + 1 - Cardinality(S)
    BY Zenon DEF recordOK
  <1>5. (\A t \in 1 .. MaxTests : saw'[n][<<x, t>>] # {} => 1 \in saw'[n][<<x, t>>]) =>
             sndrs'[n][slot(x)].cnt = 0 /\ gaps'[n][x] = 0
    BY <1>4, Zenon
  <1>6. ASSUME NEW t \in 1 .. MaxTests, underWay(n, x, t)'
        PROVE  LET S == saw'[n][<<x, t>>]
               IN  /\ sndrs'[n][slot(x)].cnt = Cardinality(S) /\ sndrs'[n][slot(x)].total_cnt \in S
                   /\ \E l \in S :
                        /\ \A r \in S : l <= r /\ r <= sndrs'[n][slot(x)].total_cnt
                        /\ sndrs'[n][slot(x)].rcv_nxt = Packets - l + 1
                        /\ gaps'[n][x] = sndrs'[n][slot(x)].total_cnt - l + 1 - Cardinality(S)
    <2>1. saw'[n][<<x, t>>] = saw[n][<<x, t>>]
      OBVIOUS
    <2> QED BY <1>3, <1>4, <1>6, <2>1, Zenon
  <1> QED BY <1>5, <1>6, Zenon DEF recordOK

LEMMA RecordClear ==
  ASSUME NEW n \in Node, NEW x \in Node, \A u \in 1 .. MaxTests : saw'[n][<<x, u>>] = {},
         sndrs'[n][slot(x)] = clear, gaps'[n][x] = 0
  PROVE  recordOK(n, x)'
  <1>1. clear.cnt = 0
    BY DEF clear
  <1>2. \A t \in 1 .. MaxTests : ~ underWay(n, x, t)'
    BY Zenon DEF underWay
  <1> QED BY <1>1, <1>2, Zenon DEF recordOK

\* A packet that is read comes after those read before of its node.
LEMMA ReadLater ==
  ASSUME mcastTypes, NEW n \in Node, orderOK(n), NEW d, NEW t, NEW r, reads(n, d, t, r)
  PROVE  /\ d \in Node /\ t \in 1 .. MaxTests /\ r \in 1 .. Packets
         /\ \A u \in 1 .. MaxTests : u > t => saw[n][<<d, u>>] = {}
         /\ \A q \in saw[n][<<d, t>>] : r < q /\ q \in 1 .. Packets
         /\ saw[n][<<d, t>>] \subseteq 1 .. Packets
  <1>1. /\ d \in Node /\ t \in 1 .. MaxTests /\ r \in 1 .. Packets /\ rq[n] # <<>>
    BY DEF reads
  <1>2. /\ Head(rq[n]) = rq[n][1] /\ 1 \in 1 .. Len(rq[n])
    BY <1>1, HeadOf
  <1>3. rq[n][1].domain = d /\ rq[n][1].test = t /\ rq[n][1].remaining_pkts = r
    BY <1>2 DEF reads
  <1>4. \A s \in 1 .. Packets, u \in 1 .. MaxTests : s \in saw[n][<<d, u>>] => before(u, s, t, r)
    BY <1>2, <1>3, Zenon DEF orderOK
  <1>5. \A u \in 1 .. MaxTests : saw[n][<<d, u>>] \subseteq 1 .. Packets
    BY <1>1, SawAfter, Zenon
  <1>6. ASSUME NEW u \in 1 .. MaxTests, u > t, NEW s \in saw[n][<<d, u>>] PROVE FALSE
    <2>1. before(u, s, t, r) /\ s \in 1 .. Packets
      BY <1>4, <1>5, Zenon
    <2> QED BY <1>1, <1>6, <2>1, SeqnoFacts DEF before
  <1>7. ASSUME NEW q \in saw[n][<<d, t>>] PROVE r < q /\ q \in 1 .. Packets
    <2>1. before(t, q, t, r) /\ q \in 1 .. Packets
      BY <1>1, <1>4, <1>5, Zenon
    <2> QED BY <1>1, <2>1, SeqnoFacts DEF before
  <1> QED BY <1>1, <1>5, <1>6, <1>7, Zenon

\* Arithmetic of a gap.
LEMMA GapFact ==
  ASSUME NEW r \in 1 .. Packets, NEW l \in 1 .. Packets, r < l
  PROVE  (Packets - r - (Packets - l + 1)) % SEQNOS = l - r - 1
  <1>1. Packets - r - (Packets - l + 1) = l - r - 1
    BY SeqnoFacts
  <1>2. l - r - 1 \in Int /\ 0 <= l - r - 1 /\ l - r - 1 < SEQNOS
    BY SeqnoFacts
  <1> QED BY <1>1, <1>2, SeqnoFacts, Zenon

\* The record after a packet of a transmission whose predecessors were read to
\* their end.
LEMMA RecordRead ==
  ASSUME mcastTypes, NEW n \in Node, orderOK(n), NEW d, NEW t, NEW r, reads(n, d, t, r),
         recordOK(n, d), wellEnded(n, d, t)
  PROVE  LET S == saw[n][<<d, t>>] \cup {r}
         IN  /\ cntAfter(n, d) = Cardinality(S) /\ totalAfter(n, d, r) \in S
             /\ \A q \in S : r <= q /\ q <= totalAfter(n, d, r)
             /\ gapsAfter(n, d, r) = totalAfter(n, d, r) - r + 1 - Cardinality(S)
  <1> DEFINE R == saw[n][<<d, t>>]
             rec == sndrs[n][slot(d)]
  <1>1. /\ d \in Node /\ t \in 1 .. MaxTests /\ r \in 1 .. Packets
        /\ \A u \in 1 .. MaxTests : u > t => saw[n][<<d, u>>] = {}
        /\ \A q \in R : r < q /\ q \in 1 .. Packets
        /\ R \subseteq 1 .. Packets
    BY ReadLater
  <1>2. IsFiniteSet(R) /\ Cardinality(R) \in Nat /\ r \notin R
    <2>1. IsFiniteSet(1 .. Packets)
      BY FS_Interval, SeqnoFacts
    <2>2. r \notin R
      BY <1>1
    <2> QED BY <1>1, <2>1, <2>2, FS_Subset, FS_CardinalityType
  <1>3. Cardinality(R \cup {r}) = Cardinality(R) + 1
    BY <1>2, FS_AddElement
  <1>4. rec.cnt \in Nat /\ gaps[n][d] \in Nat /\ rec.total_cnt \in 0 .. Packets
    BY <1>1, SlotDomain
  <1>5. CASE R = {}
    <2>1. \A u \in 1 .. MaxTests : saw[n][<<d, u>>] # {} => 1 \in saw[n][<<d, u>>]
      <3> SUFFICES ASSUME NEW u \in 1 .. MaxTests, saw[n][<<d, u>>] # {} PROVE 1 \in saw[n][<<d, u>>]
        OBVIOUS
      <3>1. ~ (u > t) /\ u # t
        BY <1>1, <1>5
      <3>2. u \in 1 .. t - 1
        BY <1>1, <3>1, SeqnoFacts
      <3> QED BY <3>2 DEF wellEnded
    <2>2. rec.cnt = 0 /\ gaps[n][d] = 0
      BY <2>1, Zenon DEF recordOK
    <2>3. cntAfter(n, d) = 1 /\ totalAfter(n, d, r) = r /\ gapsAfter(n, d, r) = 0
      BY <2>2 DEF cntAfter, totalAfter, gapsAfter
    <2>4. Cardinality(R \cup {r}) = 1 /\ \A q \in R \cup {r} : q = r
      BY <1>3, <1>5, FS_EmptySet
    <2> HIDE DEF R
    <2>5. r - r + 1 - 1 = 0 /\ r <= r
      BY <1>1
    <2>6. \A q \in R \cup {r} : r <= q /\ q <= totalAfter(n, d, r)
      BY <2>3, <2>4, <2>5
    <2>7. gapsAfter(n, d, r) = totalAfter(n, d, r) - r + 1 - Cardinality(R \cup {r})
      BY <2>3, <2>4, <2>5
    <2> QED BY <2>3, <2>4, <2>6, <2>7, Zenon DEF R
  <1>6. CASE R # {}
    <2>1. underWay(n, d, t)
      <3>1. 1 \notin R
        BY <1>1
      <3>2. \A u \in t + 1 .. MaxTests : u \in 1 .. MaxTests /\ u > t
        BY <1>1, SeqnoFacts
      <3> QED BY <1>1, <1>6, <3>1, <3>2, Zenon DEF underWay
    <2>2. /\ rec.cnt = Cardinality(R) /\ rec.total_cnt \in R
          /\ \E l \in R :
                    /\ \A q \in R : l <= q /\ q <= rec.total_cnt
                    /\ rec.rcv_nxt = Packets - l + 1
                    /\ gaps[n][d] = rec.total_cnt - l + 1 - Cardinality(R)
      BY <1>1, <2>1, Zenon DEF recordOK
    <2>3. PICK l \in R :
                    /\ \A q \in R : l <= q /\ q <= rec.total_cnt
                    /\ rec.rcv_nxt = Packets - l + 1
                    /\ gaps[n][d] = rec.total_cnt - l + 1 - Cardinality(R)
      BY <2>2, Zenon
    <2>4. Cardinality(R) # 0
      BY <1>2, <1>6, FS_EmptySet
    <2>5. l \in 1 .. Packets /\ r < l /\ (Packets - r - (Packets - l + 1)) % SEQNOS = l - r - 1
      <3>1. l \in 1 .. Packets /\ r < l
        BY <1>1
      <3> QED BY <1>1, <3>1, GapFact
    <2> HIDE DEF R
    <2>6. /\ cntAfter(n, d) = Cardinality(R) + 1 /\ totalAfter(n, d, r) = rec.total_cnt
          /\ gapsAfter(n, d, r) = gaps[n][d] + (l - r - 1)
      <3>1. rec.cnt # 0
        BY <2>2, <2>4, Zenon
      <3>2. cntAfter(n, d) = Cardinality(R) + 1
        BY <2>2, Zenon DEF cntAfter
      <3>3. totalAfter(n, d, r) = rec.total_cnt
        BY <3>1, Zenon DEF totalAfter
      <3>4. gapsAfter(n, d, r) = gaps[n][d] + (l - r - 1)
        BY <2>3, <2>5, <3>1, Zenon DEF gapsAfter
      <3> QED BY <3>2, <3>3, <3>4
    <2> HIDE DEF rec
    <2>7. gapsAfter(n, d, r) = totalAfter(n, d, r) - r + 1 - Cardinality(R \cup {r})
      BY <1>1, <1>2, <1>3, <1>4, <2>3, <2>5, <2>6
    <2>8. \A q \in R \cup {r} : r <= q /\ q <= totalAfter(n, d, r)
      <3>1. \A q \in R : r <= q /\ q <= totalAfter(n, d, r)
        BY <1>1, <2>3, <2>6
      <3>2. r <= r /\ r <= totalAfter(n, d, r)
        BY <1>1, <1>4, <2>2, <2>6
      <3> QED BY <3>1, <3>2
    <2>9. cntAfter(n, d) = Cardinality(R \cup {r}) /\ totalAfter(n, d, r) \in R \cup {r}
      BY <1>3, <2>2, <2>6
    <2> QED BY <2>7, <2>8, <2>9, Zenon DEF R
  <1> QED BY <1>5, <1>6

\* The record of the sender stays right.
LEMMA RecordMoves ==
  ASSUME mcastTypes, NEW n \in Node, orderOK(n), NEW d, NEW t, NEW r, reads(n, d, t, r),
         keeps(n, d, t, r), recordOK(n, d)
  PROVE  recordOK(n, d)'
  <1> DEFINE S == saw[n][<<d, t>>] \cup {r}
  <1>1. /\ d \in Node /\ t \in 1 .. MaxTests /\ r \in 1 .. Packets
        /\ \A u \in 1 .. MaxTests : u > t => saw[n][<<d, u>>] = {}
        /\ \A q \in saw[n][<<d, t>>] : r < q /\ q \in 1 .. Packets
    BY ReadLater
  <1>2. /\ saw'[n][<<d, t>>] = S
        /\ \A u \in 1 .. MaxTests : u # t => saw'[n][<<d, u>>] = saw[n][<<d, u>>]
    <2>1. /\ saw'[n][<<d, t>>] = saw[n][<<d, t>>] \cup {r}
          /\ \A x \in Node, u \in 1 .. MaxTests : x # d \/ u # t => saw'[n][<<x, u>>] = saw[n][<<x, u>>]
          /\ \A x \in Node, u \in 1 .. MaxTests : saw[n][<<x, u>>] \subseteq 1 .. Packets
      BY SawAfter, Zenon
    <2> QED BY <1>1, <2>1, Zenon
  <1>3. r # 1 => 1 \notin S
    BY <1>1
  <1>4. ASSUME NEW u \in 1 .. MaxTests, underWay(n, d, u)' PROVE u = t /\ r # 1 /\ wellEnded(n, d, t)
    <2>1. ~ (u < t)
      <3>1. ASSUME u < t PROVE t \in u + 1 .. MaxTests
        BY <1>1, <3>1, SeqnoFacts
      <3>2. S # {}
        OBVIOUS
      <3> QED BY <1>2, <1>4, <3>1, <3>2, Zenon DEF underWay
    <2>2. ~ (u > t)
      <3>1. ASSUME u > t PROVE u # t
        BY <1>1, <3>1
      <3> QED BY <1>1, <1>2, <1>4, <3>1, Zenon DEF underWay
    <2>3. u = t
      BY <1>1, <2>1, <2>2
    <2>4. 1 \notin S
      BY <1>2, <1>4, <2>3, Zenon DEF underWay
    <2>5. \A v \in 1 .. t - 1 : v \in 1 .. MaxTests /\ v # t
      BY <1>1, SeqnoFacts
    <2>6. wellEnded(n, d, t)
      BY <1>2, <1>4, <2>3, <2>5, Zenon DEF underWay, wellEnded
    <2> QED BY <2>3, <2>4, <2>6
  <1>5. (\A u \in 1 .. MaxTests : saw'[n][<<d, u>>] # {} => 1 \in saw'[n][<<d, u>>]) =>
             sndrs'[n][slot(d)].cnt = 0 /\ gaps'[n][d] = 0
    <2>1. CASE r = 1
      <3>1. clear.cnt = 0
        BY DEF clear
      <3> QED BY <2>1, <3>1, Zenon DEF keeps
    <2>2. CASE r # 1
      <3>1. S # {}
        OBVIOUS
      <3> QED BY <1>1, <1>2, <1>3, <2>2, <3>1, Zenon
    <2> QED BY <2>1, <2>2
  <1>6. ASSUME NEW u \in 1 .. MaxTests, underWay(n, d, u)'
        PROVE  LET Q == saw'[n][<<d, u>>]
               IN  /\ sndrs'[n][slot(d)].cnt = Cardinality(Q) /\ sndrs'[n][slot(d)].total_cnt \in Q
                   /\ \E l \in Q :
                        /\ \A q \in Q : l <= q /\ q <= sndrs'[n][slot(d)].total_cnt
                        /\ sndrs'[n][slot(d)].rcv_nxt = Packets - l + 1
                        /\ gaps'[n][d] = sndrs'[n][slot(d)].total_cnt - l + 1 - Cardinality(Q)
    <2>1. u = t /\ r # 1 /\ wellEnded(n, d, t)
      BY <1>4, <1>6
    <2>2. /\ cntAfter(n, d) = Cardinality(S) /\ totalAfter(n, d, r) \in S
          /\ \A q \in S : r <= q /\ q <= totalAfter(n, d, r)
          /\ gapsAfter(n, d, r) = totalAfter(n, d, r) - r + 1 - Cardinality(S)
      BY <2>1, RecordRead
    <2>3. (Packets - r + 1) % SEQNOS = Packets - r + 1
      <3>1. Packets - r + 1 \in Int /\ 0 <= Packets - r + 1 /\ Packets - r + 1 < SEQNOS
        BY <1>1, <2>1, SeqnoFacts
      <3> QED BY <3>1, SeqnoFacts, Zenon
    <2>4. /\ sndrs'[n][slot(d)].cnt = cntAfter(n, d) /\ sndrs'[n][slot(d)].total_cnt = totalAfter(n, d, r)
          /\ sndrs'[n][slot(d)].rcv_nxt = Packets - r + 1 /\ gaps'[n][d] = gapsAfter(n, d, r)
      <3>1. /\ sndrs'[n][slot(d)] = [rcv_nxt |-> (Packets - r + 1) % SEQNOS, cnt |-> cntAfter(n, d),
                                     total_cnt |-> totalAfter(n, d, r)]
            /\ gaps'[n][d] = gapsAfter(n, d, r)
        BY <2>1, Zenon DEF keeps
      <3> QED BY <2>3, <3>1
    <2>5. saw'[n][<<d, u>>] = S /\ r \in S
      BY <1>2, <2>1
    <2> HIDE DEF S
    <2> QED BY <2>2, <2>4, <2>5, Zenon
  <1> QED BY <1>5, <1>6, Zenon DEF recordOK

-----------------------------------------------------------------------------
(***************************************************************************)
(* The verdicts.                                                           *)
(***************************************************************************)
verdictOK(n) ==
  said[n] # silence /\ wellEnded(n, said[n].from, said[n].test) =>
    LET S == saw[n][<<said[n].from, said[n].test>>]
    IN  /\ said[n].ok = (S = 1 .. highest(S))
        /\ said[n].missing = highest(S) - Cardinality(S) /\ said[n].missing = said[n].gaps

LEMMA VerdictsOK == VerdictTrue <=> \A n \in Node : verdictOK(n)
  BY Zenon DEF VerdictTrue, verdictOK

\* A verdict stands as long as its transmission and those before it are not touched.
LEMMA VerdictStays ==
  ASSUME NEW n \in Node, verdictOK(n), endedOK(n), said'[n] = said[n],
         said[n] # silence => \A u \in 1 .. said[n].test :
                                saw'[n][<<said[n].from, u>>] = saw[n][<<said[n].from, u>>]
  PROVE  verdictOK(n)' /\ endedOK(n)'
  <1>1. CASE said[n] = silence
    BY <1>1, Zenon DEF verdictOK, endedOK
  <1>2. CASE said[n] # silence
    <2>1. /\ said[n].from \in Node /\ said[n].test \in 1 .. MaxTests
          /\ 1 \in saw[n][<<said[n].from, said[n].test>>]
      BY <1>2, Zenon DEF endedOK
    <2>2. said[n].test \in 1 .. said[n].test /\ \A u \in 1 .. said[n].test - 1 : u \in 1 .. said[n].test
      BY <2>1, SeqnoFacts
    <2>3. saw'[n][<<said[n].from, said[n].test>>] = saw[n][<<said[n].from, said[n].test>>]
      BY <1>2, <2>2, Zenon
    <2>4. wellEnded(n, said[n].from, said[n].test)' => wellEnded(n, said[n].from, said[n].test)
      BY <1>2, <2>2, Zenon DEF wellEnded
    <2>5. endedOK(n)'
      BY <2>1, <2>3, Zenon DEF endedOK
    <2>6. verdictOK(n)'
      BY <2>3, <2>4, Zenon DEF verdictOK
    <2> QED BY <2>5, <2>6
  <1> QED BY <1>1, <1>2

\* The highest number of a set is unique.
LEMMA HighestIs ==
  ASSUME NEW S \in SUBSET Nat, NEW h \in S, \A q \in S : q <= h
  PROVE  highest(S) = h
  <1>1. highest(S) \in S /\ \A q \in S : q <= highest(S)
    BY Zenon DEF highest
  <1>2. highest(S) \in Nat /\ h \in Nat /\ h <= highest(S) /\ highest(S) <= h
    BY <1>1
  <1> QED BY <1>2

\* A set of packet numbers is complete when it has as many as its highest one says.
LEMMA Complete ==
  ASSUME NEW h \in 1 .. Packets, NEW S \in SUBSET (1 .. h)
  PROVE  /\ Cardinality(S) \in 0 .. h
         /\ Cardinality(S) = h <=> S = 1 .. h
  <1>0. h \in Nat /\ 1 \in Int /\ h \in Int /\ h >= 1
    BY SeqnoFacts
  <1>1. IsFiniteSet(1 .. h) /\ Cardinality(1 .. h) = h
    <2>1. IsFiniteSet(1 .. h) /\ Cardinality(1 .. h) = IF 1 > h THEN 0 ELSE h - 1 + 1
      BY <1>0, FS_Interval, Zenon
    <2> QED BY <1>0, <2>1
  <1>2. IsFiniteSet(S) /\ Cardinality(S) <= Cardinality(1 .. h)
    BY <1>1, FS_Subset
  <1>3. Cardinality(S) \in Nat
    BY <1>2, FS_CardinalityType
  <1>4. Cardinality(S) = Cardinality(1 .. h) => S = 1 .. h
    BY <1>1, FS_Subset
  <1> QED BY <1>0, <1>1, <1>2, <1>3, <1>4

\* With the last packet the verdict is true.
LEMMA VerdictNew ==
  ASSUME mcastTypes, NEW n \in Node, orderOK(n), NEW d, NEW t, NEW r, reads(n, d, t, r),
         keeps(n, d, t, r), recordOK(n, d)
  PROVE  r = 1 => verdictOK(n)' /\ endedOK(n)'
  <1> DEFINE S == saw[n][<<d, t>>] \cup {r}
             T == totalAfter(n, d, r)
             allThere == cntAfter(n, d) = T
  <1>1. /\ d \in Node /\ t \in 1 .. MaxTests /\ r \in 1 .. Packets
        /\ saw[n][<<d, t>>] \subseteq 1 .. Packets
    BY ReadLater, Zenon
  <1>2. /\ saw'[n][<<d, t>>] = saw[n][<<d, t>>] \cup {r}
        /\ \A x \in Node, u \in 1 .. MaxTests : x # d \/ u # t => saw'[n][<<x, u>>] = saw[n][<<x, u>>]
        /\ \A x \in Node, u \in 1 .. MaxTests : saw[n][<<x, u>>] \subseteq 1 .. Packets
    BY SawAfter, Zenon
  <1> SUFFICES ASSUME r = 1 PROVE verdictOK(n)' /\ endedOK(n)'
    OBVIOUS
  <1>3. said'[n] = [from |-> d, test |-> t, gaps |-> gapsAfter(n, d, r), ok |-> allThere,
                    missing |-> (T - cntAfter(n, d)) % SEQNOS]
    BY Zenon DEF keeps
  <1>4. 1 \in S /\ S \subseteq 1 .. Packets
    BY <1>1
  <1> HIDE DEF T, allThere
  <1>5. /\ said'[n].from = d /\ said'[n].test = t /\ said'[n].gaps = gapsAfter(n, d, r)
        /\ said'[n].ok = allThere /\ said'[n].missing = (T - cntAfter(n, d)) % SEQNOS
    <2>1. PICK b : b = allThere
      OBVIOUS
    <2>2. said'[n] = [from |-> d, test |-> t, gaps |-> gapsAfter(n, d, r), ok |-> b,
                      missing |-> (T - cntAfter(n, d)) % SEQNOS]
      BY <1>3, <2>1, Zenon
    <2>3. /\ said'[n].from = d /\ said'[n].test = t /\ said'[n].gaps = gapsAfter(n, d, r)
          /\ said'[n].ok = b /\ said'[n].missing = (T - cntAfter(n, d)) % SEQNOS
      BY <2>2
    <2> QED BY <2>1, <2>3, Zenon
  <1>6. endedOK(n)'
    BY <1>1, <1>2, <1>4, <1>5, Zenon DEF endedOK
  <1>7. ASSUME wellEnded(n, d, t)'
        PROVE  /\ said'[n].ok = (S = 1 .. highest(S))
               /\ said'[n].missing = highest(S) - Cardinality(S) /\ said'[n].missing = said'[n].gaps
    <2>1. \A u \in 1 .. t - 1 : u \in 1 .. MaxTests /\ u # t
      BY <1>1, SeqnoFacts
    <2>2. wellEnded(n, d, t)
      BY <1>1, <1>2, <1>7, <2>1, Zenon DEF wellEnded
    <2>3. /\ cntAfter(n, d) = Cardinality(S) /\ T \in S
          /\ \A q \in S : r <= q /\ q <= T
          /\ gapsAfter(n, d, r) = T - r + 1 - Cardinality(S)
      BY <2>2, RecordRead DEF T
    <2> HIDE DEF S
    <2>4. T \in 1 .. Packets /\ S \in SUBSET Nat
      BY <1>4, <2>3, SeqnoFacts
    <2>5. highest(S) = T
      BY <2>3, <2>4, HighestIs
    <2>6. S \in SUBSET (1 .. T)
      BY <1>4, <2>3, <2>4
    <2>7. /\ Cardinality(S) \in 0 .. T
          /\ Cardinality(S) = T <=> S = 1 .. T
      BY <2>4, <2>6, Complete
    <2>8. (T - Cardinality(S)) % SEQNOS = T - Cardinality(S)
      <3>1. T - Cardinality(S) \in Int /\ 0 <= T - Cardinality(S) /\ T - Cardinality(S) < SEQNOS
        BY <2>4, <2>7, SeqnoFacts
      <3> QED BY <3>1, SeqnoFacts, Zenon
    <2>9. T - r + 1 - Cardinality(S) = T - Cardinality(S)
      BY <2>4, <2>7
    <2>10. allThere = (S = 1 .. highest(S))
      BY <2>3, <2>5, <2>7, Zenon DEF allThere
    <2> QED BY <1>5, <2>3, <2>5, <2>8, <2>9, <2>10, Zenon
  <1>8. verdictOK(n)'
    BY <1>2, <1>5, <1>7, Zenon DEF verdictOK
  <1> QED BY <1>6, <1>8

\* Before the last packet nothing is said, and what was said is on an earlier
\* transmission.
LEMMA VerdictKept ==
  ASSUME mcastTypes, NEW n \in Node, orderOK(n), NEW d, NEW t, NEW r, reads(n, d, t, r),
         keeps(n, d, t, r), r # 1, verdictOK(n), endedOK(n)
  PROVE  verdictOK(n)' /\ endedOK(n)'
  <1>1. /\ d \in Node /\ t \in 1 .. MaxTests /\ r \in 1 .. Packets
        /\ \A u \in 1 .. MaxTests : u > t => saw[n][<<d, u>>] = {}
        /\ \A q \in saw[n][<<d, t>>] : r < q /\ q \in 1 .. Packets
    BY ReadLater
  <1>2. /\ saw'[n][<<d, t>>] = saw[n][<<d, t>>] \cup {r}
        /\ \A x \in Node, u \in 1 .. MaxTests : x # d \/ u # t => saw'[n][<<x, u>>] = saw[n][<<x, u>>]
        /\ \A x \in Node, u \in 1 .. MaxTests : saw[n][<<x, u>>] \subseteq 1 .. Packets
    BY SawAfter, Zenon
  <1>3. said'[n] = said[n]
    BY Zenon DEF keeps
  <1>4. ASSUME said[n] # silence, NEW u \in 1 .. said[n].test
        PROVE  saw'[n][<<said[n].from, u>>] = saw[n][<<said[n].from, u>>]
    <2>1. /\ said[n].from \in Node /\ said[n].test \in 1 .. MaxTests
          /\ 1 \in saw[n][<<said[n].from, said[n].test>>]
      BY <1>4, Zenon DEF endedOK
    <2>2. u \in 1 .. MaxTests
      BY <2>1, SeqnoFacts
    <2>3. CASE said[n].from # d
      BY <1>2, <2>1, <2>2, <2>3, Zenon
    <2>4. CASE said[n].from = d
      <3>1. 1 \in saw[n][<<d, said[n].test>>]
        BY <2>1, <2>4, Zenon
      <3>2. ~ (said[n].test > t)
        BY <1>1, <2>1, <3>1
      <3>3. said[n].test # t
        <4>1. ASSUME said[n].test = t PROVE FALSE
          <5>1. r < 1
            BY <1>1, <3>1, <4>1, Zenon
          <5> QED BY <1>1, <5>1
        <4> QED BY <4>1
      <3>4. u # t
        BY <1>1, <2>1, <3>2, <3>3
      <3> QED BY <1>2, <2>1, <2>2, <3>4, Zenon
    <2> QED BY <2>3, <2>4
  <1> QED BY <1>3, <1>4, VerdictStays

-----------------------------------------------------------------------------
(***************************************************************************)
(* The steps of mcast_tipc.                                                *)
(***************************************************************************)
\* A receiver whose state does not change keeps its part.
LEMMA ReceiverStays ==
  ASSUME mcastTypes, NEW n \in Node, orderOK(n), endedOK(n), verdictOK(n), \A x \in Node : recordOK(n, x),
         advances, saw'[n] = saw[n], sndrs'[n] = sndrs[n], gaps'[n] = gaps[n], said'[n] = said[n]
  PROVE  /\ endedOK(n)' /\ verdictOK(n)' /\ \A x \in Node : recordOK(n, x)'
         /\ rq'[n] = rq[n] => orderOK(n)'
  <1>1. endedOK(n)' /\ verdictOK(n)'
    BY VerdictStays
  <1>2. ASSUME NEW x \in Node PROVE recordOK(n, x)'
    BY RecordStays
  <1>3. ASSUME rq'[n] = rq[n] PROVE orderOK(n)'
    BY <1>3, LineStays
  <1> QED BY <1>1, <1>2, <1>3

mcastParts(n) == orderOK(n) /\ endedOK(n) /\ verdictOK(n) /\ \A x \in Node : recordOK(n, x)

mcastAll == mcastTypes /\ (\A n \in Node : numberedOK(n)) /\ \A n \in Node : mcastParts(n)

LEMMA McastParts == McastInv <=> mcastAll
  BY VerdictsOK, Zenon DEF McastInv, mcastParts, mcastAll

LEMMA McastPartsAfter == McastInv' <=> mcastAll'
  BY McastParts, PTL

LEMMA KeptAdvances ==
  ASSUME \A x \in Node : xmit'[x].test = xmit[x].test /\ xmit'[x].count = xmit[x].count
  PROVE  advances
  BY Zenon DEF advances

\* Steps that touch no receiver.
LEMMA PartsStay ==
  ASSUME mcastTypes, \A x \in Node : mcastParts(x), advances, UNCHANGED <<rq, sndrs, gaps, said, saw>>
  PROVE  \A x \in Node : mcastParts(x)'
  <1> SUFFICES ASSUME NEW x \in Node PROVE mcastParts(x)'
    OBVIOUS
  <1>1. orderOK(x) /\ endedOK(x) /\ verdictOK(x) /\ \A y \in Node : recordOK(x, y)
    BY Zenon DEF mcastParts
  <1>2. /\ endedOK(x)' /\ verdictOK(x)' /\ \A y \in Node : recordOK(x, y)'
        /\ rq'[x] = rq[x] => orderOK(x)'
    BY <1>1, ReceiverStays
  <1> QED BY <1>2, Zenon DEF mcastParts

LEMMA McastStep ==
  ASSUME SlotsApart, McastInv, McastNext
  PROVE  McastInv'
  <1>1. mcastTypes /\ (\A x \in Node : numberedOK(x)) /\ \A x \in Node : mcastParts(x)
    BY McastParts, Zenon DEF mcastAll
  <1>2. SUFFICES mcastTypes' /\ (\A x \in Node : numberedOK(x)') /\ \A x \in Node : mcastParts(x)'
    BY McastPartsAfter, Zenon DEF mcastAll
  <1>3. PICK n \in Node :
          Start(n) \/ Bind(n) \/ FirstServer(n) \/ Transmit(n) \/ Finish(n) \/ mcast_receiver(n)
    BY Zenon DEF McastNext
  <1>5. CASE Start(n)
    <2>1. mcastTypes'
      BY <1>1, <1>5, McastTypesStart
    <2>2. advances /\ \A x \in Node : numberedOK(x)'
      BY <1>1, <1>5, StartAdvances
    <2>3. UNCHANGED <<rq, sndrs, gaps, said, saw>>
      BY <1>5 DEF Start
    <2> QED BY <1>1, <2>1, <2>2, <2>3, PartsStay
  <1>6. CASE Bind(n)
    <2>1. mcastTypes'
      BY <1>1, <1>6, McastTypesBind
    <2>2. xmit' = xmit
      BY <1>6 DEF Bind
    <2>3. \A x \in Node : numberedOK(x)'
      BY <1>1, <2>2, Zenon DEF numberedOK
    <2>4. advances
      BY <2>2, KeptAdvances
    <2>5. ASSUME NEW x \in Node, x # n PROVE mcastParts(x)'
      <3>1. rq'[x] = rq[x] /\ saw'[x] = saw[x] /\ sndrs'[x] = sndrs[x] /\ gaps'[x] = gaps[x] /\ said'[x] = said[x]
        BY <1>1, <1>6, <2>5, Zenon DEF Bind, mcastTypes
      <3>2. orderOK(x) /\ endedOK(x) /\ verdictOK(x) /\ \A y \in Node : recordOK(x, y)
        BY <1>1, Zenon DEF mcastParts
      <3>3. /\ endedOK(x)' /\ verdictOK(x)' /\ \A y \in Node : recordOK(x, y)'
            /\ rq'[x] = rq[x] => orderOK(x)'
        BY <1>1, <2>4, <3>1, <3>2, ReceiverStays
      <3> QED BY <3>1, <3>3, Zenon DEF mcastParts
    <2>6. mcastParts(n)'
      <3>1. /\ rq'[n] = <<>> /\ said'[n] = silence /\ gaps'[n] = [x \in Node |-> 0]
            /\ sndrs'[n] = [z \in {slot(x) : x \in Node} |-> clear] /\ saw'[n] = [z \in Tests |-> {}]
        <4>1. DOMAIN sndrs[n] = {slot(x) : x \in Node}
          BY <1>1, Zenon DEF mcastTypes
        <4> QED BY <1>1, <1>6, <4>1, Zenon DEF Bind, mcastTypes
      <3>2. \A x \in Node, t \in 1 .. MaxTests : saw'[n][<<x, t>>] = {}
        <4>1. \A x \in Node, t \in 1 .. MaxTests : <<x, t>> \in Tests
          BY DEF Tests
        <4> QED BY <3>1, <4>1, Zenon
      <3>3. orderOK(n)'
        BY <3>1, <3>2, LineEmpty
      <3>4. ASSUME NEW x \in Node PROVE recordOK(n, x)'
        <4>1. sndrs'[n][slot(x)] = clear /\ gaps'[n][x] = 0
          BY <3>1, Zenon
        <4> QED BY <3>2, <4>1, RecordClear
      <3>5. endedOK(n)' /\ verdictOK(n)'
        BY <3>1, Zenon DEF endedOK, verdictOK
      <3> QED BY <3>3, <3>4, <3>5, Zenon DEF mcastParts
    <2> QED BY <2>1, <2>3, <2>5, <2>6, Zenon
  <1>7. CASE FirstServer(n)
    <2>1. mcastTypes' /\ \A x \in Node : /\ xmit'[x].test = xmit[x].test /\ xmit'[x].count = xmit[x].count
                                         /\ xmit'[x].seqno = xmit[x].seqno
      BY <1>1, <1>7, McastTypesFirst
    <2>2. \A x \in Node : xmit[x].pc # "off" \/ xmit'[x].pc = "off"
      BY <1>1, <1>7 DEF FirstServer, mcastTypes
    <2>3. \A x \in Node : numberedOK(x)'
      BY <1>1, <2>1, <2>2, NumbersStay
    <2>4. advances
      BY <2>1, KeptAdvances
    <2>5. UNCHANGED <<rq, sndrs, gaps, said, saw>>
      BY <1>7 DEF FirstServer
    <2> QED BY <1>1, <2>1, <2>3, <2>4, <2>5, PartsStay
  <1>8. CASE Finish(n)
    <2>1. mcastTypes' /\ \A x \in Node : /\ xmit'[x].test = xmit[x].test /\ xmit'[x].count = xmit[x].count
                                         /\ xmit'[x].seqno = xmit[x].seqno
      BY <1>1, <1>8, McastTypesFinish
    <2>2. \A x \in Node : xmit[x].pc # "off" \/ xmit'[x].pc = "off"
      BY <1>1, <1>8 DEF Finish, mcastTypes
    <2>3. \A x \in Node : numberedOK(x)'
      BY <1>1, <2>1, <2>2, NumbersStay
    <2>4. advances
      BY <2>1, KeptAdvances
    <2>5. UNCHANGED <<rq, sndrs, gaps, said, saw>>
      BY <1>8 DEF Finish
    <2> QED BY <1>1, <2>1, <2>3, <2>4, <2>5, PartsStay
  <1>9. CASE Transmit(n)
    <2>1. /\ advances /\ \A x \in Node : numberedOK(x)'
          /\ before(xmit[n].test, xmit[n].count, xmit'[n].test, xmit'[n].count) /\ xmit[n].test >= 1
      BY <1>1, <1>9, TransmitAdvances
    <2>2. /\ mcastTypes' /\ packet(n) \in Packet
          /\ \A x \in Node : rq'[x] = rq[x] \/ rq'[x] = Append(rq[x], packet(n))
      BY <1>1, <1>9, <2>1, McastTypesTransmit
    <2>3. UNCHANGED <<sndrs, gaps, said, saw>>
      BY <1>9 DEF Transmit
    <2>4. ASSUME NEW x \in Node PROVE mcastParts(x)'
      <3>1. orderOK(x) /\ endedOK(x) /\ verdictOK(x) /\ \A y \in Node : recordOK(x, y)
        BY <1>1, Zenon DEF mcastParts
      <3>2. /\ endedOK(x)' /\ verdictOK(x)' /\ \A y \in Node : recordOK(x, y)'
            /\ rq'[x] = rq[x] => orderOK(x)'
        BY <1>1, <2>1, <2>3, <3>1, ReceiverStays
      <3>3. rq'[x] = Append(rq[x], packet(n)) => orderOK(x)'
        BY <1>1, <2>1, <2>2, <2>3, <3>1, LineGrows
      <3> QED BY <2>2, <3>2, <3>3, Zenon DEF mcastParts
    <2> QED BY <2>1, <2>2, <2>4, Zenon
  <1>10. CASE mcast_receiver(n)
    <2>1. orderOK(n) /\ endedOK(n) /\ verdictOK(n) /\ \A y \in Node : recordOK(n, y)
      BY <1>1, Zenon DEF mcastParts
    <2>2. /\ UNCHANGED <<use, xmit, rcvr>>
          /\ \A x \in Node : x # n => same(x)
          /\ \E d \in Node, t \in 1 .. MaxTests, r \in 1 .. Packets : reads(n, d, t, r) /\ keeps(n, d, t, r)
      BY <1>1, <1>10, <2>1, ReceiverReads
    <2>3. PICK d \in Node, t \in 1 .. MaxTests, r \in 1 .. Packets : reads(n, d, t, r) /\ keeps(n, d, t, r)
      BY <2>2, Zenon
    <2>4. mcastTypes'
      BY <1>1, <1>10, <2>1, McastTypesReceiver
    <2>5. \A x \in Node : numberedOK(x)'
      BY <1>1, <2>2, Zenon DEF numberedOK
    <2>6. advances
      BY <2>2, KeptAdvances
    <2>7. ASSUME NEW x \in Node, x # n PROVE mcastParts(x)'
      <3>1. rq'[x] = rq[x] /\ saw'[x] = saw[x] /\ sndrs'[x] = sndrs[x] /\ gaps'[x] = gaps[x] /\ said'[x] = said[x]
        BY <2>2, <2>7, Zenon DEF same
      <3>2. orderOK(x) /\ endedOK(x) /\ verdictOK(x) /\ \A y \in Node : recordOK(x, y)
        BY <1>1, Zenon DEF mcastParts
      <3>3. /\ endedOK(x)' /\ verdictOK(x)' /\ \A y \in Node : recordOK(x, y)'
            /\ rq'[x] = rq[x] => orderOK(x)'
        BY <1>1, <2>6, <3>1, <3>2, ReceiverStays
      <3> QED BY <3>1, <3>3, Zenon DEF mcastParts
    <2>8. orderOK(n)'
      BY <1>1, <2>1, <2>2, <2>3, LineMoves
    <2>9. endedOK(n)' /\ verdictOK(n)'
      <3>1. CASE r = 1
        BY <1>1, <2>1, <2>3, <3>1, VerdictNew
      <3>2. CASE r # 1
        BY <1>1, <2>1, <2>3, <3>2, VerdictKept
      <3> QED BY <3>1, <3>2
    <2>10. ASSUME NEW x \in Node PROVE recordOK(n, x)'
      <3>1. CASE x = d
        <4>1. recordOK(n, d)'
          BY <1>1, <2>1, <2>3, RecordMoves
        <4> QED BY <3>1, <4>1
      <3>2. CASE x # d
        <4>1. slot(x) # slot(d)
          BY <3>2, Zenon DEF SlotsApart
        <4>2. sndrs'[n][slot(x)] = sndrs[n][slot(x)] /\ gaps'[n][x] = gaps[n][x]
          BY <2>3, <3>2, <4>1, Zenon DEF keeps
        <4>3. /\ saw'[n][<<d, t>>] = saw[n][<<d, t>>] \cup {r}
              /\ \A y \in Node, u \in 1 .. MaxTests : y # d \/ u # t => saw'[n][<<y, u>>] = saw[n][<<y, u>>]
              /\ \A y \in Node, u \in 1 .. MaxTests : saw[n][<<y, u>>] \subseteq 1 .. Packets
          BY <1>1, <2>3, SawAfter, Zenon
        <4>4. \A u \in 1 .. MaxTests : saw'[n][<<x, u>>] = saw[n][<<x, u>>]
          BY <3>2, <4>3, Zenon
        <4> QED BY <1>1, <2>1, <4>2, <4>4, RecordStays
      <3> QED BY <3>1, <3>2
    <2>11. mcastParts(n)'
      BY <2>8, <2>9, <2>10, Zenon DEF mcastParts
    <2> QED BY <2>4, <2>5, <2>7, <2>11, Zenon
  <1> QED BY <1>3, <1>5, <1>6, <1>7, <1>8, <1>9, <1>10

LEMMA McastStart ==
  ASSUME McastInit
  PROVE  McastInv
  <1>1. /\ use \in McastSetups /\ xmit = [n \in Node |-> idle(0)] /\ rcvr = [n \in Node |-> "off"]
        /\ rq = [n \in Node |-> <<>>] /\ sndrs = [n \in Node |-> [s \in {slot(x) : x \in Node} |-> clear]]
        /\ gaps = [n \in Node |-> [x \in Node |-> 0]] /\ said = [n \in Node |-> silence]
        /\ saw = [n \in Node |-> [t \in Tests |-> {}]]
    BY Zenon DEF McastInit
  <1>2. idle(0) \in Xmitter /\ idle(0).pc = "off" /\ idle(0).count = Packets /\ idle(0).seqno = SEQNOS - 1
    BY SeqnoFacts DEF idle, Xmitter
  <1>3. clear \in Record /\ clear.cnt = 0
    BY SeqnoFacts DEF clear, Record
  <1>4. silence \in [from : Node \cup {0}, test : 0 .. MaxTests, ok : BOOLEAN, missing : Nat, gaps : Nat]
    BY SeqnoFacts DEF silence
  <1>5. mcastTypes
    <2>1. use \in [Node -> [mode : {"both", "c", "s"}, tests : 0 .. MaxTests]]
      BY <1>1, McastAssumption
    <2>2. xmit \in [Node -> Xmitter] /\ rcvr \in [Node -> {"off", "up", "dead"}]
      BY <1>1, <1>2, Zenon
    <2>3. rq \in [Node -> Seq(Packet)]
      BY <1>1
    <2>4. sndrs \in [Node -> [{slot(x) : x \in Node} -> Record]]
      BY <1>1, <1>3, Zenon
    <2>5. gaps \in [Node -> [Node -> Nat]]
      BY <1>1
    <2>6. said \in [Node -> [from : Node \cup {0}, test : 0 .. MaxTests, ok : BOOLEAN, missing : Nat, gaps : Nat]]
      BY <1>1, <1>4, Zenon
    <2>7. saw \in [Node -> [Tests -> SUBSET (1 .. Packets)]]
      BY <1>1, Zenon
    <2> QED BY <2>1, <2>2, <2>3, <2>4, <2>5, <2>6, <2>7, Zenon DEF mcastTypes, Xmitter
  <1>6. \A n \in Node : numberedOK(n)
    BY <1>1, <1>2 DEF numberedOK
  <1>7. ASSUME NEW n \in Node PROVE mcastParts(n)
    <2>1. \A x \in Node, t \in 1 .. MaxTests : saw[n][<<x, t>>] = {}
      <3>1. \A x \in Node, t \in 1 .. MaxTests : <<x, t>> \in Tests
        BY DEF Tests
      <3> QED BY <1>1, <3>1, Zenon
    <2>2. orderOK(n)
      <3>1. rq[n] = <<>>
        BY <1>1, Zenon
      <3>2. \A i \in 1 .. Len(rq[n]) : FALSE
        BY <3>1
      <3> QED BY <2>1, <3>2, Zenon DEF orderOK
    <2>3. ASSUME NEW x \in Node PROVE recordOK(n, x)
      <3>1. sndrs[n][slot(x)].cnt = 0 /\ gaps[n][x] = 0
        BY <1>1, <1>3, Zenon
      <3>2. \A t \in 1 .. MaxTests : ~ underWay(n, x, t)
        BY <2>1, Zenon DEF underWay
      <3> QED BY <3>1, <3>2, Zenon DEF recordOK
    <2>4. endedOK(n) /\ verdictOK(n)
      BY <1>1, Zenon DEF endedOK, verdictOK
    <2> QED BY <2>2, <2>3, <2>4, Zenon DEF mcastParts
  <1> QED BY <1>5, <1>6, <1>7, McastParts, Zenon DEF mcastAll

\* Nothing of mcast_tipc changes in a step that leaves its state alone.
LEMMA McastUnchanged ==
  ASSUME McastInv, UNCHANGED mvars
  PROVE  McastInv'
  <1>1. /\ use' = use /\ xmit' = xmit /\ rcvr' = rcvr /\ rq' = rq /\ sndrs' = sndrs /\ gaps' = gaps
        /\ said' = said /\ saw' = saw
    BY DEF mvars
  <1>2. mcastTypes /\ (\A x \in Node : numberedOK(x)) /\ \A x \in Node : mcastParts(x)
    BY McastParts, Zenon DEF mcastAll
  <1>3. mcastTypes'
    BY <1>1, <1>2, Zenon DEF mcastTypes
  <1>4. \A x \in Node : numberedOK(x)'
    BY <1>1, <1>2, Zenon DEF numberedOK
  <1>5. \A x \in Node : mcastParts(x)'
    <2>1. advances
      BY <1>1, KeptAdvances
    <2> QED BY <1>1, <1>2, <2>1, PartsStay
  <1> QED BY <1>3, <1>4, <1>5, McastPartsAfter, Zenon DEF mcastAll

\* McastInv is inductive: what a receiver has read, what is queued at it and what
\* is still to be sent follow each other, and its record of each sender is what
\* it has read of the transmission under way, as long as no two nodes share a
\* record (mcast_receiver, mcast_transmitter).
THEOREM McastInductive ==
  ASSUME SlotsApart
  PROVE  BlastSpec => []McastInv
  <1>1. BlastInit => McastInv
    BY McastStart, Zenon DEF BlastInit
  <1>2. McastInv /\ [BlastNext]_<<mvars, gvars, program>> => McastInv'
    <2> SUFFICES ASSUME McastInv, [BlastNext]_<<mvars, gvars, program>> PROVE McastInv'
      OBVIOUS
    <2>1. McastNext \/ UNCHANGED mvars
      BY Zenon DEF BlastNext
    <2> QED BY <2>1, McastStep, McastUnchanged
  <1> QED BY <1>1, <1>2, PTL DEF BlastSpec

\* The verdict printed with the last packet of a transmission is true: OK exactly
\* when nothing is missing after the first packet read, the number of missing
\* packets otherwise, and the same number as the gaps reported on the way, for any
\* nodes that do not share a record, any number of packets, any queue and any
\* number of starts (mcast_receiver).
THEOREM VerdictsTrue ==
  ASSUME SlotsApart
  PROVE  BlastSpec => []VerdictTrue
  <1>1. McastInv => VerdictTrue
    BY Zenon DEF McastInv
  <1> QED BY <1>1, McastInductive, PTL
=============================================================================
