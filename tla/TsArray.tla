------------------------------ MODULE TsArray ------------------------------
(***************************************************************************)
(* The test vectors of the portable TIPC test suite: makeArray fills a     *)
(* message with a pattern, checkArray counts the errors in a message that  *)
(* has arrived.  A message is a function from 0 .. size - 1 to bytes.      *)
(***************************************************************************)
EXTENDS Integers, FiniteSets, FiniteSetsExt

Byte == 0 .. 255

\* Shorter messages carry no header of size, start, end and checksum.
HEADER == 7

bit(x, b) == (x \div 2^b) % 2

\* Exclusive or of the bytes of a at the indices I.
xor(a, I) == SumSet({2^b : b \in {c \in 0 .. 7 : Cardinality({i \in I : bit(a[i], c) = 1}) % 2 = 1}})

\* A vector of size bytes; start and end are put in range first.
makeArray(size, start, end) ==
  LET s  == IF start < 0 \/ start > 255 \/ start > end THEN 0 ELSE start
      e  == IF end < 0 \/ end > 255 THEN 255 ELSE end
      hd == [i \in 0 .. 5 |-> CASE i < 4 -> (size \div 256^i) % 256 [] i = 4 -> s [] i = 5 -> e]
  IN  [i \in 0 .. size - 1 |->
         CASE size < HEADER            -> i
           [] size >= HEADER /\ i < 6  -> hd[i]
           [] size >= HEADER /\ i = 6  -> 255 - xor(hd, 0 .. 5)
           [] OTHER                    -> s + ((i - HEADER) % (e - s + 1))]

\* Number of errors found in a message of arraySize bytes.  A header whose end
\* is below its start makes curNum return to start at every byte.
checkArray(a, arraySize) ==
  IF arraySize < HEADER
  THEN Cardinality({i \in 0 .. arraySize - 1 : a[i] # i})
  ELSE LET theSize == a[0] + 256 * a[1] + 65536 * a[2] + 16777216 * a[3]
           period  == IF a[5] < a[4] THEN 1 ELSE a[5] - a[4] + 1
       IN  IF 255 - xor(a, 0 .. 5) # a[6] \/ theSize # arraySize
           THEN 1
           ELSE Cardinality({i \in HEADER .. theSize - 1 :
                               a[i] # a[4] + ((i - HEADER) % period)})

-----------------------------------------------------------------------------
Sizes  == (1 .. 12) \cup {256, 300}
Starts == {-1, 0, 5, 250, 256}
Ends   == {-1, 0, 7, 255, 300}

\* A vector that arrives as it was made has no error, however makeArray's
\* arguments had to be corrected.
ASSUME GoodArraysPass ==
  \A n \in Sizes, s \in Starts, e \in Ends : checkArray(makeArray(n, s, e), n) = 0

\* A vector with one changed byte, wherever it is, has an error.
ASSUME OneBadByteShows ==
  \A n \in 1 .. 12, s \in {0, 5}, e \in {7, 255} :
    LET a == makeArray(n, s, e)
    IN  \A i \in 0 .. n - 1, v \in {0, 1, 7, 128, 255} :
          v # a[i] => checkArray([a EXCEPT ![i] = v], n) > 0

\* A vector cut short has an error, save that the first bytes of a vector whose
\* size is a multiple of 256 look like a vector without a header.
ASSUME CutArraysShow ==
  \A n \in Sizes, k \in 1 .. 12 :
    /\ k < n
    /\ n >= HEADER
    /\ k >= 3 \/ n % 256 # 0
    => checkArray(makeArray(n, 0, 255), k) > 0
=============================================================================
