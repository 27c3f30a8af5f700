--------------------------- MODULE SequenceLemmas ---------------------------
(***************************************************************************)
(* What the operations on queues do to the elements of a sequence: facts   *)
(* that the proofs about the queues, buffers and batches of the clients    *)
(* keep needing.                                                           *)
(***************************************************************************)
EXTENDS Integers, Sequences, FiniteSets, SequenceTheorems, FiniteSetTheorems, TLAPS

\* A span added to a queue joins those that are in it.
LEMMA RangeAppend ==
    ASSUME NEW S, NEW q \in Seq(S), NEW x \in S
    PROVE  /\ Append(q, x) \in Seq(S) /\ Len(Append(q, x)) = Len(q) + 1
           /\ Range(Append(q, x)) = Range(q) \cup {x}
<1>1. Append(q, x) \in Seq(S) /\ Len(Append(q, x)) = Len(q) + 1
  OBVIOUS
<1>2. /\ \A i \in 1 .. Len(q) : Append(q, x)[i] = q[i]
      /\ Append(q, x)[Len(q) + 1] = x
  OBVIOUS
<1>3. Range(Append(q, x)) = {Append(q, x)[i] : i \in 1 .. Len(q) + 1}
  BY <1>1, RangeEquality
<1>4. Range(q) = {q[i] : i \in 1 .. Len(q)}
  BY RangeEquality
<1>5. Range(Append(q, x)) = Range(q) \cup {x}
  BY <1>2, <1>3, <1>4
<1> QED
  BY <1>1, <1>5

\* Taking the head of a queue splits its elements.
LEMMA RangeHeadTail ==
    ASSUME NEW S, NEW q \in Seq(S), q # <<>>
    PROVE  /\ Head(q) \in S /\ Tail(q) \in Seq(S) /\ Len(Tail(q)) = Len(q) - 1
           /\ Range(q) = {Head(q)} \cup Range(Tail(q))
<1>1. Head(q) \in S /\ Tail(q) \in Seq(S) /\ Len(Tail(q)) = Len(q) - 1
  BY HeadTailProperties
<1>2. Range(q) = {q[i] : i \in 1 .. Len(q)}
  BY RangeEquality
<1>3. Range(Tail(q)) = {Tail(q)[i] : i \in 1 .. Len(q) - 1}
  BY <1>1, RangeEquality
<1>4. \A i \in 1 .. Len(q) - 1 : Tail(q)[i] = q[i + 1]
  BY <1>1, HeadTailProperties
<1>5. Head(q) = q[1] /\ Len(q) \in Nat \ {0}
  OBVIOUS
<1>6. Range(q) \subseteq {Head(q)} \cup Range(Tail(q))
  <2> SUFFICES ASSUME NEW i \in 1 .. Len(q), i # 1 PROVE q[i] \in Range(Tail(q))
    BY <1>2, <1>5
  <2>1. i - 1 \in 1 .. Len(q) - 1 /\ Tail(q)[i - 1] = q[i]
    BY <1>4, <1>5
  <2> QED
    BY <1>3, <2>1
<1>7. {Head(q)} \cup Range(Tail(q)) \subseteq Range(q)
  BY <1>2, <1>3, <1>4, <1>5
<1> QED
  BY <1>1, <1>6, <1>7

\* So does draining a prefix of it.
LEMMA RangeSplit ==
    ASSUME NEW S, NEW q \in Seq(S), NEW n \in 0 .. Len(q)
    PROVE  /\ SubSeq(q, 1, n) \in Seq(S) /\ Len(SubSeq(q, 1, n)) = n
           /\ SubSeq(q, n + 1, Len(q)) \in Seq(S)
           /\ Len(SubSeq(q, n + 1, Len(q))) = Len(q) - n
           /\ q = SubSeq(q, 1, n) \o SubSeq(q, n + 1, Len(q))
           /\ Range(q) = Range(SubSeq(q, 1, n)) \cup Range(SubSeq(q, n + 1, Len(q)))
<1>1. SubSeq(q, 1, n) \in Seq(S) /\ Len(SubSeq(q, 1, n)) = n
  <2>1. \A i \in 1 .. n : q[i] \in S
    OBVIOUS
  <2> QED
    BY <2>1, SubSeqProperties
<1>2. /\ SubSeq(q, n + 1, Len(q)) \in Seq(S)
      /\ Len(SubSeq(q, n + 1, Len(q))) = Len(q) - n
  <2>1. \A i \in n + 1 .. Len(q) : q[i] \in S
    OBVIOUS
  <2>2. n + 1 \in Int /\ Len(q) \in Int
    OBVIOUS
  <2> QED
    BY <2>1, <2>2, SubSeqProperties
<1>3. SubSeq(q, 1, n) \o SubSeq(q, n + 1, Len(q)) = SubSeq(q, 1, Len(q))
  <2>1. 1 \in 1 .. Len(q) + 1 /\ n \in 1 - 1 .. Len(q) /\ Len(q) \in n .. Len(q)
    OBVIOUS
  <2> QED
    BY <2>1, ConcatAdjacentSubSeq
<1>4. SubSeq(q, 1, Len(q)) = q
  BY SubSeqFull
<1>5. Range(SubSeq(q, 1, n) \o SubSeq(q, n + 1, Len(q)))
         = Range(SubSeq(q, 1, n)) \cup Range(SubSeq(q, n + 1, Len(q)))
  BY <1>1, <1>2, RangeConcatenation
<1>6. q = SubSeq(q, 1, n) \o SubSeq(q, n + 1, Len(q))
  BY <1>3, <1>4, Zenon
<1>7. Range(q) = Range(SubSeq(q, 1, n)) \cup Range(SubSeq(q, n + 1, Len(q)))
  BY <1>5, <1>6, Zenon
<1> QED
  BY <1>1, <1>2, <1>6, <1>7, Zenon

\* What a sequence holds is of its element type.
LEMMA RangeType ==
    ASSUME NEW S, NEW q \in Seq(S)
    PROVE  Range(q) \subseteq S
BY RangeOfSeq

\* The empty sequence holds nothing.
LEMMA RangeEmpty == Range(<<>>) = {}
BY DEF Range

-----------------------------------------------------------------------------
\* Sequences without repetition.

NoRepeats(q) == \A i, j \in 1 .. Len(q) : q[i] = q[j] => i = j

\* They stay so when a new element is appended ...
LEMMA DistinctAppend ==
    ASSUME NEW S, NEW q \in Seq(S), NEW x \in S, NoRepeats(q), x \notin Range(q)
    PROVE  NoRepeats(Append(q, x))
<1>1. /\ Len(Append(q, x)) = Len(q) + 1 /\ Append(q, x)[Len(q) + 1] = x
      /\ \A i \in 1 .. Len(q) : Append(q, x)[i] = q[i]
  OBVIOUS
<1>2. \A i \in 1 .. Len(q) : q[i] # x
  BY RangeEquality
<1>3. \A i \in 1 .. Len(q) + 1 : i \in 1 .. Len(q) \/ i = Len(q) + 1
  OBVIOUS
<1> QED
  BY <1>1, <1>2, <1>3 DEF NoRepeats

\* ... when the first one is taken ...
LEMMA DistinctTail ==
    ASSUME NEW S, NEW q \in Seq(S), NoRepeats(q), q # <<>>
    PROVE  NoRepeats(Tail(q)) /\ Head(q) \notin Range(Tail(q))
<1>1. /\ Tail(q) \in Seq(S) /\ Len(Tail(q)) = Len(q) - 1 /\ Len(q) \in Nat \ {0}
      /\ \A i \in 1 .. Len(q) - 1 : Tail(q)[i] = q[i + 1]
  BY HeadTailProperties
<1>2. NoRepeats(Tail(q))
  BY <1>1 DEF NoRepeats
<1>3. Range(Tail(q)) = {Tail(q)[i] : i \in 1 .. Len(q) - 1}
  BY <1>1, RangeEquality
<1>4. Head(q) = q[1]
  OBVIOUS
<1>5. \A i \in 1 .. Len(q) - 1 : q[i + 1] # q[1]
  BY <1>1 DEF NoRepeats
<1> QED
  BY <1>1, <1>2, <1>3, <1>4, <1>5

\* A sequence without its k-th element.
Cut(q, k) == SubSeq(q, 1, k - 1) \o SubSeq(q, k + 1, Len(q))

\* What comes before it keeps its place, what comes after it moves by one.
LEMMA RemoveIndex ==
    ASSUME NEW S, NEW q \in Seq(S), NEW k \in 1 .. Len(q), NEW r, r = Cut(q, k)
    PROVE  /\ r \in Seq(S) /\ Len(r) = Len(q) - 1
           /\ \A i \in 1 .. Len(q) - 1 : i < k => r[i] = q[i]
           /\ \A i \in 1 .. Len(q) - 1 : i >= k => r[i] = q[i + 1]
<1>1. Len(q) \in Nat /\ k \in Nat /\ 1 <= k /\ k <= Len(q)
  OBVIOUS
<1>2. PICK u \in Seq(S) : /\ u = SubSeq(q, 1, k - 1) /\ Len(u) = k - 1
                          /\ \A i \in 1 .. k - 1 : u[i] = q[i]
  <2>1. \A i \in 1 .. k - 1 : q[i] \in S
    OBVIOUS
  <2>2. k - 1 \in Int
    OBVIOUS
  <2>3. /\ SubSeq(q, 1, k - 1) \in Seq(S) /\ Len(SubSeq(q, 1, k - 1)) = k - 1
        /\ \A i \in 1 .. k - 1 : SubSeq(q, 1, k - 1)[i] = q[i]
    BY <2>1, <2>2, SubSeqProperties
  <2> QED
    BY <2>3, Zenon
<1>3. PICK v \in Seq(S) : /\ v = SubSeq(q, k + 1, Len(q)) /\ Len(v) = Len(q) - k
                          /\ \A i \in 1 .. Len(q) - k : v[i] = q[i + k]
  <2>1. \A i \in k + 1 .. Len(q) : q[i] \in S
    OBVIOUS
  <2>2. k + 1 \in Int /\ Len(q) \in Int
    OBVIOUS
  <2>3. /\ SubSeq(q, k + 1, Len(q)) \in Seq(S)
        /\ Len(SubSeq(q, k + 1, Len(q))) = Len(q) - k
        /\ \A i \in 1 .. Len(q) - k : SubSeq(q, k + 1, Len(q))[i] = q[i + k]
    BY <2>1, <2>2, SubSeqProperties
  <2> QED
    BY <2>3, Zenon
<1>4. r = u \o v
  BY <1>2, <1>3 DEF Cut
<1>5. /\ r \in Seq(S) /\ Len(r) = Len(q) - 1
      /\ \A i \in 1 .. Len(q) - 1 : i < k => r[i] = q[i]
      /\ \A i \in 1 .. Len(q) - 1 : i >= k => r[i] = q[i + 1]
  <2>1. /\ Len(u) = k - 1 /\ \A i \in 1 .. k - 1 : u[i] = q[i]
        /\ Len(v) = Len(q) - k /\ \A i \in 1 .. Len(q) - k : v[i] = q[i + k]
    BY <1>2, <1>3, Zenon
  <2>2. /\ r \in Seq(S) /\ Len(r) = Len(u) + Len(v)
        /\ \A i \in 1 .. Len(u) + Len(v) :
              r[i] = IF i <= Len(u) THEN u[i] ELSE v[i - Len(u)]
    BY <1>4, ConcatProperties
  <2>3. Len(u) + Len(v) = Len(q) - 1
    BY <1>1, <2>1
  <2>4. ASSUME NEW i \in 1 .. Len(q) - 1, i < k PROVE r[i] = q[i]
    <3>1. i <= Len(u) /\ i \in 1 .. k - 1
      BY <1>1, <2>1, <2>4
    <3> QED
      BY <2>1, <2>2, <2>3, <3>1
  <2>5. ASSUME NEW i \in 1 .. Len(q) - 1, i >= k PROVE r[i] = q[i + 1]
    <3>1. ~ (i <= Len(u)) /\ i - Len(u) \in 1 .. Len(q) - k /\ (i - Len(u)) + k = i + 1
      BY <1>1, <2>1, <2>5
    <3>2. r[i] = v[i - Len(u)]
      BY <2>2, <2>3, <3>1
    <3>3. v[i - Len(u)] = q[(i - Len(u)) + k]
      BY <2>1, <3>1
    <3> QED
      BY <3>1, <3>2, <3>3
  <2> QED
    BY <2>2, <2>3, <2>4, <2>5
<1> QED
  BY <1>5

\* ... and when one is removed.
LEMMA DistinctRemove ==
    ASSUME NEW S, NEW q \in Seq(S), NEW k \in 1 .. Len(q), NoRepeats(q)
    PROVE  \A r : r = SubSeq(q, 1, k - 1) \o SubSeq(q, k + 1, Len(q))
                  => r \in Seq(S) /\ NoRepeats(r) /\ Range(r) = Range(q) \ {q[k]}
<1>1. Len(q) \in Nat /\ k \in Nat /\ 1 <= k /\ k <= Len(q)
  OBVIOUS
<1>0. SUFFICES ASSUME NEW r, r = SubSeq(q, 1, k - 1) \o SubSeq(q, k + 1, Len(q))
               PROVE  r \in Seq(S) /\ NoRepeats(r) /\ Range(r) = Range(q) \ {q[k]}
  OBVIOUS
<1>2. r = Cut(q, k)
  BY <1>0 DEF Cut
<1>3. /\ r \in Seq(S) /\ Len(r) = Len(q) - 1
      /\ \A i \in 1 .. Len(q) - 1 : i < k => r[i] = q[i]
      /\ \A i \in 1 .. Len(q) - 1 : i >= k => r[i] = q[i + 1]
  BY <1>2, RemoveIndex
<1>4. \A i \in 1 .. Len(q) - 1 :
         \/ i < k /\ r[i] = q[i] /\ i \in 1 .. Len(q)
         \/ i >= k /\ r[i] = q[i + 1] /\ i + 1 \in 1 .. Len(q)
  BY <1>1, <1>3
<1>5. NoRepeats(r)
  <2> SUFFICES ASSUME NEW i \in 1 .. Len(q) - 1, NEW j \in 1 .. Len(q) - 1, r[i] = r[j]
               PROVE  i = j
    BY <1>3 DEF NoRepeats
  <2>1. CASE i < k /\ j < k
    BY <1>4, <2>1 DEF NoRepeats
  <2>2. CASE i >= k /\ j >= k
    <3>1. i + 1 = j + 1
      BY <1>1, <1>4, <2>2 DEF NoRepeats
    <3> QED
      BY <3>1
  <2>3. CASE i < k /\ j >= k
    <3>1. i = j + 1
      BY <1>1, <1>4, <2>3 DEF NoRepeats
    <3> QED
      BY <1>1, <2>3, <3>1
  <2>4. CASE i >= k /\ j < k
    <3>1. i + 1 = j
      BY <1>1, <1>4, <2>4 DEF NoRepeats
    <3> QED
      BY <1>1, <2>4, <3>1
  <2> QED
    BY <1>1, <2>1, <2>2, <2>3, <2>4
<1>6. Range(r) = {r[i] : i \in 1 .. Len(q) - 1} /\ Range(q) = {q[i] : i \in 1 .. Len(q)}
  BY <1>3, RangeEquality
<1>7. \A i \in 1 .. Len(q) - 1 : r[i] \in Range(q) \ {q[k]}
  <2> SUFFICES ASSUME NEW i \in 1 .. Len(q) - 1 PROVE r[i] \in Range(q) \ {q[k]}
    OBVIOUS
  <2>1. PICK j \in 1 .. Len(q) : r[i] = q[j] /\ j # k
    BY <1>1, <1>4
  <2> QED
    BY <1>6, <2>1 DEF NoRepeats
<1>8. ASSUME NEW i \in 1 .. Len(q), i # k PROVE q[i] \in Range(r)
  <2>1. CASE i < k
    <3>1. i \in 1 .. Len(q) - 1 /\ r[i] = q[i]
      BY <1>1, <1>3, <2>1
    <3> QED
      BY <1>6, <3>1
  <2>2. CASE i > k
    <3>1. i - 1 \in 1 .. Len(q) - 1 /\ i - 1 >= k /\ (i - 1) + 1 = i
      BY <1>1, <2>2
    <3>2. r[i - 1] = q[i]
      BY <1>3, <3>1
    <3> QED
      BY <1>6, <3>1, <3>2
  <2> QED
    BY <1>1, <1>8, <2>1, <2>2
<1>9. Range(r) = Range(q) \ {q[k]}
  BY <1>6, <1>7, <1>8
<1> QED
  BY <1>3, <1>5, <1>9

\* Draining a prefix of such a sequence leaves two of them, without a common
\* element.
LEMMA DistinctSplit ==
    ASSUME NEW S, NEW q \in Seq(S), NEW n \in 0 .. Len(q), NoRepeats(q)
    PROVE  /\ NoRepeats(SubSeq(q, 1, n)) /\ NoRepeats(SubSeq(q, n + 1, Len(q)))
           /\ Range(SubSeq(q, 1, n)) \cap Range(SubSeq(q, n + 1, Len(q))) = {}
<1>1. PICK u \in Seq(S) : /\ u = SubSeq(q, 1, n) /\ Len(u) = n
                          /\ \A i \in 1 .. n : u[i] = q[i]
  <2>1. SubSeq(q, 1, n) \in Seq(S) /\ Len(SubSeq(q, 1, n)) = n
    BY RangeSplit
  <2>2. (\A i \in 1 .. n : q[i] \in S) /\ n \in Int
    OBVIOUS
  <2>3. \A i \in 1 .. n : SubSeq(q, 1, n)[i] = q[i]
    BY <2>2, SubSeqProperties
  <2> QED
    BY <2>1, <2>3, Zenon
<1>2. PICK v \in Seq(S) : /\ v = SubSeq(q, n + 1, Len(q)) /\ Len(v) = Len(q) - n
                          /\ \A i \in 1 .. Len(q) - n : v[i] = q[i + n]
  <2>1. /\ SubSeq(q, n + 1, Len(q)) \in Seq(S)
        /\ Len(SubSeq(q, n + 1, Len(q))) = Len(q) - n
    BY RangeSplit
  <2>2. /\ \A i \in n + 1 .. Len(q) : q[i] \in S
        /\ n + 1 \in Int /\ Len(q) \in Int
    OBVIOUS
  <2>3. \A i \in 1 .. Len(q) - n : SubSeq(q, n + 1, Len(q))[i] = q[i + n]
    BY <2>2, SubSeqProperties
  <2> QED
    BY <2>1, <2>3, Zenon
<1>3. /\ Len(u) = n /\ \A i \in 1 .. n : u[i] = q[i]
      /\ Len(v) = Len(q) - n /\ \A i \in 1 .. Len(q) - n : v[i] = q[i + n]
  BY <1>1, <1>2, Zenon
<1>4. Len(q) \in Nat /\ n \in Nat /\ n <= Len(q)
  OBVIOUS
<1>5. NoRepeats(u)
  BY <1>3, <1>4 DEF NoRepeats
<1>6. NoRepeats(v)
  <2> SUFFICES ASSUME NEW i \in 1 .. Len(q) - n, NEW j \in 1 .. Len(q) - n, v[i] = v[j]
               PROVE  i = j
    BY <1>3 DEF NoRepeats
  <2>1. i + n \in 1 .. Len(q) /\ j + n \in 1 .. Len(q)
    BY <1>4
  <2>2. q[i + n] = q[j + n]
    BY <1>3
  <2>3. i + n = j + n
    BY <2>1, <2>2 DEF NoRepeats
  <2> QED
    BY <1>4, <2>3
<1>7. Range(u) = {u[i] : i \in 1 .. n} /\ Range(v) = {v[i] : i \in 1 .. Len(q) - n}
  <2>1. /\ Range(u) = {u[i] : i \in 1 .. Len(u)}
        /\ Range(v) = {v[i] : i \in 1 .. Len(v)}
    BY RangeEquality
  <2> QED
    BY <1>3, <2>1, Zenon
<1>8. ASSUME NEW i \in 1 .. n, NEW j \in 1 .. Len(q) - n PROVE u[i] # v[j]
  <2>1. i \in 1 .. Len(q) /\ j + n \in 1 .. Len(q) /\ i # j + n
    BY <1>4
  <2>2. u[i] = q[i] /\ v[j] = q[j + n]
    BY <1>3
  <2> QED
    BY <2>1, <2>2 DEF NoRepeats
<1>9. Range(u) \cap Range(v) = {}
  BY <1>7, <1>8
<1> QED
  BY <1>1, <1>2, <1>5, <1>6, <1>9, Zenon

-----------------------------------------------------------------------------
\* Counting the places of an element.

AtMostOnce(q, x) == \A i, j \in 1 .. Len(q) : q[i] = x /\ q[j] = x => i = j

\* An element that a sequence holds at most once is counted once or not at all.
LEMMA CountOnce ==
    ASSUME NEW S, NEW q \in Seq(S), NEW x, AtMostOnce(q, x)
    PROVE  Cardinality({i \in 1 .. Len(q) : q[i] = x}) = IF x \in Range(q) THEN 1 ELSE 0
<1>1. Range(q) = {q[i] : i \in 1 .. Len(q)}
  BY RangeEquality
<1>2. CASE x \notin Range(q)
  <2>1. {i \in 1 .. Len(q) : q[i] = x} = {}
    BY <1>1, <1>2
  <2> QED
    BY <1>2, <2>1, FS_EmptySet
<1>3. CASE x \in Range(q)
  <2>1. PICK k \in 1 .. Len(q) : q[k] = x
    BY <1>1, <1>3
  <2>2. {i \in 1 .. Len(q) : q[i] = x} = {k}
    BY <2>1 DEF AtMostOnce
  <2> QED
    BY <1>3, <2>2, FS_Singleton
<1> QED
  BY <1>2, <1>3

\* A sequence without repetition holds everything at most once.
LEMMA DistinctOnce ==
    ASSUME NEW q, NEW x, NoRepeats(q)
    PROVE  AtMostOnce(q, x)
BY DEF NoRepeats, AtMostOnce

\* So does the concatenation of two sequences of which one at most holds it.
LEMMA OnceConcat ==
    ASSUME NEW S, NEW p \in Seq(S), NEW q \in Seq(S), NEW x,
           AtMostOnce(p, x), AtMostOnce(q, x), x \notin Range(p) \cap Range(q)
    PROVE  AtMostOnce(p \o q, x)
<1>1. PICK r : r = p \o q
  OBVIOUS
<1>2. /\ Len(r) = Len(p) + Len(q) /\ Len(p) \in Nat /\ Len(q) \in Nat
      /\ \A i \in 1 .. Len(p) + Len(q) :
            r[i] = IF i <= Len(p) THEN p[i] ELSE q[i - Len(p)]
  BY <1>1, ConcatProperties
<1>3. Range(p) = {p[i] : i \in 1 .. Len(p)} /\ Range(q) = {q[i] : i \in 1 .. Len(q)}
  BY RangeEquality
<1>4. \A i \in 1 .. Len(p) + Len(q) :
         \/ i \in 1 .. Len(p) /\ r[i] = p[i]
         \/ i > Len(p) /\ i - Len(p) \in 1 .. Len(q) /\ r[i] = q[i - Len(p)]
  BY <1>2
<1>5. ASSUME NEW i \in 1 .. Len(p) + Len(q), NEW j \in 1 .. Len(p) + Len(q),
             r[i] = x, r[j] = x
      PROVE  i = j
  <2>1. CASE i \in 1 .. Len(p) /\ j \in 1 .. Len(p)
    BY <1>2, <1>4, <1>5, <2>1 DEF AtMostOnce
  <2>2. CASE i > Len(p) /\ j > Len(p)
    <3>1. i - Len(p) = j - Len(p)
      BY <1>2, <1>4, <1>5, <2>2 DEF AtMostOnce
    <3> QED
      BY <1>2, <3>1
  <2>3. CASE x \in Range(p) /\ x \in Range(q)
    BY <2>3
  <2> QED
    BY <1>2, <1>3, <1>4, <1>5, <2>1, <2>2, <2>3
<1>6. AtMostOnce(r, x)
  BY <1>2, <1>5 DEF AtMostOnce
<1> QED
  BY <1>1, <1>6, Zenon

\* Two sequences without repetition and without a common element make a third.
LEMMA DistinctConcat ==
    ASSUME NEW S, NEW p \in Seq(S), NEW q \in Seq(S), NoRepeats(p), NoRepeats(q),
           Range(p) \cap Range(q) = {}
    PROVE  /\ p \o q \in Seq(S) /\ NoRepeats(p \o q)
           /\ Range(p \o q) = Range(p) \cup Range(q)
<1>1. \A x : AtMostOnce(p \o q, x)
  BY DistinctOnce, OnceConcat
<1>2. NoRepeats(p \o q)
  BY <1>1, Zenon DEF NoRepeats, AtMostOnce
<1>3. p \o q \in Seq(S)
  BY ConcatProperties
<1>4. Range(p \o q) = Range(p) \cup Range(q)
  BY RangeConcatenation
<1> QED
  BY <1>2, <1>3, <1>4

\* A sequence without repetition has as many elements as places.
LEMMA DistinctCardinality ==
    ASSUME NEW S, NEW q \in Seq(S), NoRepeats(q)
    PROVE  Cardinality(Range(q)) = Len(q)
<1>1. PICK n \in Nat : n = Len(q)
  OBVIOUS
<1>2. Range(q) = {q[i] : i \in 1 .. n}
  BY <1>1, RangeEquality
<1>3. PICK f : f = [i \in 1 .. n |-> q[i]]
  OBVIOUS
<1>4. f \in Bijection(1 .. n, Range(q))
  <2>1. f \in [1 .. n -> Range(q)]
    BY <1>2, <1>3
  <2>2. \A i, j \in 1 .. n : f[i] = f[j] => i = j
    BY <1>1, <1>3 DEF NoRepeats
  <2>3. \A x \in Range(q) : \E i \in 1 .. n : f[i] = x
    BY <1>2, <1>3
  <2> QED
    BY <2>1, <2>2, <2>3 DEF Bijection, Injection, Surjection, IsInjective
<1>5. ExistsBijection(1 .. n, Range(q))
  BY <1>4 DEF ExistsBijection
<1> QED
  BY <1>1, <1>5, FS_CountingElements

-----------------------------------------------------------------------------
\* Sorted enumerations of finite sets of numbers.  Induction takes the form of a
\* smallest counterexample.

\* A collection of subsets of a finite set has a smallest member.
LEMMA SmallestSubset ==
    ASSUME NEW S, IsFiniteSet(S), NEW C, C \subseteq SUBSET S, C # {}
    PROVE  \E A \in C : \A B \in C : B \subseteq A => B = A
<1>1. IsWellFoundedOn(StrictSubsetOrdering(S), SUBSET S)
  BY FS_FiniteSubsetsOfFinite, FS_StrictSubsetOrderingWellFounded
<1>2. PICK A \in C : \A B \in C : ~ (<<B, A>> \in StrictSubsetOrdering(S))
  BY <1>1, WFMin
<1>3. \A B \in C : B \subseteq A => B = A
  BY <1>2 DEF StrictSubsetOrdering
<1> QED
  BY <1>3

\* A finite set of numbers has a largest one.
LEMMA LargestNumber ==
    ASSUME NEW S, IsFiniteSet(S)
    PROVE  S \subseteq Int /\ S # {} => \E m \in S : \A x \in S : x <= m
<1> DEFINE C == {A \in SUBSET S : /\ A \subseteq Int /\ A # {}
                                 /\ ~ \E m \in A : \A x \in A : x <= m}
<1>1. CASE C = {}
  BY <1>1
<1>2. CASE C # {}
  <2>1. PICK A \in C : \A B \in C : B \subseteq A => B = A
    <3>1. PICK K : K = C /\ K \subseteq SUBSET S
      OBVIOUS
    <3>2. K # {} /\ K \subseteq SUBSET S
      BY <1>2, <3>1
    <3>3. \E A \in K : \A B \in K : B \subseteq A => B = A
      BY <3>2, SmallestSubset
    <3> QED
      BY <3>1, <3>3
  <2>2. PICK x \in A : TRUE
    OBVIOUS
  <2>3. A \ {x} \notin C
    BY <2>1, <2>2
  <2>4. A \ {x} # {}
    BY <2>1, <2>2
  <2>5. PICK m \in A \ {x} : \A y \in A \ {x} : y <= m
    BY <2>3, <2>4
  <2>6. \E k \in A : \A y \in A : y <= k
    <3>1. m \in Int /\ x \in Int /\ \A y \in A : y \in Int
      BY <2>1, <2>2, <2>5
    <3>2. CASE x <= m
      BY <2>5, <3>2
    <3>3. CASE m <= x
      BY <2>2, <2>5, <3>1, <3>3
    <3> QED
      BY <3>1, <3>2, <3>3
  <2> QED
    BY <2>1, <2>6
<1> QED
  BY <1>1, <1>2

Increasing(f, n) == \A i, j \in 1 .. n : i < j => f[i] < f[j]

\* It can be listed in increasing order.
LEMMA SortedListing ==
    ASSUME NEW S, IsFiniteSet(S)
    PROVE  S \subseteq Int =>
              \E f \in [1 .. Cardinality(S) -> S] : Increasing(f, Cardinality(S))
<1> DEFINE C == {A \in SUBSET S : /\ A \subseteq Int
                                 /\ ~ \E f \in [1 .. Cardinality(A) -> A] :
                                       Increasing(f, Cardinality(A))}
<1>1. CASE C = {}
  BY <1>1
<1>2. CASE C # {}
  <2>1. PICK A \in C : \A B \in C : B \subseteq A => B = A
    <3>1. PICK K : K = C /\ K \subseteq SUBSET S
      OBVIOUS
    <3>2. K # {} /\ K \subseteq SUBSET S
      BY <1>2, <3>1
    <3>3. \E A \in K : \A B \in K : B \subseteq A => B = A
      BY <3>2, SmallestSubset
    <3> QED
      BY <3>1, <3>3
  <2>2. A \in SUBSET S /\ IsFiniteSet(A) /\ A \subseteq Int
    BY <2>1, FS_Subset
  <2>3. A # {}
    <3> SUFFICES ASSUME A = {} PROVE FALSE
      OBVIOUS
    <3>1. Cardinality(A) = 0
      BY FS_EmptySet
    <3>2. [i \in 1 .. 0 |-> 0] \in [1 .. 0 -> A] /\ Increasing([i \in 1 .. 0 |-> 0], 0)
      BY DEF Increasing
    <3> QED
      BY <2>1, <3>1, <3>2
  <2>4. PICK m \in A : \A x \in A : x <= m
    BY <2>2, <2>3, LargestNumber
  <2>5. PICK B : B = A \ {m}
    OBVIOUS
  <2>6. PICK n \in Nat : n = Cardinality(B) /\ n + 1 = Cardinality(A)
    <3>1. IsFiniteSet(A \ {m}) /\ Cardinality(A \ {m}) = Cardinality(A) - 1
      BY <2>2, FS_RemoveElement
    <3>2. Cardinality(A) \in Nat /\ Cardinality(A \ {m}) \in Nat
      BY <2>2, <3>1, FS_CardinalityType
    <3> QED
      BY <2>5, <3>1, <3>2
  <2>7. B \notin C /\ B \in SUBSET S /\ B \subseteq Int
    BY <2>1, <2>2, <2>5
  <2>8. PICK g \in [1 .. n -> B] : Increasing(g, n)
    <3>1. \E g \in [1 .. Cardinality(B) -> B] : Increasing(g, Cardinality(B))
      BY <2>7, Zenon
    <3> QED
      BY <2>6, <3>1, Zenon
  <2>9. PICK f : f = [i \in 1 .. n + 1 |-> IF i = n + 1 THEN m ELSE g[i]]
    OBVIOUS
  <2>10. /\ f[n + 1] = m
         /\ \A i \in 1 .. n : f[i] = g[i] /\ f[i] \in B
         /\ \A i \in 1 .. n + 1 : i = n + 1 \/ i \in 1 .. n
    BY <2>8, <2>9
  <2>11. f \in [1 .. n + 1 -> A]
    BY <2>5, <2>9, <2>10
  <2>12. \A b \in B : b < m
    BY <2>2, <2>4, <2>5
  <2>13. Increasing(f, n + 1)
    <3> SUFFICES ASSUME NEW i \in 1 .. n + 1, NEW j \in 1 .. n + 1, i < j
                 PROVE  f[i] < f[j]
      BY DEF Increasing
    <3>1. i \in 1 .. n
      OBVIOUS
    <3>2. CASE j = n + 1
      BY <2>10, <2>12, <3>1, <3>2
    <3>3. CASE j \in 1 .. n
      BY <2>8, <2>10, <3>1, <3>3 DEF Increasing
    <3> QED
      BY <2>10, <3>2, <3>3
  <2> QED
    BY <2>1, <2>6, <2>11, <2>13
<1> QED
  BY <1>1, <1>2

\* Such a listing is a sequence that holds every member, once.
LEMMA ListingFacts ==
    ASSUME NEW S \in SUBSET Int, IsFiniteSet(S),
           NEW f \in [1 .. Cardinality(S) -> S], Increasing(f, Cardinality(S))
    PROVE  /\ f \in Seq(S) /\ Len(f) = Cardinality(S)
           /\ NoRepeats(f) /\ Range(f) = S
<1>1. PICK n \in Nat : n = Cardinality(S)
  BY FS_CardinalityType
<1>2. f \in Seq(S) /\ Len(f) = n
  BY <1>1, SeqDef
<1>3. ASSUME NEW i \in 1 .. n, NEW j \in 1 .. n, f[i] = f[j] PROVE i = j
  <2>1. f[i] \in Int /\ f[j] \in Int
    BY <1>1
  <2>2. (i < j => f[i] < f[j]) /\ (j < i => f[j] < f[i])
    BY <1>1 DEF Increasing
  <2> QED
    BY <1>3, <2>1, <2>2
<1>4. NoRepeats(f)
  BY <1>2, <1>3 DEF NoRepeats
<1>5. f \in Injection(1 .. n, S)
  BY <1>1, <1>3 DEF Injection, IsInjective
<1>6. IsFiniteSet(1 .. n) /\ Cardinality(1 .. n) = n
  BY FS_Interval
<1>7. f \in Surjection(1 .. n, S)
  BY <1>1, <1>5, <1>6, FS_Injection
<1>8. Range(f) = {f[i] : i \in 1 .. n}
  BY <1>2, RangeEquality
<1>9. Range(f) = S
  <2>1. \A x \in S : \E i \in 1 .. n : f[i] = x
    BY <1>7 DEF Surjection
  <2>2. \A i \in 1 .. n : f[i] \in S
    BY <1>1
  <2> QED
    BY <1>8, <2>1, <2>2
<1> QED
  BY <1>1, <1>2, <1>4, <1>9

Below(A, B) == \A x \in A : \A y \in B : x < y

\* A queue of ascending numbers stays one when a larger one is added ...
LEMMA IncreasingAppend ==
    ASSUME NEW S, NEW q \in Seq(S), NEW x \in S, Increasing(q, Len(q)), Below(Range(q), {x})
    PROVE  Increasing(Append(q, x), Len(Append(q, x)))
<1>1. PICK r \in Seq(S) : r = Append(q, x)
  BY RangeAppend, Zenon
<1>2. /\ Len(q) \in Nat /\ Len(r) = Len(q) + 1 /\ r[Len(q) + 1] = x
      /\ \A i \in 1 .. Len(q) : r[i] = q[i]
  BY <1>1
<1>3. \A i \in 1 .. Len(q) : q[i] < x
  BY DEF Below, Range
<1>4. \A i, j \in 1 .. Len(q) + 1 :
         i < j => i \in 1 .. Len(q) /\ (j \in 1 .. Len(q) \/ j = Len(q) + 1)
  <2>1. PICK n \in Nat : n = Len(q)
    BY <1>2
  <2>2. \A i, j \in 1 .. n + 1 : i < j => i \in 1 .. n /\ (j \in 1 .. n \/ j = n + 1)
    OBVIOUS
  <2> QED
    BY <2>1, <2>2
<1>5. ASSUME NEW i \in 1 .. Len(q) + 1, NEW j \in 1 .. Len(q) + 1, i < j PROVE r[i] < r[j]
  BY <1>2, <1>3, <1>4, <1>5 DEF Increasing
<1> QED
  BY <1>1, <1>2, <1>5 DEF Increasing

\* ... and when the first one is taken, which is smaller than what is left.
LEMMA IncreasingTail ==
    ASSUME NEW S, NEW q \in Seq(S), q # <<>>, Increasing(q, Len(q))
    PROVE  Increasing(Tail(q), Len(Tail(q))) /\ Below({Head(q)}, Range(Tail(q)))
<1>1. PICK r \in Seq(S) : r = Tail(q)
  BY RangeHeadTail, Zenon
<1>2. /\ Len(q) \in Nat \ {0} /\ Len(r) = Len(q) - 1 /\ Head(q) = q[1]
      /\ \A i \in 1 .. Len(q) - 1 : r[i] = q[i + 1]
  BY <1>1
<1>3. Increasing(r, Len(r))
  BY <1>2 DEF Increasing
<1>4. \A i \in 1 .. Len(q) - 1 : q[1] < q[i + 1]
  BY <1>2 DEF Increasing
<1>5. Range(r) = {r[i] : i \in 1 .. Len(r)}
  BY RangeEquality
<1>6. Below({Head(q)}, Range(r))
  BY <1>2, <1>4, <1>5 DEF Below
<1> QED
  BY <1>1, <1>3, <1>6

=============================================================================
