--------------------------- MODULE SublistProofs ---------------------------
(* Machine-checked facts about the lists of the queue file, the sessions a   *)
(* query returns and the hooks of a file, that several proofs need.          *)
EXTENDS Sublist, SequencesExt, FiniteSetTheorems, TLAPS

\* A list without some of its members is a list of the others, in their order.
LEMMA WithoutIs ==
  ASSUME NEW S, NEW list \in Seq(S), NEW done
  PROVE  /\ Without(list, done) \in Seq(S)
         /\ ToSet(Without(list, done)) = ToSet(list) \ done
         /\ \A j, k \in DOMAIN Without(list, done) :
              j < k => \E a, b \in DOMAIN list : /\ a < b
                                               /\ Without(list, done)[j] = list[a]
                                               /\ Without(list, done)[k] = list[b]
<1> DEFINE kept == {i \in DOMAIN list : list[i] \notin done}
           UpTo(i) == {j \in kept : j <= i}
           Place(i) == Cardinality(UpTo(i))
           n == Cardinality(kept)
           Pick(k) == CHOOSE i \in kept : Place(i) = k
<1>1. DOMAIN list = 1 .. Len(list) /\ Len(list) \in Nat /\ \A i \in DOMAIN list : list[i] \in S
  OBVIOUS
<1>2. kept \subseteq 1 .. Len(list) /\ IsFiniteSet(kept) /\ n \in Nat
  <2>1. IsFiniteSet(1 .. Len(list))
    BY <1>1, FS_Interval
  <2>2. kept \subseteq 1 .. Len(list)
    BY <1>1
  <2>3. QED
    BY <2>1, <2>2, FS_Subset, FS_CardinalityType
<1>3. ASSUME NEW i \in kept PROVE IsFiniteSet(UpTo(i)) /\ Place(i) \in 1 .. n
  <2>1. UpTo(i) \subseteq kept /\ i \in UpTo(i)
    BY <1>2
  <2>2. IsFiniteSet(UpTo(i)) /\ Place(i) <= n /\ Place(i) \in Nat
    BY <1>2, <2>1, FS_Subset, FS_CardinalityType
  <2>3. Place(i) # 0
    BY <2>1, <2>2, FS_EmptySet
  <2>4. QED
    BY <1>2, <2>2, <2>3
<1>4. ASSUME NEW i \in kept, NEW j \in kept, i < j PROVE Place(i) # Place(j)
  <2>1. UpTo(i) \subseteq UpTo(j) /\ j \in UpTo(j) /\ j \notin UpTo(i)
    BY <1>2, <1>4
  <2>2. QED
    BY <1>3, <2>1, FS_Subset
<1> HIDE DEF UpTo, Place, kept, n
<1>5. ASSUME NEW k \in 1 .. n PROVE \E i \in kept : Place(i) = k
  <2> DEFINE f == [i \in kept |-> Place(i)]
  <2>1. f \in Injection(kept, 1 .. n)
    <3>1. f \in [kept -> 1 .. n]
      BY <1>3
    <3>2. \A i, j \in kept : f[i] = f[j] => i = j
      <4>1. \A i, j \in kept : i < j \/ j < i \/ i = j
        BY <1>2
      <4>2. QED
        BY <1>4, <4>1
    <3>3. QED
      BY <3>1, <3>2 DEF Injection, IsInjective
  <2>2. IsFiniteSet(1 .. n) /\ Cardinality(1 .. n) = n
    BY <1>2, FS_Interval
  <2>3. f \in Surjection(kept, 1 .. n)
    BY <1>2, <2>1, <2>2, FS_Injection DEF n
  <2>4. QED
    BY <2>3 DEF Surjection
<1>6. \A k \in 1 .. n : Pick(k) \in kept /\ Place(Pick(k)) = k
  BY <1>5
<1>7. Without(list, done) = [k \in 1 .. n |-> list[Pick(k)]]
  BY DEF Without, kept, n, Place, UpTo
<1>8. \A i \in kept : i \in DOMAIN list /\ list[i] \in S /\ list[i] \notin done
  BY <1>1 DEF kept
<1> HIDE DEF Pick
<1>9. Without(list, done) \in Seq(S)
  <2>1. Without(list, done) \in [1 .. n -> S]
    BY <1>6, <1>7, <1>8
  <2>2. QED
    BY <1>2, <2>1
<1>10. ASSUME NEW x \in ToSet(list) \ done PROVE x \in ToSet(Without(list, done))
  <2>1. PICK i \in kept : list[i] = x
    BY DEF ToSet, kept
  <2>2. Place(i) \in 1 .. n /\ Pick(Place(i)) = i
    <3>1. Place(i) \in 1 .. n
      BY <1>3
    <3>2. Place(Pick(Place(i))) = Place(i) /\ Pick(Place(i)) \in kept
      BY <1>6, <3>1
    <3>3. i < Pick(Place(i)) \/ Pick(Place(i)) < i \/ i = Pick(Place(i))
      <4>1. \A j \in kept : j \in Nat
        BY <1>1, <1>2
      <4>2. QED
        BY <3>2, <4>1
    <3>4. QED
      BY <1>4, <3>1, <3>2, <3>3
  <2>3. QED
    BY <1>7, <2>1, <2>2 DEF ToSet
<1>11. ToSet(Without(list, done)) \subseteq ToSet(list) \ done
  BY <1>6, <1>7, <1>8 DEF ToSet
<1>12. ASSUME NEW j \in DOMAIN Without(list, done), NEW k \in DOMAIN Without(list, done), j < k
       PROVE  Pick(j) < Pick(k)
  <2>1. j \in 1 .. n /\ k \in 1 .. n
    BY <1>7
  <2> PICK a : a = Pick(j)
    OBVIOUS
  <2> PICK b : b = Pick(k)
    OBVIOUS
  <2>2. a \in kept /\ b \in kept /\ Place(a) = j /\ Place(b) = k
    BY <1>6, <2>1
  <2>3. \A i \in kept : i \in Nat
    BY <1>1, <1>2
  <2>4. CASE b < a
    <3>1. UpTo(b) \subseteq UpTo(a)
      BY <2>2, <2>3, <2>4 DEF UpTo
    <3>2. IsFiniteSet(UpTo(a))
      BY <1>3, <2>2
    <3>3. Place(b) <= Place(a)
      BY <3>1, <3>2, FS_Subset DEF Place
    <3>4. QED
      BY <1>2, <1>12, <2>1, <2>2, <3>3
  <2>5. CASE a = b
    BY <1>2, <1>12, <2>1, <2>2, <2>5
  <2>6. QED
    BY <2>2, <2>3, <2>4, <2>5
<1>13. ASSUME NEW j \in DOMAIN Without(list, done), NEW k \in DOMAIN Without(list, done), j < k
       PROVE  \E a, b \in DOMAIN list : /\ a < b
                                       /\ Without(list, done)[j] = list[a]
                                       /\ Without(list, done)[k] = list[b]
  <2>1. j \in 1 .. n /\ k \in 1 .. n
    BY <1>7
  <2>2. Pick(j) \in DOMAIN list /\ Pick(k) \in DOMAIN list
    BY <1>6, <1>8, <2>1
  <2>3. Without(list, done)[j] = list[Pick(j)] /\ Without(list, done)[k] = list[Pick(k)]
    BY <1>7, <2>1
  <2>4. QED
    BY <1>12, <1>13, <2>2, <2>3
<1>14. QED
  BY <1>9, <1>10, <1>11, <1>13

LEMMA WithoutMembers ==
  ASSUME NEW S, NEW list \in Seq(S), NEW done
  PROVE  /\ Without(list, done) \in Seq(S)
         /\ ToSet(Without(list, done)) = ToSet(list) \ done
BY WithoutIs

LEMMA WithoutOrder ==
  ASSUME NEW S, NEW list \in Seq(S), NEW done, NEW rest, rest = Without(list, done),
         NEW j \in DOMAIN rest, NEW k \in DOMAIN rest, j < k
  PROVE  \E a, b \in DOMAIN list : a < b /\ rest[j] = list[a] /\ rest[k] = list[b]
BY WithoutIs

LEMMA HeadOrTail ==
  ASSUME NEW S, NEW list \in Seq(S), list # <<>>
  PROVE  /\ Head(list) \in S /\ Tail(list) \in Seq(S)
         /\ \A x \in ToSet(list) : x = Head(list) \/ x \in ToSet(Tail(list))
<1>1. Head(list) \in S /\ Tail(list) \in Seq(S)
  OBVIOUS
<1>2. ASSUME NEW i \in DOMAIN list PROVE list[i] = Head(list) \/ list[i] \in ToSet(Tail(list))
  <2>1. CASE i = 1
    BY <2>1
  <2>2. CASE i # 1
    <3>1. i - 1 \in 1 .. Len(Tail(list)) /\ Tail(list)[i - 1] = list[i]
      BY <2>2
    <3>2. DOMAIN Tail(list) = 1 .. Len(Tail(list))
      BY <1>1
    <3> QED BY <3>1, <3>2 DEF ToSet
  <2> QED BY <2>1, <2>2
<1> QED BY <1>1, <1>2 DEF ToSet

LEMMA AppendedMember ==
  ASSUME NEW S, NEW list \in Seq(S), NEW s \in S
  PROVE  /\ Append(list, s) \in Seq(S) /\ s \in ToSet(Append(list, s))
         /\ ToSet(list) \subseteq ToSet(Append(list, s))
<1>1. /\ Append(list, s) \in Seq(S) /\ Len(list) \in Nat /\ DOMAIN list = 1 .. Len(list)
      /\ DOMAIN Append(list, s) = 1 .. Len(list) + 1
      /\ \A i \in 1 .. Len(list) : Append(list, s)[i] = list[i]
      /\ Append(list, s)[Len(list) + 1] = s
  OBVIOUS
<1>2. 1 .. Len(list) \subseteq 1 .. Len(list) + 1 /\ Len(list) + 1 \in 1 .. Len(list) + 1
  BY <1>1
<1> QED BY <1>1, <1>2 DEF ToSet
=============================================================================
