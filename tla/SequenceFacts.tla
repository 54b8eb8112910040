---------------------------- MODULE SequenceFacts ----------------------------
(***************************************************************************)
(* What the proofs about queues need: where the members of a set stand in   *)
(* a sequence, how many they are, and what appending and taking change; and *)
(* what the folds of the community modules keep.                            *)
(***************************************************************************)
EXTENDS Sequences, Naturals, SequencesExt, FiniteSetTheorems, FunctionTheorems, WellFoundedInduction, TLAPS

(* The places of s that hold a member of T. *)
Places(s, T) == {i \in 1..Len(s) : s[i] \in T}
Count(s, T) == Cardinality(Places(s, T))

In(s, x) == \E i \in 1..Len(s) : s[i] = x
OnceAtMost(s, x) == \A i, j \in 1..Len(s) : s[i] = x /\ s[j] = x => i = j

(* The least of a set of natural numbers. *)
LEMMA LeastNatural ==
    ASSUME NEW T, T \subseteq Nat, T # {}
    PROVE  Min(T) \in T /\ \A y \in T : Min(T) =< y
<1> DEFINE R == OpToRel(<, Nat)
<1>1. IsWellFoundedOn(R, Nat)
    BY NatLessThanWellFounded
<1>2. \A x, y \in Nat : <<y, x>> \in R <=> y < x
    BY DEF OpToRel
<1> HIDE DEF R
<1>3. PICK x \in T : \A y \in T : ~ (<<y, x>> \in R)
    BY <1>1, WFMin
<1>4. \A y \in T : x =< y
    <2> TAKE y \in T
    <2>1. x \in Nat /\ y \in Nat /\ ~(y < x)
        BY <1>2, <1>3
    <2> QED BY ONLY <2>1
<1> QED BY <1>4 DEF Min

(* Appending an element. *)
LEMMA AppendFacts ==
    ASSUME NEW S, NEW s \in Seq(S), NEW x \in S
    PROVE  /\ Append(s, x) \in Seq(S) /\ Append(s, x) # <<>>
           /\ Len(s) \in Nat /\ Len(Append(s, x)) = Len(s) + 1
           /\ \A i \in 1..Len(s) : Append(s, x)[i] = s[i] /\ s[i] \in S
           /\ Append(s, x)[Len(s) + 1] = x
OBVIOUS

(* Taking the first element. *)
LEMMA TailFacts ==
    ASSUME NEW S, NEW s \in Seq(S), s # <<>>
    PROVE  /\ Tail(s) \in Seq(S) /\ Head(s) \in S /\ Head(s) = s[1]
           /\ Len(s) \in Nat \ {0} /\ Len(Tail(s)) = Len(s) - 1
           /\ \A i \in 1..(Len(s) - 1) : Tail(s)[i] = s[i + 1]
OBVIOUS

(* A sequence without its last element. *)
LEMMA ButLastFacts ==
    ASSUME NEW S, NEW s \in Seq(S), s # <<>>
    PROVE  /\ SubSeq(s, 1, Len(s) - 1) \in Seq(S)
           /\ Len(SubSeq(s, 1, Len(s) - 1)) = Len(s) - 1
<1> DEFINE n == Len(s) - 1
<1>1. n \in Nat /\ n <= Len(s)
    OBVIOUS
<1>2. SubSeq(s, 1, n) \in Seq(S) /\ Len(SubSeq(s, 1, n)) = n
    <2> HIDE DEF n
    <2> QED BY <1>1
<1> QED BY <1>2

(* Appending a sequence. *)
LEMMA ConcatFacts ==
    ASSUME NEW S, NEW s \in Seq(S), NEW t \in Seq(S)
    PROVE  /\ s \o t \in Seq(S) /\ Len(s) \in Nat /\ Len(t) \in Nat
           /\ Len(s \o t) = Len(s) + Len(t)
           /\ \A i \in 1..Len(s) : (s \o t)[i] = s[i]
           /\ \A i \in 1..Len(t) : (s \o t)[Len(s) + i] = t[i]
           /\ \A i \in 1..(Len(s) + Len(t)) :
                i \in 1..Len(s) \/ (i - Len(s) \in 1..Len(t) /\ (s \o t)[i] = t[i - Len(s)])
OBVIOUS

(* Inserting an element and taking one out, anywhere. *)
LEMMA InsertAtFacts ==
    ASSUME NEW S, NEW s \in Seq(S), NEW x \in S, NEW k \in 1..(Len(s) + 1)
    PROVE  /\ InsertAt(s, k, x) \in Seq(S) /\ Len(InsertAt(s, k, x)) = Len(s) + 1
           /\ InsertAt(s, k, x)[k] = x
           /\ \A i \in 1..(k - 1) : InsertAt(s, k, x)[i] = s[i]
           /\ \A i \in k..Len(s) : InsertAt(s, k, x)[i + 1] = s[i]
<1> DEFINE before == SubSeq(s, 1, k - 1)
           after == SubSeq(s, k, Len(s))
<1>1. /\ before \in Seq(S) /\ Len(before) = k - 1
      /\ \A i \in 1..(k - 1) : before[i] = s[i]
    OBVIOUS
<1>2. /\ after \in Seq(S) /\ Len(after) = Len(s) - k + 1
      /\ \A i \in 1..(Len(s) - k + 1) : after[i] = s[k + i - 1]
    OBVIOUS
<1>3. InsertAt(s, k, x) = (before \o <<x>>) \o after
    BY DEF InsertAt
<1> DEFINE upto == Append(before, x)
<1>4. InsertAt(s, k, x) = upto \o after
    <2> HIDE DEF before, after
    <2> QED BY <1>1, <1>3
<1> HIDE DEF before, after
<1>5. /\ upto \in Seq(S) /\ Len(upto) = k /\ upto[k] = x
      /\ \A i \in 1..(k - 1) : upto[i] = s[i]
    BY <1>1
<1> HIDE DEF upto
<1> DEFINE t == upto \o after
<1>6. /\ t \in Seq(S) /\ Len(t) = Len(s) + 1
      /\ \A i \in 1..k : t[i] = upto[i]
      /\ \A i \in 1..(Len(s) - k + 1) : t[k + i] = after[i]
    <2>1. upto \in Seq(S) /\ after \in Seq(S)
        BY <1>2, <1>5
    <2>2. /\ t \in Seq(S) /\ Len(t) = Len(upto) + Len(after)
          /\ \A i \in 1..Len(upto) : t[i] = upto[i]
          /\ \A i \in 1..Len(after) : t[Len(upto) + i] = after[i]
        BY <2>1, ConcatFacts
    <2> HIDE DEF t
    <2> QED BY <1>2, <1>5, <2>2
<1> HIDE DEF t
<1>7. ASSUME NEW i \in k..Len(s) PROVE t[i + 1] = s[i]
    <2>1. i - k + 1 \in 1..(Len(s) - k + 1) /\ k + (i - k + 1) = i + 1 /\ k + (i - k + 1) - 1 = i
        OBVIOUS
    <2>2. t[k + (i - k + 1)] = after[i - k + 1]
        BY <1>6, <2>1
    <2>3. after[i - k + 1] = s[k + (i - k + 1) - 1]
        BY <1>2, <2>1
    <2> QED BY <2>1, <2>2, <2>3
<1>8. t[k] = x /\ \A i \in 1..(k - 1) : t[i] = s[i]
    BY <1>5, <1>6
<1> QED BY <1>4, <1>6, <1>7, <1>8 DEF t

LEMMA RemoveAtFacts ==
    ASSUME NEW S, NEW s \in Seq(S), NEW k \in 1..Len(s)
    PROVE  /\ RemoveAt(s, k) \in Seq(S) /\ Len(RemoveAt(s, k)) = Len(s) - 1
           /\ \A i \in 1..(k - 1) : RemoveAt(s, k)[i] = s[i]
           /\ \A i \in k..(Len(s) - 1) : RemoveAt(s, k)[i] = s[i + 1]
<1> DEFINE before == SubSeq(s, 1, k - 1)
           after == SubSeq(s, k + 1, Len(s))
<1>1. /\ before \in Seq(S) /\ Len(before) = k - 1
      /\ \A i \in 1..(k - 1) : before[i] = s[i]
    OBVIOUS
<1>2. /\ after \in Seq(S) /\ Len(after) = Len(s) - k
      /\ \A i \in 1..(Len(s) - k) : after[i] = s[k + i]
    OBVIOUS
<1>3. RemoveAt(s, k) = before \o after
    BY DEF RemoveAt
<1> HIDE DEF before, after
<1> DEFINE t == before \o after
<1>4. /\ t \in Seq(S) /\ Len(t) = Len(s) - 1
      /\ \A i \in 1..(k - 1) : t[i] = before[i]
      /\ \A i \in 1..(Len(s) - k) : t[(k - 1) + i] = after[i]
    <2>1. before \in Seq(S) /\ after \in Seq(S)
        BY <1>1, <1>2
    <2>2. /\ t \in Seq(S) /\ Len(t) = Len(before) + Len(after)
          /\ \A i \in 1..Len(before) : t[i] = before[i]
          /\ \A i \in 1..Len(after) : t[Len(before) + i] = after[i]
        BY <2>1, ConcatFacts
    <2> HIDE DEF t
    <2> QED BY <1>1, <1>2, <2>2
<1> HIDE DEF t
<1>5. ASSUME NEW i \in k..(Len(s) - 1) PROVE t[i] = s[i + 1]
    <2>1. PICK j \in 1..(Len(s) - k) : j = i - k + 1
        OBVIOUS
    <2>2. (k - 1) + j = i /\ k + j = i + 1
        BY <2>1
    <2>3. t[(k - 1) + j] = after[j] /\ after[j] = s[k + j]
        BY <1>2, <1>4
    <2> QED BY <2>2, <2>3
<1>6. \A i \in 1..(k - 1) : t[i] = s[i]
    BY <1>1, <1>4
<1> QED BY <1>3, <1>4, <1>5, <1>6 DEF t

(* An element that is appended is in the queue, next to what was there. *)
LEMMA AppendIn ==
    ASSUME NEW S, NEW s \in Seq(S), NEW x \in S
    PROVE  /\ \A y : In(Append(s, x), y) <=> In(s, y) \/ y = x
           /\ \A y : OnceAtMost(s, y) /\ (y = x => ~In(s, y)) => OnceAtMost(Append(s, x), y)
<1>1. \A y : In(Append(s, x), y) <=> In(s, y) \/ y = x
    BY AppendFacts DEF In
<1>2. ASSUME NEW y, OnceAtMost(s, y), y = x => ~In(s, y)
      PROVE  OnceAtMost(Append(s, x), y)
    BY <1>2, AppendFacts DEF In, OnceAtMost
<1> QED BY <1>1, <1>2

(* What remains when the first element is taken. *)
LEMMA TailIn ==
    ASSUME NEW S, NEW s \in Seq(S), s # <<>>
    PROVE  /\ \A y : In(s, y) <=> In(Tail(s), y) \/ y = Head(s)
           /\ \A y : OnceAtMost(s, y) => OnceAtMost(Tail(s), y) /\ (y = Head(s) => ~In(Tail(s), y))
<1>1. ASSUME NEW y, In(s, y), y # Head(s) PROVE In(Tail(s), y)
    <2>1. PICK i \in 1..Len(s) : s[i] = y
        BY <1>1 DEF In
    <2>2. i # 1 /\ i - 1 \in 1..(Len(s) - 1)
        BY <1>1, <2>1, TailFacts
    <2>3. Tail(s)[i - 1] = y
        BY <2>1, <2>2, TailFacts
    <2> QED BY <2>2, <2>3, TailFacts DEF In
<1>2. ASSUME NEW y, In(Tail(s), y) \/ y = Head(s) PROVE In(s, y)
    BY <1>2, TailFacts DEF In
<1>3. ASSUME NEW y, OnceAtMost(s, y)
      PROVE  OnceAtMost(Tail(s), y) /\ (y = Head(s) => ~In(Tail(s), y))
    BY <1>3, TailFacts DEF In, OnceAtMost
<1> QED BY <1>1, <1>2, <1>3

LEMMA EmptyIn ==
    /\ \A y : ~In(<<>>, y) /\ OnceAtMost(<<>>, y)
    /\ \A T : Places(<<>>, T) = {} /\ Count(<<>>, T) = 0
<1>1. Len(<<>>) = 0
    OBVIOUS
<1> QED BY <1>1, FS_EmptySet DEF In, OnceAtMost, Places, Count

LEMMA PlacesFinite ==
    ASSUME NEW S, NEW s \in Seq(S), NEW T
    PROVE  /\ IsFiniteSet(Places(s, T)) /\ Count(s, T) \in Nat
           /\ Count(s, T) = 0 <=> Places(s, T) = {}
<1>1. IsFiniteSet(1..Len(s))
    BY FS_Interval
<1>2. IsFiniteSet(Places(s, T))
    BY <1>1, FS_Subset DEF Places
<1> QED BY <1>2, FS_CardinalityType, FS_EmptySet DEF Count

LEMMA CountAppend ==
    ASSUME NEW S, NEW s \in Seq(S), NEW x \in S, NEW T
    PROVE  /\ x \in T => Count(Append(s, x), T) = Count(s, T) + 1
           /\ x \notin T => Places(Append(s, x), T) = Places(s, T) /\ Count(Append(s, x), T) = Count(s, T)
<1>1. CASE x \in T
    <2>1. Places(Append(s, x), T) = Places(s, T) \cup {Len(s) + 1}
        BY <1>1, AppendFacts DEF Places
    <2>2. Len(s) + 1 \notin Places(s, T)
        BY AppendFacts DEF Places
    <2> QED BY <1>1, <2>1, <2>2, PlacesFinite, FS_AddElement DEF Count
<1>2. CASE x \notin T
    <2>1. Places(Append(s, x), T) = Places(s, T)
        BY <1>2, AppendFacts DEF Places
    <2> QED BY <1>2, <2>1 DEF Count
<1> QED BY <1>1, <1>2

LEMMA CountTail ==
    ASSUME NEW S, NEW s \in Seq(S), s # <<>>, NEW T
    PROVE  /\ Head(s) \in T => Count(s, T) = Count(Tail(s), T) + 1
           /\ Head(s) \notin T => Count(s, T) = Count(Tail(s), T)
<1> DEFINE Later == Places(s, T) \ {1}
           f == [i \in Later |-> i - 1]
<1>1. IsFiniteSet(Later)
    BY PlacesFinite, FS_RemoveElement
<1>2. f \in Bijection(Later, Places(Tail(s), T))
    <2>1. \A i \in Later : i \in Nat /\ i - 1 \in Places(Tail(s), T)
        BY TailFacts DEF Places
    <2>2. \A j \in Places(Tail(s), T) : j \in Nat /\ j + 1 \in Later
        BY TailFacts DEF Places
    <2>3. f \in [Later -> Places(Tail(s), T)]
        BY <2>1
    <2>4. \A i, k \in Later : f[i] = f[k] => i = k
        BY <2>1
    <2>5. \A j \in Places(Tail(s), T) : f[j + 1] = j
        BY <2>2
    <2> QED BY <2>2, <2>3, <2>4, <2>5, Fun_IsBij
<1>3. Cardinality(Later) = Count(Tail(s), T)
    <2>1. ExistsBijection(Later, Places(Tail(s), T))
        BY <1>2 DEF ExistsBijection
    <2> HIDE DEF Later
    <2> QED BY <1>1, <2>1, FS_Bijection DEF Count
<1>4. 1 \in Places(s, T) <=> Head(s) \in T
    BY TailFacts DEF Places
<1>5. Cardinality(Later) = IF 1 \in Places(s, T) THEN Count(s, T) - 1 ELSE Count(s, T)
    BY PlacesFinite, FS_RemoveElement DEF Count
<1> QED BY <1>3, <1>4, <1>5, PlacesFinite

(* What two sequences have is what they have one after the other. *)
LEMMA ConcatIn ==
    ASSUME NEW S, NEW s \in Seq(S), NEW t \in Seq(S)
    PROVE  /\ \A y : In(s \o t, y) <=> In(s, y) \/ In(t, y)
           /\ \A y : OnceAtMost(s, y) /\ OnceAtMost(t, y) /\ ~(In(s, y) /\ In(t, y))
                        => OnceAtMost(s \o t, y)
<1> DEFINE c == s \o t
           m == Len(s)
           n == Len(t)
<1>1. /\ c \in Seq(S) /\ m \in Nat /\ n \in Nat /\ Len(c) = m + n
      /\ \A i \in 1..m : c[i] = s[i]
      /\ \A i \in 1..n : c[m + i] = t[i]
      /\ \A i \in 1..(m + n) : i \in 1..m \/ (i - m \in 1..n /\ c[i] = t[i - m])
    BY ConcatFacts
<1> HIDE DEF c
<1>2. \A i \in 1..n : m + i \in 1..(m + n)
    BY <1>1
<1>3. \A i \in 1..m : i \in 1..(m + n)
    BY <1>1
<1> HIDE DEF m, n
<1>4. ASSUME NEW y PROVE In(c, y) <=> In(s, y) \/ In(t, y)
    BY <1>1, <1>2, <1>3 DEF In, m, n
<1>5. ASSUME NEW y, OnceAtMost(s, y), OnceAtMost(t, y), ~(In(s, y) /\ In(t, y))
      PROVE  OnceAtMost(c, y)
    <2> SUFFICES ASSUME NEW i \in 1..(m + n), NEW j \in 1..(m + n), c[i] = y, c[j] = y
                 PROVE  i = j
        BY <1>1 DEF OnceAtMost
    <2>1. CASE i \in 1..m /\ j \in 1..m
        BY <1>1, <1>5, <2>1 DEF OnceAtMost, m
    <2>2. CASE i \in 1..m /\ ~(j \in 1..m)
        BY <1>1, <1>5, <2>2 DEF In, m, n
    <2>3. CASE ~(i \in 1..m) /\ j \in 1..m
        BY <1>1, <1>5, <2>3 DEF In, m, n
    <2>4. CASE ~(i \in 1..m) /\ ~(j \in 1..m)
        <3>1. i - m = j - m
            BY <1>1, <1>5, <2>4 DEF OnceAtMost, n
        <3> QED BY <1>1, <3>1
    <2> QED BY <2>1, <2>2, <2>3, <2>4
<1> QED BY <1>4, <1>5 DEF c

(* Taking the first k elements off a sequence. *)
LEMMA SplitFacts ==
    ASSUME NEW S, NEW s \in Seq(S), NEW k \in 0..Len(s)
    PROVE  LET before == SubSeq(s, 1, k)
               after == SubSeq(s, k + 1, Len(s))
           IN  /\ before \in Seq(S) /\ after \in Seq(S)
               /\ Len(before) = k /\ Len(after) = Len(s) - k
               /\ \A y : In(s, y) <=> In(before, y) \/ In(after, y)
               /\ \A y : OnceAtMost(s, y) => /\ OnceAtMost(before, y) /\ OnceAtMost(after, y)
                                             /\ ~(In(before, y) /\ In(after, y))
<1> DEFINE before == SubSeq(s, 1, k)
           after == SubSeq(s, k + 1, Len(s))
           n == Len(s)
<1>1. /\ before \in Seq(S) /\ Len(before) = k
      /\ \A i \in 1..k : before[i] = s[i]
    OBVIOUS
<1>2. /\ after \in Seq(S) /\ Len(after) = n - k
      /\ \A i \in 1..(n - k) : after[i] = s[k + i]
    OBVIOUS
<1> HIDE DEF before, after
<1>3. n \in Nat /\ k \in Nat
    OBVIOUS
<1>4. \A i \in 1..(n - k) : k + i \in 1..n /\ ~(k + i \in 1..k)
    BY <1>3
<1>5. \A i \in 1..n : i \in 1..k \/ (i - k \in 1..(n - k) /\ k + (i - k) = i)
    BY <1>3
<1>6. \A i \in 1..k : i \in 1..n
    BY <1>3
<1>7. ASSUME NEW y PROVE In(s, y) <=> In(before, y) \/ In(after, y)
    <2>1. ASSUME NEW i \in 1..n, s[i] = y PROVE In(before, y) \/ In(after, y)
        <3>1. CASE i \in 1..k
            BY <1>1, <2>1, <3>1 DEF In
        <3>2. CASE i - k \in 1..(n - k) /\ k + (i - k) = i
            <4>1. after[i - k] = y
                BY <1>2, <2>1, <3>2
            <4> QED BY <1>2, <3>2, <4>1 DEF In
        <3> QED BY <1>5, <3>1, <3>2
    <2>2. ASSUME NEW i \in 1..k, before[i] = y PROVE In(s, y)
        BY <1>1, <1>6, <2>2 DEF In
    <2>3. ASSUME NEW i \in 1..(n - k), after[i] = y PROVE In(s, y)
        BY <1>2, <1>4, <2>3 DEF In
    <2> QED BY <1>1, <1>2, <2>1, <2>2, <2>3 DEF In
<1>8. ASSUME NEW y, OnceAtMost(s, y)
      PROVE  OnceAtMost(before, y) /\ OnceAtMost(after, y) /\ ~(In(before, y) /\ In(after, y))
    <2>1. OnceAtMost(before, y)
        BY <1>1, <1>6, <1>8 DEF OnceAtMost
    <2>2. ASSUME NEW i \in 1..(n - k), NEW j \in 1..(n - k), after[i] = y, after[j] = y
          PROVE  i = j
        <3>1. k + i = k + j
            BY <1>2, <1>4, <1>8, <2>2 DEF OnceAtMost
        <3> QED BY <1>3, <3>1
    <2>3. ASSUME NEW i \in 1..k, NEW j \in 1..(n - k), before[i] = y, after[j] = y PROVE FALSE
        <3>1. i = k + j
            BY <1>1, <1>2, <1>4, <1>6, <1>8, <2>3 DEF OnceAtMost
        <3> QED BY <1>4, <3>1
    <2> QED BY <1>1, <1>2, <2>1, <2>2, <2>3 DEF OnceAtMost, In
<1> QED BY <1>1, <1>2, <1>7, <1>8 DEF before, after

LEMMA ReverseFacts ==
    ASSUME NEW S, NEW s \in Seq(S)
    PROVE  /\ Reverse(s) \in Seq(S) /\ Len(Reverse(s)) = Len(s)
           /\ \A y : In(Reverse(s), y) <=> In(s, y)
           /\ \A y : OnceAtMost(s, y) => OnceAtMost(Reverse(s), y)
<1> DEFINE r == Reverse(s)
           n == Len(s)
<1>1. n \in Nat /\ \A i \in 1..n : s[i] \in S
    OBVIOUS
<1>2. \A i \in 1..n : /\ n - i + 1 \in 1..n
                       /\ n - (n - i + 1) + 1 = i
    BY <1>1
<1>3. r = [i \in 1..n |-> s[n - i + 1]]
    BY DEF Reverse
<1>4. r \in [1..n -> S]
    <2> HIDE DEF r, n
    <2> QED BY <1>1, <1>2, <1>3
<1> HIDE DEF r
<1>5. r \in Seq(S) /\ Len(r) = n
    <2> HIDE DEF n
    <2> QED BY <1>1, <1>4
<1>6. \A i \in 1..n : r[i] = s[n - i + 1]
    BY <1>3
<1>7. ASSUME NEW y PROVE In(r, y) <=> In(s, y)
    <2>1. ASSUME NEW i \in 1..n, r[i] = y PROVE In(s, y)
        BY <1>2, <1>6, <2>1 DEF In
    <2>2. ASSUME NEW i \in 1..n, s[i] = y PROVE In(r, y)
        <3>1. r[n - i + 1] = y
            BY <1>2, <1>6, <2>2
        <3> QED BY <1>2, <1>5, <3>1 DEF In
    <2> QED BY <1>5, <2>1, <2>2 DEF In
<1>8. ASSUME NEW y, OnceAtMost(s, y) PROVE OnceAtMost(r, y)
    <2> SUFFICES ASSUME NEW i \in 1..n, NEW j \in 1..n, r[i] = y, r[j] = y PROVE i = j
        BY <1>5 DEF OnceAtMost
    <2> DEFINE k == n - i + 1
               l == n - j + 1
    <2>1. k = l
        <3>1. k \in 1..Len(s) /\ l \in 1..Len(s) /\ s[k] = y /\ s[l] = y
            BY <1>2, <1>6
        <3> HIDE DEF k, l
        <3> QED BY <1>8, <3>1 DEF OnceAtMost
    <2> QED BY <1>1, <2>1
<1> QED BY <1>5, <1>7, <1>8 DEF r

(* The elements of a sequence as a set. *)
LEMMA ToSetFacts ==
    ASSUME NEW S, NEW s \in Seq(S)
    PROVE  /\ ToSet(s) \subseteq S /\ IsFiniteSet(ToSet(s))
           /\ \A y : y \in ToSet(s) <=> In(s, y)
           /\ IsInjective(s) => \A y : OnceAtMost(s, y)
<1> DEFINE n == Len(s)
<1>1. n \in Nat /\ DOMAIN s = 1..n /\ \A i \in 1..n : s[i] \in S
    OBVIOUS
<1>2. ToSet(s) \subseteq S /\ \A y : y \in ToSet(s) <=> In(s, y)
    BY <1>1 DEF ToSet, In
<1>3. IsFiniteSet(ToSet(s))
    <2> DEFINE f == [i \in 1..n |-> s[i]]
    <2>1. f \in [1..n -> ToSet(s)] /\ \A y \in ToSet(s) : \E i \in 1..n : f[i] = y
        BY <1>1 DEF ToSet
    <2>2. f \in Surjection(1..n, ToSet(s))
        <3> HIDE DEF f
        <3> QED BY <2>1 DEF Surjection
    <2>3. IsFiniteSet(1..n)
        BY <1>1, FS_Interval
    <2> HIDE DEF f, n
    <2> QED BY <2>2, <2>3, FS_Surjection
<1>4. IsInjective(s) => \A y : OnceAtMost(s, y)
    BY <1>1 DEF IsInjective, OnceAtMost
<1> QED BY <1>2, <1>3, <1>4

----------------------------------------------------------------------------
(***************************************************************************)
(* Folds.  A fold over the finite set S takes what "choose" picks of a set  *)
(* last; "after" says what may have come of each set of elements.           *)
(***************************************************************************)
Picks(choose, S) == \A s \in SUBSET S : s # {} => choose[s] \in s

Upto(S, k) == {s \in SUBSET S : Cardinality(s) =< k}

LEMMA UptoFacts ==
    ASSUME NEW S, IsFiniteSet(S)
    PROVE  /\ Upto(S, 0) = {{}} /\ Upto(S, Cardinality(S)) = SUBSET S /\ Cardinality(S) \in Nat
           /\ \A k \in Nat : Upto(S, k) \subseteq Upto(S, k + 1)
           /\ \A k \in Nat : \A s \in Upto(S, k + 1) : \A x \in s : s \ {x} \in Upto(S, k)
           /\ \A k \in Nat : {} \in Upto(S, k)
<1>1. \A s \in SUBSET S : IsFiniteSet(s) /\ Cardinality(s) \in Nat /\ Cardinality(s) =< Cardinality(S)
    BY FS_Subset, FS_CardinalityType
<1>2. \A s \in SUBSET S : \A x \in s : Cardinality(s \ {x}) = Cardinality(s) - 1
    BY <1>1, FS_RemoveElement
<1>3. \A s \in SUBSET S : Cardinality(s) = 0 <=> s = {}
    BY <1>1, FS_EmptySet
<1>4. Cardinality(S) \in Nat
    BY FS_CardinalityType
<1> QED BY <1>1, <1>2, <1>3, <1>4 DEF Upto

(* What holds of 0 and of every successor holds of every natural number. *)
LEMMA Induction ==
    ASSUME NEW P, 0 \in P, \A k \in Nat : k \in P => k + 1 \in P
    PROVE  Nat \subseteq P
<1> SUFFICES ASSUME NEW n \in Nat, n \notin P PROVE FALSE
    OBVIOUS
<1> DEFINE T == {k \in Nat : k \notin P}
           m == Min(T)
<1>1. m \in T /\ \A y \in T : m =< y
    BY LeastNatural
<1> HIDE DEF m
<1>2. m # 0 /\ m \in Nat
    BY <1>1
<1>3. m - 1 \in Nat /\ m - 1 \notin T
    BY <1>1, <1>2
<1>4. m - 1 + 1 = m
    BY <1>2
<1> QED BY <1>1, <1>3, <1>4

(* f solves the recursive definition of a fold on the sets of T. *)
Solves(f, T, choose, base, step) ==
    f = [s \in T |-> IF s = {} THEN base ELSE step[<<f[s \ {choose[s]}], choose[s]>>]]

(* Some function does, on all of them. *)
LEMMA FoldExists ==
    ASSUME NEW S, IsFiniteSet(S), NEW choose, Picks(choose, S),
           NEW base, NEW step
    PROVE  \E f : Solves(f, SUBSET S, choose, base, step)
<1> DEFINE P == {k \in Nat : \E f : Solves(f, Upto(S, k), choose, base, step)}
<1>1. 0 \in P
    <2> DEFINE f == [s \in {{}} |-> base]
    <2>1. Upto(S, 0) = {{}}
        BY UptoFacts
    <2>2. Solves(f, Upto(S, 0), choose, base, step)
        BY <2>1 DEF Solves
    <2> QED BY <2>2
<1>2. ASSUME NEW k \in Nat, k \in P PROVE k + 1 \in P
    <2>1. PICK f : Solves(f, Upto(S, k), choose, base, step)
        BY <1>2
    <2> DEFINE g == [s \in Upto(S, k + 1) |->
                       IF s = {} THEN base ELSE step[<<f[s \ {choose[s]}], choose[s]>>]]
    <2>2. \A s \in Upto(S, k + 1) : s # {} => s \ {choose[s]} \in Upto(S, k)
        BY UptoFacts DEF Upto, Picks
    <2>3. \A s \in Upto(S, k) : s \in Upto(S, k + 1) /\ g[s] = f[s]
        <3>1. \A s \in Upto(S, k) : s \in Upto(S, k + 1)
            BY UptoFacts
        <3>2. \A s \in Upto(S, k) : f[s] = IF s = {} THEN base ELSE step[<<f[s \ {choose[s]}], choose[s]>>]
            BY <2>1 DEF Solves
        <3> QED BY <3>1, <3>2
    <2>4. Solves(g, Upto(S, k + 1), choose, base, step)
        <3>1. \A s \in Upto(S, k + 1) : s # {} => g[s \ {choose[s]}] = f[s \ {choose[s]}]
            BY <2>2, <2>3
        <3>2. g = [s \in Upto(S, k + 1) |->
                     IF s = {} THEN base ELSE step[<<g[s \ {choose[s]}], choose[s]>>]]
            <4> DEFINE h == [s \in Upto(S, k + 1) |->
                               IF s = {} THEN base ELSE step[<<g[s \ {choose[s]}], choose[s]>>]]
            <4>1. ASSUME NEW s \in Upto(S, k + 1) PROVE h[s] = g[s]
                <5>1. h[s] = IF s = {} THEN base ELSE step[<<g[s \ {choose[s]}], choose[s]>>]
                    BY <4>1
                <5>2. g[s] = IF s = {} THEN base ELSE step[<<f[s \ {choose[s]}], choose[s]>>]
                    BY <4>1
                <5> HIDE DEF g, h
                <5> QED BY <3>1, <5>1, <5>2
            <4> QED BY <4>1
        <3> HIDE DEF g
        <3> QED BY <3>2 DEF Solves
    <2> HIDE DEF g
    <2> QED BY <2>4
<1> HIDE DEF P
<1>3. Nat \subseteq P
    BY <1>1, <1>2, Induction
<1>4. Cardinality(S) \in P
    BY <1>3, UptoFacts
<1>5. \E f : Solves(f, Upto(S, Cardinality(S)), choose, base, step)
    BY <1>4 DEF P
<1>6. Upto(S, Cardinality(S)) = SUBSET S
    BY UptoFacts
<1> QED BY <1>5, <1>6, Zenon

(* What every step keeps holds of the result. *)
LEMMA FoldKeeps ==
    ASSUME NEW S, IsFiniteSet(S), NEW choose, Picks(choose, S),
           NEW f, NEW after, f[{}] \in after[{}],
           \A s \in SUBSET S : s # {} /\ f[s \ {choose[s]}] \in after[s \ {choose[s]}] => f[s] \in after[s]
    PROVE  \A s \in SUBSET S : f[s] \in after[s]
<1> DEFINE P == {k \in Nat : \A s \in Upto(S, k) : f[s] \in after[s]}
<1>1. 0 \in P
    BY UptoFacts
<1>2. ASSUME NEW k \in Nat, k \in P PROVE k + 1 \in P
    <2> SUFFICES ASSUME NEW s \in Upto(S, k + 1), s # {} PROVE f[s] \in after[s]
        <3>1. k + 1 \in Nat
            OBVIOUS
        <3> QED BY <3>1
    <2>1. s \in SUBSET S /\ choose[s] \in s
        BY DEF Upto, Picks
    <2>2. s \ {choose[s]} \in Upto(S, k)
        BY <2>1, UptoFacts
    <2> QED BY <1>2, <2>1, <2>2
<1> HIDE DEF P
<1>3. Nat \subseteq P
    BY <1>1, <1>2, Induction
<1> QED BY <1>3, UptoFacts DEF P

(* A fold whose steps stay in V from the base has its solution there. *)
FoldIn(V, S, choose, base, step) ==
    IsFiniteSet(S) /\ Picks(choose, S) /\ base \in V /\ step \in [V \X S -> V]
SolvesIn(f, V, S, choose, base, step) ==
    Solves(f, SUBSET S, choose, base, step) /\ \A s \in SUBSET S : f[s] \in V

LEMMA FoldSolved ==
    ASSUME NEW V, NEW S, NEW choose, NEW base, NEW step, FoldIn(V, S, choose, base, step)
    PROVE  \E f : SolvesIn(f, V, S, choose, base, step)
<1>0. IsFiniteSet(S) /\ Picks(choose, S) /\ base \in V /\ step \in [V \X S -> V]
    BY DEF FoldIn
<1>1. PICK f : Solves(f, SUBSET S, choose, base, step)
    BY <1>0, FoldExists
<1>2. \A s \in SUBSET S : f[s] = IF s = {} THEN base ELSE step[<<f[s \ {choose[s]}], choose[s]>>]
    BY <1>1 DEF Solves
<1> DEFINE after == [s \in SUBSET S |-> V]
<1>3. f[{}] \in after[{}]
    BY <1>0, <1>2
<1>4. \A s \in SUBSET S : s # {} /\ f[s \ {choose[s]}] \in after[s \ {choose[s]}] => f[s] \in after[s]
    <2> SUFFICES ASSUME NEW s \in SUBSET S, s # {}, f[s \ {choose[s]}] \in V PROVE f[s] \in V
        OBVIOUS
    <2>1. choose[s] \in S
        BY <1>0 DEF Picks
    <2> QED BY <1>0, <1>2, <2>1
<1> HIDE DEF after
<1>5. \A s \in SUBSET S : f[s] \in after[s]
    BY <1>0, <1>3, <1>4, FoldKeeps
<1>6. \A s \in SUBSET S : f[s] \in V
    BY <1>5 DEF after
<1> QED BY <1>1, <1>6 DEF SolvesIn

(* FoldLeft takes the places of a sequence from the first to the last. *)
LEMMA Segments ==
    /\ 1..0 = {}
    /\ \A n \in Nat : \A t \in SUBSET (1..n) : t # {} => Max(t) \in t
    /\ \A k \in Nat : k # 0 => Max(1..k) = k /\ (1..k) \ {k} = 1..(k - 1)
<1>1. ASSUME NEW n \in Nat, NEW t \in SUBSET (1..n), t # {} PROVE Max(t) \in t
    <2> DEFINE bounds == {b \in Nat : \A y \in t : y =< b}
               m == Min(bounds)
    <2>1. n \in bounds
        OBVIOUS
    <2>2. m \in bounds /\ \A b \in bounds : m =< b
        BY <2>1, LeastNatural
    <2> HIDE DEF m
    <2>3. m \in Nat /\ \A y \in t : y \in Nat /\ y =< m
        BY <2>2
    <2>4. m \in t
        <3> SUFFICES ASSUME m \notin t PROVE FALSE
            OBVIOUS
        <3>1. m # 0
            <4>1. PICK y \in t : y \in 1..n
                BY <1>1
            <4>2. y \in Nat /\ y >= 1 /\ y =< m
                BY <2>3, <4>1
            <4> QED BY <4>2
        <3>2. m - 1 \in bounds
            <4>1. m - 1 \in Nat
                BY <2>3, <3>1
            <4>2. \A y \in t : y =< m - 1
                BY <2>3
            <4> QED BY <4>1, <4>2
        <3> QED BY <2>2, <2>3, <3>2
    <2>5. \E x \in t : \A y \in t : x >= y
        BY <2>3, <2>4
    <2> QED BY <2>5 DEF Max
<1>2. ASSUME NEW k \in Nat, k # 0 PROVE Max(1..k) = k /\ (1..k) \ {k} = 1..(k - 1)
    <2>1. \A x \in 1..k : (\A y \in 1..k : x >= y) <=> x = k
        BY <1>2
    <2>2. k \in 1..k
        BY <1>2
    <2>3. \A x : (x \in 1..k /\ \A y \in 1..k : x >= y) <=> x = k
        BY <2>1, <2>2
    <2>4. Max(1..k) = k
        BY <2>3 DEF Max
    <2> QED BY <1>2, <2>4
<1>3. 1..0 = {}
    OBVIOUS
<1> QED BY <1>1, <1>2, <1>3

(* The recursive definition that FoldLeft uses. *)
SolvesLeft(f, V, X, s, base, step) ==
    /\ f = [t \in SUBSET (DOMAIN s) |-> IF t = {} THEN base ELSE step[<<f[t \ {Max(t)}], s[Max(t)]>>]]
    /\ \A t \in SUBSET (DOMAIN s) : f[t] \in V /\ (t # {} => Max(t) \in t /\ s[Max(t)] \in X)

LEMMA FoldLeftSolved ==
    ASSUME NEW V, NEW X, NEW s \in Seq(X), NEW base \in V, NEW step \in [V \X X -> V]
    PROVE  \E f : SolvesLeft(f, V, X, s, base, step)
<1> DEFINE S == DOMAIN s
           choose == [t \in SUBSET S |-> Max(t)]
           at == [x \in V \X S |-> step[<<x[1], s[x[2]]>>]]
<1>1. Len(s) \in Nat /\ S = 1..Len(s) /\ IsFiniteSet(S) /\ \A i \in S : s[i] \in X
    BY FS_Interval
<1>2. \A t \in SUBSET S : t # {} => Max(t) \in t
    BY <1>1, Segments
<1>3. Picks(choose, S)
    BY <1>2 DEF Picks
<1>4. at \in [V \X S -> V]
    BY <1>1
<1> HIDE DEF S, choose, at
<1>5. FoldIn(V, S, choose, base, at)
    BY <1>1, <1>3, <1>4 DEF FoldIn
<1>6. PICK f : SolvesIn(f, V, S, choose, base, at)
    BY <1>5, FoldSolved
<1> USE DEF S
<1>7. \A t \in SUBSET S : f[t] = IF t = {} THEN base ELSE step[<<f[t \ {Max(t)}], s[Max(t)]>>]
    <2> SUFFICES ASSUME NEW t \in SUBSET S, t # {}
                 PROVE  f[t] = step[<<f[t \ {Max(t)}], s[Max(t)]>>]
        BY <1>6 DEF SolvesIn, Solves
    <2>1. choose[t] = Max(t) /\ Max(t) \in S /\ f[t \ {Max(t)}] \in V
        BY <1>2, <1>6 DEF choose, SolvesIn
    <2>2. f[t] = at[<<f[t \ {Max(t)}], Max(t)>>]
        BY <1>6, <2>1 DEF SolvesIn, Solves
    <2> QED BY <2>1, <2>2 DEF at
<1>8. f = [t \in SUBSET S |-> IF t = {} THEN base ELSE step[<<f[t \ {Max(t)}], s[Max(t)]>>]]
    <2> HIDE DEF S
    <2> QED BY <1>6, <1>7 DEF SolvesIn, Solves
<1> QED BY <1>1, <1>2, <1>6, <1>8 DEF SolvesIn, SolvesLeft

(* What every step from the first place to the last keeps. *)
LEMMA SegmentsKeep ==
    ASSUME NEW n \in Nat, NEW d, NEW after, d[0] \in after[0],
           \A k \in 1..n : d[k - 1] \in after[k - 1] => d[k] \in after[k]
    PROVE  d[n] \in after[n]
<1> DEFINE P == {k \in Nat : k =< n => d[k] \in after[k]}
<1>1. \A k \in Nat : k \in P => k + 1 \in P
    OBVIOUS
<1>2. 0 \in P
    OBVIOUS
<1> HIDE DEF P
<1>3. Nat \subseteq P
    BY <1>1, <1>2, Induction
<1> QED BY <1>3 DEF P
=============================================================================
