------------------------- MODULE GatheringInvariant -------------------------
(***************************************************************************)
(* The inductive invariant of gathering (module Gathering), and that the   *)
(* operators on the discovery list, the refreshes and the replies keep it. *)
(* Module GatheringProofs has the calls, what goes, and the theorem.       *)
(*                                                                         *)
(* A step changes the agent through several operators, each from a record  *)
(* to a record.  The invariant is a predicate on records: Sound holds of   *)
(* every record a step goes through, Whole when it is done.                *)
(***************************************************************************)
EXTENDS Gathering, FiniteSetTheorems, TLAPS

-----------------------------------------------------------------------------
(* Lists.                                                                  *)

\* A property of 0 that passes on from every number to the next is one of all.
LEMMA Induct ==
    ASSUME NEW T, 0 \in T, \A n \in Nat : n \in T => n + 1 \in T
    PROVE  \A n \in Nat : n \in T
  <1> SUFFICES ASSUME Nat \ T # {} PROVE FALSE
    BY Zenon
  <1>1. PICK n \in Nat \ T : \A k \in Nat \ T : ~(<<k, n>> \in OpToRel(<, Nat))
    BY NatLessThanWellFounded, WFMin, Zenon
  <1>2. \A k \in Nat \ T : ~(k < n)
    BY <1>1, Zenon DEF OpToRel
  <1>3. n # 0 /\ n - 1 \in Nat /\ n - 1 < n /\ (n - 1) + 1 = n
    BY SMT
  <1>4. n - 1 \in T
    BY <1>2, <1>3, Zenon
  <1> QED BY <1>1, <1>3, <1>4, Zenon

\* Some numbers have a least one.
LEMMA MinIs ==
    ASSUME NEW I \in SUBSET Nat, I # {}
    PROVE  Min(I) \in I
  <1>1. PICK n \in I : \A k \in I : ~(<<k, n>> \in OpToRel(<, Nat))
    BY NatLessThanWellFounded, WFMin, Zenon
  <1>2. \A k \in I : ~(k < n)
    BY <1>1, Zenon DEF OpToRel
  <1>3. \A k \in I : n <= k
    BY <1>2, SMT
  <1> QED BY <1>3, Zenon DEF Min

\* A list is a function on 1..n, and a sequence of anything is a list.
LEMMA ListIs ==
    ASSUME NEW l, IsList(l)
    PROVE  /\ Len(l) \in Nat /\ DOMAIN l = 1..Len(l)
           /\ l = [i \in 1..Len(l) |-> l[i]]
           /\ \A i \in 1..Len(l) : l[i] \in Range(l)
           /\ \A x \in Range(l) : \E i \in 1..Len(l) : x = l[i]
  <1>1. l \in Seq(Range(l))
    BY DEF IsList
  <1>2. Len(l) \in Nat /\ DOMAIN l = 1..Len(l)
    BY <1>1
  <1>3. l = [i \in 1..Len(l) |-> l[i]]
    BY <1>1
  <1> QED BY <1>2, <1>3, Zenon DEF Range

\* A function on 1..n is a list of what it takes.
LEMMA FunctionIsList ==
    ASSUME NEW n \in Nat, NEW f, f = [i \in 1..n |-> f[i]]
    PROVE  /\ IsList(f) /\ Len(f) = n /\ DOMAIN f = 1..n
           /\ Range(f) = {f[i] : i \in 1..n}
  <1>1. DOMAIN f = 1..n
    BY Zenon
  <1>2. Range(f) = {f[i] : i \in 1..n}
    BY <1>1, Zenon DEF Range
  <1>3. f \in [1..n -> Range(f)]
    BY <1>2, Zenon
  <1>4. f \in Seq(Range(f))
    BY <1>3, SMT
  <1>5. Len(f) = n
    BY <1>1, <1>4, SMT
  <1> QED BY <1>1, <1>2, <1>4, <1>5, Zenon DEF IsList

\* A sequence over S is a list of elements of S.
LEMMA SeqIsList ==
    ASSUME NEW S, NEW k \in Seq(S)
    PROVE  IsList(k) /\ Range(k) \subseteq S
  <1>1. Len(k) \in Nat /\ k \in [1..Len(k) -> S]
    OBVIOUS
  <1> DEFINE n == Len(k)
  <1>2. n \in Nat /\ k \in [1..n -> S] /\ k = [i \in 1..n |-> k[i]]
    BY <1>1, Zenon
  <1> HIDE DEF n
  <1>3. IsList(k) /\ Range(k) = {k[i] : i \in 1..n}
    BY <1>2, FunctionIsList
  <1> QED BY <1>2, <1>3, Zenon

\* The empty list, and the only one without length.
LEMMA EmptyIsList ==
    /\ IsList(<<>>) /\ Len(<<>>) = 0 /\ Range(<<>>) = {}
    /\ \A l : IsList(l) /\ Len(l) = 0 => l = <<>>
  <1>1. Range(<<>>) = {}
    BY DEF Range
  <1>2. <<>> \in Seq({})
    OBVIOUS
  <1>3. ASSUME NEW l, IsList(l), Len(l) = 0 PROVE l = <<>>
    BY <1>3 DEF IsList
  <1> QED BY <1>1, <1>2, <1>3 DEF IsList

\* Joining two lists.
LEMMA ConcatIsList ==
    ASSUME NEW l, NEW m, IsList(l), IsList(m)
    PROVE  /\ IsList(l \o m) /\ Len(l \o m) = Len(l) + Len(m)
           /\ Range(l \o m) \subseteq Range(l) \cup Range(m)
           /\ \A i \in 1..Len(l \o m) :
                (l \o m)[i] = IF i <= Len(l) THEN l[i] ELSE m[i - Len(l)]
  <1> DEFINE S == Range(l) \cup Range(m)
             k == l \o m
  <1>1. l \in Seq(S) /\ m \in Seq(S)
    <2>1. l \in Seq(Range(l)) /\ m \in Seq(Range(m))
      BY DEF IsList
    <2> QED BY <2>1, SMT
  <1>2. k \in Seq(S) /\ Len(k) = Len(l) + Len(m)
    BY <1>1
  <1>3. \A i \in 1..Len(k) : k[i] = IF i <= Len(l) THEN l[i] ELSE m[i - Len(l)]
    BY <1>1
  <1> HIDE DEF k, S
  <1>5. IsList(k) /\ Range(k) \subseteq S
    BY <1>2, SeqIsList DEF k, S
  <1> QED BY <1>2, <1>3, <1>5 DEF k, S

\* A list of one.
LEMMA SingleIsList ==
    ASSUME NEW x
    PROVE  IsList(<<x>>) /\ Len(<<x>>) = 1 /\ Range(<<x>>) = {x} /\ <<x>>[1] = x
  <1>1. Range(<<x>>) = {x}
    BY DEF Range
  <1> QED BY <1>1 DEF IsList

\* A list with one more at its end.
LEMMA AppendIsList ==
    ASSUME NEW l, NEW x, IsList(l)
    PROVE  /\ IsList(Append(l, x)) /\ Len(Append(l, x)) = Len(l) + 1
           /\ Range(Append(l, x)) \subseteq Range(l) \cup {x}
           /\ \A i \in 1..Len(l) : Append(l, x)[i] = l[i]
           /\ Append(l, x)[Len(l) + 1] = x
  <1>1. l \in Seq(Range(l) \cup {x})
    <2>1. l \in Seq(Range(l))
      BY DEF IsList
    <2> QED BY <2>1, SMT
  <1>2. /\ Len(Append(l, x)) = Len(l) + 1
        /\ \A i \in 1..Len(l) : Append(l, x)[i] = l[i]
        /\ Append(l, x)[Len(l) + 1] = x
        /\ Append(l, x) \in Seq(Range(l) \cup {x})
    BY <1>1
  <1> DEFINE k == Append(l, x)
             S == Range(l) \cup {x}
  <1> HIDE DEF k, S
  <1>5. IsList(k) /\ Range(k) \subseteq S
    BY <1>2, SeqIsList DEF k, S
  <1> QED BY <1>2, <1>5 DEF k, S

\* Adding nothing.
LEMMA ConcatNothing ==
    ASSUME NEW l, IsList(l)
    PROVE  l \o <<>> = l
  <1>1. l \in Seq(Range(l))
    BY DEF IsList
  <1> QED BY <1>1

\* Writing one element.
Written(l, i, x) == [l EXCEPT ![i] = x]

\* Writing an element keeps the length and the others.
LEMMA WrittenIsList ==
    ASSUME NEW l, IsList(l), NEW i, NEW x
    PROVE  /\ IsList(Written(l, i, x)) /\ Len(Written(l, i, x)) = Len(l)
           /\ Range(Written(l, i, x)) \subseteq Range(l) \cup {x}
           /\ \A j \in 1..Len(l) : Written(l, i, x)[j] = IF j = i THEN x ELSE l[j]
  <1> DEFINE k == Written(l, i, x)
             n == Len(l)
  <1>1. Len(l) \in Nat /\ DOMAIN l = 1..Len(l) /\ \A j \in 1..Len(l) : l[j] \in Range(l)
    BY ListIs
  <1>2. DOMAIN k = 1..Len(l) /\ \A j \in 1..Len(l) : k[j] = IF j = i THEN x ELSE l[j]
    BY <1>1, Zenon DEF Written
  <1>3. k = [j \in 1..Len(l) |-> k[j]]
    BY <1>1, Zenon DEF Written
  <1> HIDE DEF k, n
  <1>4. IsList(k) /\ Len(k) = n /\ Range(k) = {k[j] : j \in 1..n}
    <2>1. n \in Nat /\ k = [j \in 1..n |-> k[j]]
      BY <1>1, <1>3, Zenon DEF n
    <2> QED BY <2>1, FunctionIsList
  <1>5. Range(k) \subseteq Range(l) \cup {x}
    BY <1>1, <1>2, <1>4, Zenon DEF n
  <1> QED BY <1>2, <1>4, <1>5, Zenon DEF k, n

\* Taking one element out, and all but the first or the last.
LEMMA RemovedIsList ==
    ASSUME NEW l, IsList(l), NEW i \in 1..Len(l)
    PROVE  IsList(RemoveAt(l, i)) /\ Range(RemoveAt(l, i)) \subseteq Range(l)
  <1>1. Len(l) \in Nat /\ \A j \in 1..Len(l) : l[j] \in Range(l)
    BY ListIs
  <1>2. SubSeq(l, 1, i - 1) \in Seq(Range(l))
    <2>1. \A j \in 1..(i - 1) : l[j] \in Range(l)
      BY <1>1
    <2> QED BY <1>1, <2>1
  <1>3. SubSeq(l, i + 1, Len(l)) \in Seq(Range(l))
    <2>1. \A j \in (i + 1)..Len(l) : l[j] \in Range(l)
      BY <1>1
    <2> QED BY <1>1, <2>1
  <1>4. RemoveAt(l, i) \in Seq(Range(l))
    BY <1>2, <1>3 DEF RemoveAt
  <1> QED BY <1>4, SeqIsList

\* All but the first, all but the last, and the first.
LEMMA ShortenedIsList ==
    ASSUME NEW l, IsList(l), l # <<>>
    PROVE  /\ IsList(Tail(l)) /\ Range(Tail(l)) \subseteq Range(l)
           /\ IsList(SubSeq(l, 1, Len(l) - 1)) /\ Range(SubSeq(l, 1, Len(l) - 1)) \subseteq Range(l)
           /\ Head(l) \in Range(l)
  <1>1. Len(l) \in Nat /\ \A j \in 1..Len(l) : l[j] \in Range(l)
    BY ListIs
  <1>2. SubSeq(l, 1, Len(l) - 1) \in Seq(Range(l))
    <2>1. \A j \in 1..(Len(l) - 1) : l[j] \in Range(l)
      BY <1>1
    <2> QED BY <1>1, <2>1
  <1>3. Tail(l) \in Seq(Range(l)) /\ Head(l) \in Range(l)
    BY DEF IsList
  <1> QED BY <1>2, <1>3, SeqIsList

\* The first of some indices.
LEMMA FirstIs ==
    ASSUME NEW l, IsList(l), NEW I \in SUBSET DOMAIN l
    PROVE  /\ FirstOf(I) # 0 => FirstOf(I) \in I /\ FirstOf(I) \in 1..Len(l)
           /\ I # {} => FirstOf(I) # 0
  <1>1. DOMAIN l = 1..Len(l) /\ Len(l) \in Nat
    BY ListIs
  <1>2. I \in SUBSET Nat /\ 0 \notin I
    BY <1>1
  <1>3. I # {} => Min(I) \in I
    BY <1>2, MinIs
  <1> QED BY <1>1, <1>2, <1>3, Zenon DEF FirstOf

\* A set in some order.
LEMMA OrderedIsList ==
    ASSUME NEW S, IsFiniteSet(S)
    PROVE  IsList(Ordered(S)) /\ Range(Ordered(S)) \subseteq S
  <1>1. Cardinality(S) \in Nat
    BY FS_CardinalityType
  <1>2. PICK f \in [1..Cardinality(S) -> S] : Range(f) = S
    <2>1. PICK f : f \in Bijection(1..Cardinality(S), S)
      BY FS_CardinalityType, Zenon DEF ExistsBijection
    <2>2. f \in [1..Cardinality(S) -> S] /\ \A y \in S : \E x \in 1..Cardinality(S) : f[x] = y
      BY <2>1, Zenon DEF Bijection, Injection, Surjection
    <2>3. Range(f) = S
      BY <2>2 DEF Range
    <2> QED BY <2>2, <2>3
  <1>3. Ordered(S) \in [1..Cardinality(S) -> S]
    BY <1>2, Zenon DEF Ordered
  <1>4. Ordered(S) \in Seq(S)
    BY <1>1, <1>3, SMT
  <1> QED BY <1>4, SeqIsList

\* The recursion of Those has a solution.
IsThose(f, l, S, n) ==
    f = [i \in 0..n |-> IF i = 0 THEN <<>>
                        ELSE IF l[i] \in S THEN Append(f[i - 1], l[i]) ELSE f[i - 1]]

\* That function exists.
LEMMA ThoseExists ==
    ASSUME NEW l, NEW S
    PROVE  \A n \in Nat : \E f : IsThose(f, l, S, n)
  <1> DEFINE T == {n \in Nat : \E f : IsThose(f, l, S, n)}
             next(f, i) == IF i = 0 THEN <<>>
                           ELSE IF l[i] \in S THEN Append(f[i - 1], l[i]) ELSE f[i - 1]
  <1>1. 0 \in T
    <2> DEFINE f == [i \in 0..0 |-> <<>>]
    <2>1. IsThose(f, l, S, 0)
      BY DEF IsThose
    <2> QED BY <2>1
  <1>2. ASSUME NEW n \in Nat, n \in T PROVE n + 1 \in T
    <2>1. PICK f : IsThose(f, l, S, n)
      BY <1>2
    <2> DEFINE g == [i \in 0..n + 1 |-> next(f, i)]
    <2>f. \A i \in 0..n : f[i] = next(f, i)
      BY <2>1, Zenon DEF IsThose
    <2>2. \A i \in 0..n : g[i] = f[i]
      <3> TAKE i \in 0..n
      <3>1. i \in 0..n + 1
        OBVIOUS
      <3>2. g[i] = next(f, i)
        BY <3>1, Zenon
      <3> QED BY <2>f, <3>2, Zenon
    <2>3. \A i \in 0..n + 1 : i # 0 => g[i - 1] = f[i - 1]
      <3> TAKE i \in 0..n + 1
      <3> HAVE i # 0
      <3>1. i - 1 \in 0..n
        OBVIOUS
      <3> QED BY <2>2, <3>1
    <2>4. IsThose(g, l, S, n + 1)
      <3> HIDE DEF g
      <3>1. g = [i \in 0..n + 1 |-> next(f, i)]
        BY DEF g
      <3>2. \A i \in 0..n + 1 : next(f, i) = next(g, i)
        BY <2>3
      <3> QED BY <3>1, <3>2, Zenon DEF IsThose
    <2> QED BY <2>4
  <1> HIDE DEF T
  <1>3. \A n \in Nat : n \in T
    BY <1>1, <1>2, Induct
  <1> QED BY <1>3 DEF T

\* k has some of the elements of l, each once.
Within(k, l, n) ==
    \E h \in [1..Len(k) -> 1..n] : IsInjective(h) /\ \A i \in 1..Len(k) : k[i] = l[h[i]]

\* An element further on makes the part longer.
LEMMA WithinAppend ==
    ASSUME NEW k, NEW l, NEW n \in Nat, IsList(k), Within(k, l, n)
    PROVE  Within(k, l, n + 1) /\ Within(Append(k, l[n + 1]), l, n + 1)
  <1> DEFINE m == Len(k)
             a == Append(k, l[n + 1])
  <1>1. PICK h \in [1..m -> 1..n] : IsInjective(h) /\ \A i \in 1..m : k[i] = l[h[i]]
    BY DEF Within
  <1>2. m \in Nat /\ Len(a) = m + 1 /\ a[m + 1] = l[n + 1] /\ \A i \in 1..m : a[i] = k[i]
    BY ListIs, AppendIsList
  <1> HIDE DEF m, a
  <1>3. h \in [1..m -> 1..n + 1]
    BY <1>1
  <1> DEFINE j == [i \in 1..m + 1 |-> IF i = m + 1 THEN n + 1 ELSE h[i]]
  <1>4. j \in [1..m + 1 -> 1..n + 1]
    BY <1>1, <1>2
  <1>5. IsInjective(j)
    <2> SUFFICES ASSUME NEW b \in 1..m + 1, NEW c \in 1..m + 1, j[b] = j[c] PROVE b = c
      BY Zenon DEF IsInjective
    <2>0. m \in Nat /\ j[b] = j[c]
      BY <1>2
    <2>1. \A x, y \in 1..m : h[x] = h[y] => x = y
      BY <1>1, Zenon DEF IsInjective
    <2>2. \A x \in 1..m : h[x] \in 1..n
      BY <1>1
    <2>3. (b = m + 1 \/ b \in 1..m) /\ (c = m + 1 \/ c \in 1..m)
      BY <1>2
    <2>4. j[b] = (IF b = m + 1 THEN n + 1 ELSE h[b]) /\ j[c] = (IF c = m + 1 THEN n + 1 ELSE h[c])
      BY Zenon
    <2> HIDE DEF j
    <2>8. \A x \in 1..m : x # m + 1 /\ h[x] # n + 1
      <3> TAKE x \in 1..m
      <3>1. h[x] \in 1..n
        BY <2>2
      <3>2. \A y \in 1..n : y # n + 1
        OBVIOUS
      <3>3. x # m + 1
        BY <2>0
      <3> QED BY <3>1, <3>2, <3>3, Zenon
    <2>5. CASE b = m + 1 /\ c \in 1..m
      BY <2>0, <2>4, <2>5, <2>8, Zenon
    <2>6. CASE c = m + 1 /\ b \in 1..m
      BY <2>0, <2>4, <2>6, <2>8, Zenon
    <2>7. CASE b \in 1..m /\ c \in 1..m
      BY <2>0, <2>1, <2>4, <2>7, <2>8, Zenon
    <2> QED BY <2>3, <2>5, <2>6, <2>7
  <1>6. \A i \in 1..m + 1 : a[i] = l[j[i]]
    BY <1>1, <1>2
  <1> HIDE DEF j
  <1>7. Within(a, l, n + 1)
    BY <1>2, <1>4, <1>5, <1>6 DEF Within
  <1>8. Within(k, l, n + 1)
    BY <1>1, <1>3 DEF Within, m
  <1> QED BY <1>7, <1>8 DEF a

\* Those is a part of the list, in its order, that only has elements of S.
LEMMA ThoseIsList ==
    ASSUME NEW l, NEW S, IsList(l)
    PROVE  /\ IsList(Those(l, S)) /\ Within(Those(l, S), l, Len(l))
           /\ Range(Those(l, S)) \subseteq Range(l) \cap S
  <1> DEFINE N == Len(l)
  <1>0. N \in Nat /\ \A i \in 1..N : l[i] \in Range(l)
    BY ListIs
  <1> DEFINE f == CHOOSE f : f = [i \in 0..N |->
                       IF i = 0 THEN <<>>
                       ELSE IF l[i] \in S THEN Append(f[i - 1], l[i]) ELSE f[i - 1]]
  <1>1. Those(l, S) = f[N]
    BY Zenon DEF Those
  <1>2. f = [i \in 0..N |-> IF i = 0 THEN <<>>
                 ELSE IF l[i] \in S THEN Append(f[i - 1], l[i]) ELSE f[i - 1]]
    <2>1. PICK g : IsThose(g, l, S, N)
      BY <1>0, ThoseExists
    <2>2. g = [i \in 0..N |-> IF i = 0 THEN <<>>
                 ELSE IF l[i] \in S THEN Append(g[i - 1], l[i]) ELSE g[i - 1]]
      BY <2>1 DEF IsThose
    <2> QED BY <2>2, Zenon
  <1> HIDE DEF f, N
  <1>3. \A i \in 0..N : f[i] = IF i = 0 THEN <<>>
                 ELSE IF l[i] \in S THEN Append(f[i - 1], l[i]) ELSE f[i - 1]
    BY <1>2, Zenon
  <1> DEFINE ok(n) == IsList(f[n]) /\ Within(f[n], l, n) /\ Range(f[n]) \subseteq Range(l) \cap S
             T == {n \in Nat : n <= N => ok(n)}
  <1>4. 0 \in T
    <2>1. f[0] = <<>>
      BY <1>0, <1>3
    <2>2. Within(<<>>, l, 0)
      <3>1. <<>> \in [1..Len(<<>>) -> 1..0] /\ IsInjective(<<>>)
        BY EmptyIsList DEF IsInjective
      <3>2. \A i \in 1..Len(<<>>) : <<>>[i] = l[<<>>[i]]
        BY EmptyIsList
      <3> QED BY <3>1, <3>2, Zenon DEF Within
    <2> QED BY <2>1, <2>2, EmptyIsList
  <1>5. ASSUME NEW n \in Nat, n \in T PROVE n + 1 \in T
    <2> SUFFICES ASSUME n + 1 <= N PROVE ok(n + 1)
      OBVIOUS
    <2>1. ok(n) /\ n + 1 \in 0..N /\ n + 1 # 0 /\ (n + 1) - 1 = n /\ n + 1 \in 1..N
      BY <1>0, <1>5
    <2>2. f[n + 1] = IF l[n + 1] \in S THEN Append(f[n], l[n + 1]) ELSE f[n]
      BY <1>3, <2>1
    <2>3. Within(f[n], l, n + 1) /\ Within(Append(f[n], l[n + 1]), l, n + 1)
      BY <2>1, WithinAppend
    <2>4. /\ IsList(Append(f[n], l[n + 1]))
          /\ Range(Append(f[n], l[n + 1])) \subseteq Range(f[n]) \cup {l[n + 1]}
      BY <2>1, AppendIsList
    <2>5. l[n + 1] \in Range(l)
      BY <1>0, <2>1
    <2>6. CASE l[n + 1] \in S
      BY <2>1, <2>2, <2>3, <2>4, <2>5, <2>6
    <2>7. CASE l[n + 1] \notin S
      BY <2>1, <2>2, <2>3, <2>7
    <2> QED BY <2>6, <2>7
  <1> HIDE DEF T
  <1>6. \A n \in Nat : n \in T
    BY <1>4, <1>5, Induct
  <1>7. ok(N)
    BY <1>0, <1>6 DEF T
  <1> QED BY <1>1, <1>7 DEF N

\* Joining a list of lists.
IsJoined(f, s, n) ==
    f = [i \in 0..n |-> IF i = 0 THEN <<>>
                        ELSE f[i - 1] \o s[i]]

\* That function exists.
LEMMA JoinedExists ==
    ASSUME NEW s
    PROVE  \A n \in Nat : \E f : IsJoined(f, s, n)
  <1> DEFINE T == {n \in Nat : \E f : IsJoined(f, s, n)}
             next(f, i) == IF i = 0 THEN <<>>
                           ELSE f[i - 1] \o s[i]
  <1>1. 0 \in T
    <2> DEFINE f == [i \in 0..0 |-> <<>>]
    <2>1. \A i \in 0..0 : next(f, i) = <<>>
      OBVIOUS
    <2>2. IsJoined(f, s, 0)
      BY <2>1, Zenon DEF IsJoined
    <2> QED BY <2>2
  <1>2. ASSUME NEW n \in Nat, n \in T PROVE n + 1 \in T
    <2>1. PICK f : IsJoined(f, s, n)
      BY <1>2
    <2> DEFINE h == [i \in 0..n + 1 |-> next(f, i)]
    <2>2. \A i \in 0..n : f[i] = next(f, i)
      BY <2>1, Zenon DEF IsJoined
    <2>3. \A i \in 0..n : h[i] = f[i]
      <3> TAKE i \in 0..n
      <3>1. i \in 0..n + 1
        OBVIOUS
      <3>2. h[i] = next(f, i)
        BY <3>1, Zenon
      <3> QED BY <2>2, <3>2, Zenon
    <2>4. \A i \in 0..n + 1 : i # 0 => h[i - 1] = f[i - 1]
      <3> TAKE i \in 0..n + 1
      <3> HAVE i # 0
      <3>1. i - 1 \in 0..n
        OBVIOUS
      <3> QED BY <2>3, <3>1, Zenon
    <2>5. IsJoined(h, s, n + 1)
      <3> HIDE DEF h
      <3>1. h = [i \in 0..n + 1 |-> next(f, i)]
        BY DEF h
      <3>2. \A i \in 0..n + 1 : next(f, i) = next(h, i)
        BY <2>4, Zenon
      <3> QED BY <3>1, <3>2, Zenon DEF IsJoined
    <2> QED BY <2>5
  <1> HIDE DEF T
  <1>3. \A n \in Nat : n \in T
    BY <1>1, <1>2, Induct
  <1> QED BY <1>3 DEF T

\* Lists joined make a list, of what they are made of.
LEMMA JoinedIsList ==
    ASSUME NEW s, IsList(s), NEW S, \A i \in 1..Len(s) : IsList(s[i]) /\ Range(s[i]) \subseteq S
    PROVE  IsList(Joined(s)) /\ Range(Joined(s)) \subseteq S
  <1> DEFINE N == Len(s)
             f == CHOOSE f : f = [i \in 0..N |-> IF i = 0 THEN <<>> ELSE f[i - 1] \o s[i]]
             ok(l) == IsList(l) /\ Range(l) \subseteq S
  <1>1. N \in Nat
    BY ListIs
  <1>2. Joined(s) = f[N]
    BY Zenon DEF Joined, Each
  <1>3. f = [i \in 0..N |-> IF i = 0 THEN <<>> ELSE f[i - 1] \o s[i]]
    <2>1. PICK r : IsJoined(r, s, N)
      BY <1>1, JoinedExists
    <2>2. r = [i \in 0..N |-> IF i = 0 THEN <<>> ELSE r[i - 1] \o s[i]]
      BY <2>1 DEF IsJoined
    <2> QED BY <2>2, Zenon
  <1> HIDE DEF f
  <1>4. \A i \in 0..N : f[i] = IF i = 0 THEN <<>> ELSE f[i - 1] \o s[i]
    BY <1>3, Zenon
  <1>5. ASSUME NEW l, ok(l), NEW m, ok(m) PROVE ok(l \o m)
    <2>1. IsList(l \o m) /\ Range(l \o m) \subseteq Range(l) \cup Range(m)
      BY <1>5, ConcatIsList
    <2> QED BY <1>5, <2>1, Zenon
  <1>6. ok(<<>>)
    BY EmptyIsList
  <1>7. \A i \in 1..N : ok(s[i])
    OBVIOUS
  <1> HIDE DEF ok, N
  <1> DEFINE T == {n \in Nat : n <= N => ok(f[n])}
  <1>8. 0 \in T
    BY <1>1, <1>4, <1>6
  <1>9. ASSUME NEW n \in Nat, n \in T PROVE n + 1 \in T
    <2> SUFFICES ASSUME n + 1 <= N PROVE ok(f[n + 1])
      OBVIOUS
    <2>1. n + 1 \in 0..N /\ n + 1 # 0 /\ (n + 1) - 1 = n /\ n <= N /\ n + 1 \in 1..N
      BY <1>1
    <2>2. f[n + 1] = f[n] \o s[n + 1]
      BY <1>4, <2>1
    <2>3. ok(f[n]) /\ ok(s[n + 1])
      BY <1>7, <1>9, <2>1
    <2> QED BY <1>5, <2>2, <2>3, Zenon
  <1> HIDE DEF T
  <1>10. \A n \in Nat : n \in T
    BY <1>8, <1>9, Induct
  <1>11. ok(f[N])
    BY <1>1, <1>10 DEF T
  <1> QED BY <1>2, <1>11, Zenon DEF ok

-----------------------------------------------------------------------------
(* The invariant.                                                          *)

AgentFields ==
    {"streams", "pruning_streams", "gathering_started", "gathering", "turn_servers",
     "local_candidates", "sockets", "turn_candidate", "selected", "lookups", "discovery_list",
     "discovery_unsched_items", "discovery_timer", "refresh_list", "close", "out", "failed",
     "orphaned", "early", "lapsed", "unreleased"}

ItemFields ==
    {"type", "nicesock", "stream_id", "server", "turn", "pending", "done", "msg", "open",
     "sends", "realm", "requests"}

RefreshFields ==
    {"id", "stream_id", "nicesock", "server", "realm", "requests", "msg", "open", "zero",
     "sends", "timer", "tick", "destroy", "disposing", "cb"}

LookupFields == {"type", "stream", "key", "counted", "cancelled"}

\* An item of the discovery list: it has a socket of a stream of the agent,
\* and when it is done it has been sent and no transaction of its is open.
IsItem(d, socks, streams) ==
    /\ DOMAIN d = ItemFields
    /\ d.pending \in BOOLEAN /\ d.done \in BOOLEAN /\ d.open \in BOOLEAN
    /\ d.sends \in 0..Transmissions
    /\ d.done => d.msg = None /\ ~d.open /\ d.pending
    /\ d.open => d.pending
    /\ d.nicesock \in socks /\ d.nicesock[2] = d.stream_id /\ d.stream_id \in streams

Itemized(l, socks, streams) == IsList(l) /\ \A d \in Range(l) : IsItem(d, socks, streams)

\* The items that have not been sent are counted, n at most.
Unsent(l) == {i \in DOMAIN l : ~l[i].pending}
Counted(l, n) == n \in Nat /\ Cardinality(Unsent(l)) <= n /\ (n > 0 => l # <<>>)

\* A timer that runs has items; without one all items are new.
Timed(timer, l, n) ==
    timer \in BOOLEAN /\ (timer => l # <<>>) /\ (~timer => Len(l) <= n)

\* A callback for a stream comes when the agent has it no more.
Callback(cb, streams) == cb[1] = "stream" => cb[2] \notin streams

\* A refresh, which may have been made just now,
AnyRefresh(r, streams) ==
    /\ DOMAIN r = RefreshFields
    /\ r.sends \in 0..Transmissions /\ r.zero \in BOOLEAN /\ r.disposing \in BOOLEAN
    /\ r.timer \in BOOLEAN /\ r.tick \in BOOLEAN
    /\ r.open => r.tick
    /\ r.disposing => Callback(r.cb, streams)

\* and what drives it.
OneTimer(r) ==
    /\ ~r.disposing => (r.timer \/ r.tick) /\ ~(r.timer /\ r.tick)
    /\ r.disposing => r.destroy \/ (r.tick /\ r.zero)

IsRefresh(r, streams) == AnyRefresh(r, streams) /\ OneTimer(r)

Refreshing(l, streams) == IsList(l) /\ \A r \in Range(l) : IsRefresh(r, streams)

\* The candidates of a stream have sockets of the stream.
Based(lc, socks, streams) ==
    /\ DOMAIN lc = Streams
    /\ \A s \in Streams : IsList(lc[s])
    /\ \A s \in streams : \A c \in Range(lc[s]) : c.base \in socks /\ c.base[2] = s

Served(ts) == DOMAIN ts = Streams /\ \A s \in Streams : IsList(ts[s])

IsLookup(l, names) ==
    /\ DOMAIN l = LookupFields /\ l.stream \in Streams
    /\ l.type = "TURN" => l.key[1] \in names

LookedUp(l, names) == IsList(l) /\ \A k \in Range(l) : IsLookup(k, names)

Nested(streams, pruning, started, gathering) ==
    /\ streams \subseteq Streams /\ pruning \subseteq Streams
    /\ gathering \subseteq started /\ started \subseteq streams

\* A record that a step goes through, and one that it leaves.
Sound(g) ==
    /\ DOMAIN g = AgentFields
    /\ Nested(g.streams, g.pruning_streams, g.gathering_started, g.gathering)
    /\ Based(g.local_candidates, g.sockets, g.streams)
    /\ Served(g.turn_servers)
    /\ LookedUp(g.lookups, DOMAIN sc.dns)
    /\ Itemized(g.discovery_list, g.sockets, g.streams)
    /\ Counted(g.discovery_list, g.discovery_unsched_items)
    /\ Timed(g.discovery_timer, g.discovery_list, g.discovery_unsched_items)
    /\ Refreshing(g.refresh_list, g.streams)
    /\ g.close \in {"open", "pending", "done"} /\ g.failed \subseteq {"stream of a lookup"}

Whole(g) == Sound(g) /\ (~g.discovery_timer => g.discovery_list = <<>>)

GatheringInv ==
    /\ sc \in Scenarios
    /\ IsList(calls) /\ Range(calls) \subseteq Range(sc.calls)
    /\ Whole(agent) /\ agent.out = {}
    /\ faults \in 0..sc.faults /\ refreshes \in 0..sc.refreshes

-----------------------------------------------------------------------------
(* Counting.                                                               *)

\* The unsent items of a list can be counted.
LEMMA UnsentFinite ==
    ASSUME NEW l, IsList(l)
    PROVE  /\ Unsent(l) \subseteq 1..Len(l) /\ IsFiniteSet(Unsent(l))
           /\ Cardinality(Unsent(l)) \in Nat
  <1>1. Len(l) \in Nat /\ DOMAIN l = 1..Len(l)
    BY ListIs
  <1>2. IsFiniteSet(1..Len(l))
    BY <1>1, FS_Interval
  <1>3. Unsent(l) \subseteq 1..Len(l)
    BY <1>1, Zenon DEF Unsent
  <1> QED BY <1>2, <1>3, FS_Subset, FS_CardinalityType

\* At most n more.
LEMMA AtMost ==
    ASSUME NEW A, NEW B, NEW C, IsFiniteSet(A), IsFiniteSet(B), C \subseteq A \cup B
    PROVE  /\ IsFiniteSet(C) /\ Cardinality(C) <= Cardinality(A) + Cardinality(B)
           /\ Cardinality(A) \in Nat /\ Cardinality(B) \in Nat /\ Cardinality(C) \in Nat
  <1>1. IsFiniteSet(A \cup B) /\ IsFiniteSet(A \cap B)
    BY FS_Union, FS_Intersection
  <1>2. Cardinality(A \cup B) = Cardinality(A) + Cardinality(B) - Cardinality(A \cap B)
    BY FS_Union
  <1>3. IsFiniteSet(C) /\ Cardinality(C) <= Cardinality(A \cup B)
    BY <1>1, FS_Subset
  <1>4. /\ Cardinality(A) \in Nat /\ Cardinality(B) \in Nat /\ Cardinality(C) \in Nat
        /\ Cardinality(A \cap B) \in Nat /\ Cardinality(A \cup B) \in Nat
    BY <1>1, <1>3, FS_CardinalityType
  <1> QED BY <1>2, <1>3, <1>4

\* Joining adds at most as many unsent items as there are new ones.
LEMMA UnsentConcat ==
    ASSUME NEW l, NEW m, IsList(l), IsList(m)
    PROVE  Cardinality(Unsent(l \o m)) <= Cardinality(Unsent(l)) + Len(m)
  <1> DEFINE B == Len(l) + 1 .. Len(l) + Len(m)
             k == l \o m
  <1>1. Len(l) \in Nat /\ Len(m) \in Nat /\ DOMAIN l = 1..Len(l)
    BY ListIs
  <1>2. IsFiniteSet(B) /\ Cardinality(B) = Len(m)
    <2>1. ASSUME NEW a \in Nat, NEW b \in Nat
          PROVE  IsFiniteSet(a + 1 .. a + b) /\ Cardinality(a + 1 .. a + b) = b
      <3>1. a + 1 \in Int /\ a + b \in Int
        OBVIOUS
      <3>2. /\ IsFiniteSet(a + 1 .. a + b)
            /\ Cardinality(a + 1 .. a + b) = IF a + 1 > a + b THEN 0 ELSE (a + b) - (a + 1) + 1
        BY <3>1, FS_Interval, Zenon
      <3> QED BY <3>2
    <2> QED BY <1>1, <2>1
  <1>3. /\ IsList(k) /\ Len(k) = Len(l) + Len(m)
        /\ \A i \in 1..Len(k) : k[i] = IF i <= Len(l) THEN l[i] ELSE m[i - Len(l)]
    BY ConcatIsList
  <1> HIDE DEF k
  <1>4. \A i \in Unsent(k) : i \in Unsent(l) \/ i \in B
    <2> TAKE i \in Unsent(k)
    <2>1. i \in 1..Len(k) /\ ~k[i].pending
      BY <1>3, ListIs, Zenon DEF Unsent
    <2>2. CASE i <= Len(l)
      <3>1. k[i] = l[i] /\ i \in DOMAIN l
        BY <1>1, <1>3, <2>1, <2>2
      <3> QED BY <2>1, <3>1, Zenon DEF Unsent
    <2>3. CASE ~(i <= Len(l))
      BY <1>1, <1>3, <2>1, <2>3
    <2> QED BY <2>2, <2>3
  <1> HIDE DEF B
  <1>5. Unsent(k) \subseteq Unsent(l) \cup B
    BY <1>4, Zenon
  <1>6. Cardinality(Unsent(k)) <= Cardinality(Unsent(l)) + Cardinality(B)
    BY <1>2, <1>5, UnsentFinite, AtMost
  <1> QED BY <1>2, <1>6 DEF k

\* Fewer items have fewer that were not sent.
LEMMA UnsentWithin ==
    ASSUME NEW k, NEW l, IsList(k), IsList(l), Within(k, l, Len(l))
    PROVE  Cardinality(Unsent(k)) <= Cardinality(Unsent(l))
  <1>1. PICK h \in [1..Len(k) -> 1..Len(l)] :
            IsInjective(h) /\ \A i \in 1..Len(k) : k[i] = l[h[i]]
    BY DEF Within
  <1>2. DOMAIN l = 1..Len(l) /\ DOMAIN k = 1..Len(k) /\ DOMAIN h = 1..Len(k)
    BY <1>1, ListIs
  <1> DEFINE f == [i \in Unsent(k) |-> h[i]]
  <1>3. f \in [Unsent(k) -> Unsent(l)]
    BY <1>1, <1>2, Zenon DEF Unsent
  <1>4. IsInjective(f)
    BY <1>1, <1>2, Zenon DEF IsInjective, Unsent
  <1>5. f \in Injection(Unsent(k), Unsent(l))
    BY <1>3, <1>4, Zenon DEF Injection
  <1> QED BY <1>5, UnsentFinite, FS_Injection

\* Writing one item.
LEMMA UnsentWritten ==
    ASSUME NEW l, IsList(l), NEW i \in 1..Len(l), NEW x
    PROVE  /\ Cardinality(Unsent(Written(l, i, x))) <= Cardinality(Unsent(l)) + 1
           /\ x.pending => Cardinality(Unsent(Written(l, i, x))) <= Cardinality(Unsent(l))
           /\ x.pending /\ ~l[i].pending =>
                Cardinality(Unsent(Written(l, i, x))) <= Cardinality(Unsent(l)) - 1
           /\ l[i].pending = x.pending =>
                Cardinality(Unsent(Written(l, i, x))) <= Cardinality(Unsent(l))
  <1> DEFINE k == Written(l, i, x)
             n == Len(l)
  <1>1. IsList(k) /\ Len(k) = n /\ \A j \in 1..n : k[j] = IF j = i THEN x ELSE l[j]
    BY WrittenIsList
  <1>2. DOMAIN l = 1..n /\ DOMAIN k = 1..n
    BY <1>1, ListIs, Zenon
  <1> HIDE DEF k, n
  <1>3. i \in 1..n
    BY DEF n
  <1>4. Unsent(k) \subseteq Unsent(l) \cup {i}
    BY <1>1, <1>2, Zenon DEF Unsent
  <1>5. x.pending => Unsent(k) \subseteq Unsent(l) \ {i}
    BY <1>1, <1>2, <1>3, Zenon DEF Unsent
  <1>6. l[i].pending = x.pending => Unsent(k) = Unsent(l)
    BY <1>1, <1>2, <1>3, Zenon DEF Unsent
  <1>7. ~l[i].pending => i \in Unsent(l)
    BY <1>2, <1>3, Zenon DEF Unsent
  <1>8. IsFiniteSet(Unsent(l)) /\ Cardinality(Unsent(l)) \in Nat /\ Cardinality(Unsent(k)) \in Nat
    BY <1>1, UnsentFinite
  <1>9. Cardinality(Unsent(k)) <= Cardinality(Unsent(l)) + 1
    <2>1. IsFiniteSet({i}) /\ Cardinality({i}) = 1
      BY FS_Singleton
    <2> QED BY <1>4, <1>8, <2>1, AtMost
  <1>10. ASSUME x.pending
         PROVE  /\ Cardinality(Unsent(k)) <= Cardinality(Unsent(l))
                /\ ~l[i].pending => Cardinality(Unsent(k)) <= Cardinality(Unsent(l)) - 1
    <2>1. Cardinality(Unsent(k)) <= Cardinality(Unsent(l) \ {i})
      <3>1. IsFiniteSet(Unsent(l) \ {i})
        BY <1>8, FS_Subset
      <3> QED BY <1>5, <1>10, <3>1, FS_Subset
    <2>2. /\ Cardinality(Unsent(l) \ {i}) =
               IF i \in Unsent(l) THEN Cardinality(Unsent(l)) - 1 ELSE Cardinality(Unsent(l))
      BY <1>8, FS_RemoveElement
    <2> QED BY <1>7, <1>8, <2>1, <2>2
  <1> QED BY <1>6, <1>8, <1>9, <1>10 DEF k

-----------------------------------------------------------------------------
(* The discovery list.                                                     *)

\* What the operators on the discovery list do not touch.
Elsewhere(h, g) ==
    /\ DOMAIN h = AgentFields
    /\ h.streams = g.streams /\ h.pruning_streams = g.pruning_streams
    /\ h.gathering_started = g.gathering_started /\ h.gathering \subseteq g.gathering
    /\ h.local_candidates = g.local_candidates /\ h.sockets = g.sockets
    /\ h.turn_servers = g.turn_servers /\ h.lookups = g.lookups
    /\ h.refresh_list = g.refresh_list /\ h.close = g.close /\ h.failed = g.failed

Discovering(h) ==
    /\ Itemized(h.discovery_list, h.sockets, h.streams)
    /\ Counted(h.discovery_list, h.discovery_unsched_items)
    /\ Timed(h.discovery_timer, h.discovery_list, h.discovery_unsched_items)

SameDiscovery(h, g) ==
    /\ h.discovery_list = g.discovery_list /\ h.discovery_timer = g.discovery_timer
    /\ h.discovery_unsched_items = g.discovery_unsched_items

\* An operator that only changes the discovery list has only that to answer
\* for.
LEMMA ElsewhereSound ==
    ASSUME NEW g, Sound(g), NEW h, Elsewhere(h, g), Discovering(h)
    PROVE  Sound(h)
  <1>1. Nested(h.streams, h.pruning_streams, h.gathering_started, h.gathering)
    BY Zenon DEF Sound, Elsewhere, Nested
  <1> QED BY <1>1, Zenon DEF Sound, Elsewhere, Discovering

\* Such operators compose.
LEMMA ElsewhereThrough ==
    ASSUME NEW f, NEW g, NEW h, Elsewhere(g, f), Elsewhere(h, g)
    PROVE  Elsewhere(h, f)
  BY Zenon DEF Elsewhere

\* Nothing of the discovery is touched.
LEMMA SameSound ==
    ASSUME NEW g, Sound(g), NEW h, Elsewhere(h, g), SameDiscovery(h, g)
    PROVE  Sound(h) /\ (Whole(g) => Whole(h))
  <1>1. Discovering(h)
    BY Zenon DEF Sound, Elsewhere, Discovering, SameDiscovery
  <1>2. Sound(h)
    BY <1>1, ElsewhereSound
  <1> QED BY <1>2, Zenon DEF Whole, SameDiscovery

\* New items are counted: the record stays sound, if not whole, without a
\* timer.
LEMMA AddDiscoverySound ==
    ASSUME NEW g, Sound(g), NEW items, Itemized(items, g.sockets, g.streams)
    PROVE  /\ Sound(AddDiscovery(g, items)) /\ Elsewhere(AddDiscovery(g, items), g)
           /\ AddDiscovery(g, items).discovery_timer = g.discovery_timer
           /\ AddDiscovery(g, items).discovery_list = g.discovery_list \o items
  <1> DEFINE h == AddDiscovery(g, items)
             l == g.discovery_list
             n == g.discovery_unsched_items
  <1>1. /\ Elsewhere(h, g) /\ h.discovery_timer = g.discovery_timer
        /\ h.discovery_list = l \o items /\ h.discovery_unsched_items = n + Len(items)
    BY DEF AddDiscovery, Sound, AgentFields, Elsewhere
  <1>2. /\ IsList(l) /\ IsList(items) /\ \A d \in Range(items) : IsItem(d, g.sockets, g.streams)
        /\ \A d \in Range(l) : IsItem(d, g.sockets, g.streams)
    BY Zenon DEF Sound, Itemized
  <1>3. Counted(l, n) /\ Timed(g.discovery_timer, l, n)
    BY Zenon DEF Sound
  <1> HIDE DEF h, l, n
  <1> DEFINE k == l \o items
             u == Cardinality(Unsent(k))
             v == Cardinality(Unsent(l))
  <1>4. /\ IsList(k) /\ Range(k) \subseteq Range(l) \cup Range(items) /\ u <= v + Len(items)
        /\ Len(k) = Len(l) + Len(items)
    BY <1>2, ConcatIsList, UnsentConcat
  <1>5. u \in Nat /\ v \in Nat /\ Len(items) \in Nat /\ Len(l) \in Nat
    BY <1>2, <1>4, UnsentFinite, ListIs
  <1>6. k = <<>> => Len(l) = 0 /\ Len(items) = 0 /\ l = <<>>
    BY <1>2, <1>4, <1>5, EmptyIsList
  <1> HIDE DEF k, u, v
  <1>7. Itemized(k, g.sockets, g.streams)
    BY <1>2, <1>4, Zenon DEF Itemized
  <1>8. Counted(k, n + Len(items))
    <2>1. n \in Nat /\ v <= n /\ (n > 0 => l # <<>>)
      BY <1>3 DEF Counted, v
    <2>2. u <= n + Len(items) /\ n + Len(items) \in Nat
      BY <1>4, <1>5, <2>1
    <2>3. n + Len(items) > 0 => k # <<>>
      BY <1>5, <1>6, <2>1
    <2> QED BY <2>2, <2>3 DEF Counted, u
  <1>9. Timed(g.discovery_timer, k, n + Len(items))
    <2>1. n \in Nat
      BY <1>3 DEF Counted
    <2> QED BY <1>3, <1>4, <1>5, <1>6, <2>1 DEF Timed
  <1>10. Discovering(h)
    BY <1>1, <1>7, <1>8, <1>9, Zenon DEF Discovering, Elsewhere, k
  <1>11. Sound(h)
    BY <1>1, <1>10, ElsewhereSound
  <1> QED BY <1>1, <1>11 DEF h, l

\* Without items there is nothing to count and nothing to time.
LEMMA EmptyDiscovery ==
    ASSUME NEW socks, NEW streams
    PROVE  Itemized(<<>>, socks, streams) /\ Counted(<<>>, 0) /\ Timed(FALSE, <<>>, 0)
  <1>1. Unsent(<<>>) = {}
    BY DEF Unsent
  <1>2. Cardinality(Unsent(<<>>)) = 0
    BY <1>1, FS_EmptySet
  <1> QED BY <1>2, EmptyIsList DEF Itemized, Counted, Timed

\* discovery_free leaves no item, no count and no timer.
LEMMA DiscoveryFreeWhole ==
    ASSUME NEW g, Sound(g)
    PROVE  /\ Whole(DiscoveryFree(g)) /\ Elsewhere(DiscoveryFree(g), g)
           /\ DiscoveryFree(g).discovery_list = <<>>
  <1> DEFINE h == DiscoveryFree(g)
  <1>1. /\ Elsewhere(h, g) /\ h.discovery_timer = FALSE
        /\ h.discovery_list = <<>> /\ h.discovery_unsched_items = 0
    BY DEF DiscoveryFree, Sound, AgentFields, Elsewhere
  <1> HIDE DEF h
  <1>2. Discovering(h)
    BY <1>1, EmptyDiscovery, Zenon DEF Discovering
  <1>3. Sound(h)
    BY <1>1, <1>2, ElsewhereSound
  <1> QED BY <1>1, <1>3 DEF Whole, h

\* What a way out remembers is no concern of the invariant's.
LEMMA WayOutSound ==
    ASSUME NEW g, Sound(g)
    PROVE  /\ Sound(WayOut(g)) /\ (Whole(g) => Whole(WayOut(g)))
           /\ Elsewhere(WayOut(g), g) /\ SameDiscovery(WayOut(g), g)
  <1>1. Elsewhere(WayOut(g), g) /\ SameDiscovery(WayOut(g), g)
    BY DEF WayOut, Sound, AgentFields, Elsewhere, SameDiscovery
  <1> QED BY <1>1, SameSound, Zenon

\* agent_gathering_done ends the gathering and leaves the list alone.
LEMMA GatheringDoneSound ==
    ASSUME NEW g, Sound(g)
    PROVE  /\ Sound(GatheringDone(g)) /\ (Whole(g) => Whole(GatheringDone(g)))
           /\ Elsewhere(GatheringDone(g), g) /\ SameDiscovery(GatheringDone(g), g)
  <1> DEFINE early == g.early \cup {l.stream : l \in {k \in StunResolvingList(g) :
                                                         k.stream \in g.gathering}}
             h == [g EXCEPT !.gathering = {}, !.early = early]
  <1> HIDE DEF early
  <1>1. Elsewhere(g, g) /\ SameDiscovery(g, g) /\ Elsewhere(h, g) /\ SameDiscovery(h, g)
    BY DEF Sound, AgentFields, Elsewhere, SameDiscovery
  <1> HIDE DEF h
  <1>2. DOMAIN g = AgentFields
    BY DEF Sound
  <1>3. GatheringDone(g) = g \/ GatheringDone(g) = h
    BY <1>2, Zenon DEF GatheringDone, h, early
  <1>4. Elsewhere(GatheringDone(g), g) /\ SameDiscovery(GatheringDone(g), g)
    BY <1>1, <1>3, Zenon
  <1> QED BY <1>4, SameSound, Zenon

\* A list that is not empty has a first element.
LEMMA NoElements ==
    ASSUME NEW l, IsList(l), l # <<>>
    PROVE  Len(l) \in Nat /\ Len(l) > 0 /\ l[1] \in Range(l)
  <1>1. Len(l) \in Nat /\ Len(l) # 0 /\ \A i \in 1..Len(l) : l[i] \in Range(l)
    BY ListIs, EmptyIsList
  <1> QED BY <1>1

\* Whoever is left after a pruning has the timer, and no socket of those.
LEMMA DiscoveryPruneWhole ==
    ASSUME NEW g, Sound(g), NEW socks,
           g.discovery_timer \/ \A d \in Range(g.discovery_list) : d.nicesock \in socks
    PROVE  /\ Whole(DiscoveryPrune(g, socks)) /\ Elsewhere(DiscoveryPrune(g, socks), g)
           /\ \A d \in Range(DiscoveryPrune(g, socks).discovery_list) : d.nicesock \notin socks
  <1> DEFINE l == g.discovery_list
             kept == {d \in Range(l) : d.nicesock \notin socks}
             rest == Those(l, kept)
             h == [g EXCEPT !.discovery_list = rest]
             n == g.discovery_unsched_items
  <1>1. /\ IsList(l) /\ (\A d \in Range(l) : IsItem(d, g.sockets, g.streams))
        /\ Counted(l, n) /\ DOMAIN g = AgentFields /\ Timed(g.discovery_timer, l, n)
    BY Zenon DEF Sound, Itemized
  <1>2. IsList(rest) /\ Within(rest, l, Len(l)) /\ Range(rest) \subseteq Range(l) \cap kept
    BY <1>1, ThoseIsList
  <1>3. CASE rest # <<>>
    <2>1. DiscoveryPrune(g, socks) = h
      BY <1>3, Zenon DEF DiscoveryPrune
    <2> HIDE DEF rest
    <2>2. /\ Elsewhere(h, g) /\ h.discovery_list = rest /\ h.discovery_unsched_items = n
          /\ h.discovery_timer = g.discovery_timer
      BY <1>1 DEF AgentFields, Elsewhere
    <2> HIDE DEF h, n
    <2>3. rest[1] \in Range(rest)
      BY <1>2, <1>3, NoElements
    <2>4. g.discovery_timer /\ g.discovery_timer \in BOOLEAN
      BY <1>1, <1>2, <2>3, Zenon DEF Timed
    <2>5. Itemized(rest, g.sockets, g.streams)
      BY <1>1, <1>2, Zenon DEF Itemized
    <2>6. Counted(rest, n)
      <3>1. Cardinality(Unsent(rest)) <= Cardinality(Unsent(l))
        BY <1>1, <1>2, UnsentWithin
      <3>2. Cardinality(Unsent(rest)) \in Nat /\ Cardinality(Unsent(l)) \in Nat
        BY <1>1, <1>2, UnsentFinite
      <3> QED BY <1>1, <1>3, <3>1, <3>2 DEF Counted
    <2>7. Timed(g.discovery_timer, rest, n)
      BY <1>3, <2>4, Zenon DEF Timed
    <2>8. Discovering(h)
      BY <2>2, <2>5, <2>6, <2>7, Zenon DEF Discovering, Elsewhere
    <2>9. Sound(h)
      BY <2>2, <2>8, ElsewhereSound
    <2>10. \A d \in Range(rest) : d.nicesock \notin socks
      BY <1>2, Zenon
    <2> QED BY <2>1, <2>2, <2>4, <2>9, <2>10, Zenon DEF Whole
  <1>4. CASE rest = <<>>
    <2>1. DiscoveryPrune(g, socks) = WayOut(DiscoveryFree(g))
      BY <1>4, Zenon DEF DiscoveryPrune
    <2> DEFINE f == DiscoveryFree(g)
               w == WayOut(f)
    <2>2. Whole(f) /\ Elsewhere(f, g) /\ f.discovery_list = <<>>
      BY DiscoveryFreeWhole, Zenon
    <2>3. Sound(f)
      BY <2>2 DEF Whole
    <2> HIDE DEF f
    <2>4. Whole(w) /\ Elsewhere(w, f) /\ SameDiscovery(w, f)
      BY <2>2, <2>3, WayOutSound, Zenon
    <2> HIDE DEF w
    <2>5. Elsewhere(w, g)
      BY <2>2, <2>4, ElsewhereThrough
    <2>6. Range(w.discovery_list) = {}
      BY <2>2, <2>4, EmptyIsList, Zenon DEF SameDiscovery
    <2> QED BY <2>1, <2>4, <2>5, <2>6, Zenon DEF w, f
  <1> QED BY <1>3, <1>4

-----------------------------------------------------------------------------
(* The tick.                                                               *)

\* Writing an item that has been sent.
LEMMA WrittenItem ==
    ASSUME NEW l, NEW n, NEW socks, NEW streams, Itemized(l, socks, streams), Counted(l, n),
           NEW i \in 1..Len(l), NEW e, IsItem(e, socks, streams)
    PROVE  /\ Itemized(Written(l, i, e), socks, streams)
           /\ Len(Written(l, i, e)) = Len(l) /\ Written(l, i, e) # <<>> /\ n \in Nat
           /\ e.pending => Counted(Written(l, i, e), n)
           /\ e.pending /\ ~l[i].pending => Counted(Written(l, i, e), IF n > 0 THEN n - 1 ELSE 0)
           /\ Counted(Written(l, i, e), n + 1)
  <1> DEFINE k == Written(l, i, e)
             u == Cardinality(Unsent(l))
             v == Cardinality(Unsent(k))
  <1>1. IsList(l) /\ \A d \in Range(l) : IsItem(d, socks, streams)
    BY Zenon DEF Itemized
  <1>2. IsList(k) /\ Len(k) = Len(l) /\ Range(k) \subseteq Range(l) \cup {e} /\ Len(l) \in Nat
    BY <1>1, WrittenIsList, ListIs
  <1>3. Itemized(k, socks, streams)
    BY <1>1, <1>2, Zenon DEF Itemized
  <1>4. k # <<>>
    BY <1>2, EmptyIsList
  <1>5. n \in Nat /\ u <= n /\ u \in Nat /\ v \in Nat
    BY <1>1, <1>2, UnsentFinite DEF Counted
  <1>6. /\ v <= u + 1 /\ (e.pending => v <= u)
        /\ e.pending /\ ~l[i].pending => v <= u - 1
    BY <1>1, UnsentWritten
  <1> HIDE DEF k, u
  <1>7. \A m \in Nat : v <= m => Counted(k, m)
    BY <1>4 DEF Counted
  <1> HIDE DEF v
  <1>8. /\ e.pending => Counted(k, n)
        /\ e.pending /\ ~l[i].pending => Counted(k, IF n > 0 THEN n - 1 ELSE 0)
        /\ Counted(k, n + 1)
    BY <1>5, <1>6, <1>7
  <1> QED BY <1>2, <1>3, <1>4, <1>5, <1>8 DEF k

\* What the loop of the tick keeps.
TickFields == {"g", "not_done", "pacing"}

Tick(st, g) ==
    /\ DOMAIN st = TickFields /\ Elsewhere(st.g, g)
    /\ Itemized(st.g.discovery_list, g.sockets, g.streams)
    /\ Counted(st.g.discovery_list, st.g.discovery_unsched_items)
    /\ Len(st.g.discovery_list) = Len(g.discovery_list)

\* What an item becomes.
LEMMA TickedItem ==
    ASSUME NEW d, NEW socks, NEW streams, IsItem(d, socks, streams), NEW m
    PROVE  /\ IsItem([d EXCEPT !.pending = TRUE, !.done = TRUE, !.msg = None, !.open = FALSE],
                     socks, streams)
           /\ ~d.pending => IsItem([d EXCEPT !.pending = TRUE, !.sends = 1, !.open = TRUE,
                                             !.requests = @ + 1, !.msg = m], socks, streams)
           /\ d.pending /\ d.sends # Transmissions =>
                IsItem([d EXCEPT !.sends = @ + 1], socks, streams)
  <1>1. Transmissions \in Nat \ {0}
    BY GatheringAssumption
  <1>2. DOMAIN d = ItemFields
    BY DEF IsItem
  <1>3. IsItem([d EXCEPT !.pending = TRUE, !.done = TRUE, !.msg = None, !.open = FALSE],
               socks, streams)
    BY DEF IsItem, ItemFields
  <1>4. ASSUME ~d.pending
        PROVE  IsItem([d EXCEPT !.pending = TRUE, !.sends = 1, !.open = TRUE,
                                !.requests = @ + 1, !.msg = m], socks, streams)
    <2> DEFINE e == [d EXCEPT !.pending = TRUE, !.sends = 1, !.open = TRUE,
                              !.requests = @ + 1, !.msg = m]
    <2>1. /\ DOMAIN e = ItemFields /\ e.pending = TRUE /\ e.sends = 1 /\ e.open = TRUE
          /\ e.done = d.done /\ e.nicesock = d.nicesock /\ e.stream_id = d.stream_id
      BY <1>2 DEF ItemFields
    <2> HIDE DEF e
    <2>2. d.done = FALSE
      BY <1>4, Zenon DEF IsItem
    <2>3. 1 \in 0..Transmissions
      BY <1>1
    <2>4. IsItem(e, socks, streams)
      BY <2>1, <2>2, <2>3, Zenon DEF IsItem
    <2> QED BY <2>4 DEF e
  <1>5. ASSUME d.sends # Transmissions
        PROVE  IsItem([d EXCEPT !.sends = @ + 1], socks, streams)
    <2> DEFINE e == [d EXCEPT !.sends = @ + 1]
    <2>1. /\ DOMAIN e = ItemFields /\ e.sends = d.sends + 1 /\ e.pending = d.pending
          /\ e.open = d.open /\ e.msg = d.msg
          /\ e.done = d.done /\ e.nicesock = d.nicesock /\ e.stream_id = d.stream_id
      BY <1>2 DEF ItemFields
    <2> HIDE DEF e
    <2>2. d.sends + 1 \in 0..Transmissions
      <3>1. d.sends \in 0..Transmissions
        BY DEF IsItem
      <3> QED BY <1>1, <1>5, <3>1
    <2>3. IsItem(e, socks, streams)
      BY <2>1, <2>2, Zenon DEF IsItem
    <2> QED BY <2>3 DEF e
  <1> QED BY <1>3, <1>4, <1>5

\* One round of the loop of the tick keeps the list itemized and counted.
LEMMA TickItemKeeps ==
    ASSUME NEW g, NEW st, Tick(st, g), NEW i \in 1..Len(g.discovery_list), NEW due
    PROVE  Tick(TickItem(st, i, due), g)
  <1> DEFINE f == st.g
             l == f.discovery_list
             n == f.discovery_unsched_items
             d == l[i]
             set(e) == [f EXCEPT !.discovery_list[i] = e]
             started == [d EXCEPT !.pending = TRUE, !.sends = 1, !.open = TRUE,
                                  !.requests = @ + 1,
                                  !.msg = <<"discovery", Id(d), d.requests>>]
             ended == [d EXCEPT !.pending = TRUE, !.done = TRUE, !.msg = None, !.open = FALSE]
             repeated == [d EXCEPT !.sends = @ + 1]
             counted(e) == [set(e) EXCEPT
                              !.discovery_unsched_items = IF @ > 0 THEN @ - 1 ELSE 0]
             sent(h, e) == [h EXCEPT !.out = @ \cup {DiscoveryRequest(e)}]
             m == IF n > 0 THEN n - 1 ELSE 0
  <1>1. /\ DOMAIN st = TickFields /\ Elsewhere(f, g) /\ DOMAIN f = AgentFields
        /\ Itemized(l, g.sockets, g.streams) /\ Counted(l, n) /\ Len(l) = Len(g.discovery_list)
    BY Zenon DEF Tick, Elsewhere
  <1>2. i \in 1..Len(l) /\ i \in DOMAIN l /\ d \in Range(l)
    <2>1. IsList(l) /\ i \in 1..Len(l)
      BY <1>1, Zenon DEF Itemized
    <2> QED BY <2>1, ListIs, Zenon
  <1>3. IsItem(d, g.sockets, g.streams)
    BY <1>1, <1>2, Zenon DEF Itemized
  <1> DEFINE good(h, e, k) == /\ Elsewhere(h, g) /\ h.discovery_list = Written(l, i, e)
                              /\ h.discovery_unsched_items = k
  <1>4. \A e : good(set(e), e, n) /\ DOMAIN set(e) = AgentFields
    BY <1>1 DEF AgentFields, Elsewhere, Written
  <1>5. \A e : good(counted(e), e, m) /\ DOMAIN counted(e) = AgentFields
    <2> TAKE e
    <2> DEFINE h == set(e)
    <2>1. good(h, e, n) /\ DOMAIN h = AgentFields
      BY <1>4
    <2> HIDE DEF h
    <2>2. [h EXCEPT !.discovery_unsched_items = IF @ > 0 THEN @ - 1 ELSE 0]
             = [h EXCEPT !.discovery_unsched_items = m]
      BY <2>1
    <2> HIDE DEF m
    <2>3. /\ good([h EXCEPT !.discovery_unsched_items = m], e, m)
          /\ DOMAIN [h EXCEPT !.discovery_unsched_items = m] = AgentFields
      BY <2>1 DEF AgentFields, Elsewhere
    <2> QED BY <2>2, <2>3 DEF h
  <1>6. \A h, e, k, o : good(h, e, k) => good(sent(h, o), e, k)
    BY DEF AgentFields, Elsewhere
  <1>7. /\ IsItem(ended, g.sockets, g.streams) /\ ended.pending
        /\ ~d.pending => IsItem(started, g.sockets, g.streams) /\ started.pending
        /\ d.pending /\ d.sends # Transmissions =>
              IsItem(repeated, g.sockets, g.streams) /\ repeated.pending
    <2>1. DOMAIN d = ItemFields
      BY <1>3 DEF IsItem
    <2>2. ended.pending /\ started.pending /\ repeated.pending = d.pending
      BY <2>1 DEF ItemFields
    <2>3. /\ IsItem(ended, g.sockets, g.streams)
          /\ ~d.pending => IsItem(started, g.sockets, g.streams)
          /\ d.pending /\ d.sends # Transmissions => IsItem(repeated, g.sockets, g.streams)
      BY <1>3, TickedItem, Zenon
    <2> QED BY <2>2, <2>3, Zenon
  <1> HIDE DEF f, l, n, d, m, set, started, ended, repeated, counted
  <1>8. \A e, h : /\ IsItem(e, g.sockets, g.streams) /\ e.pending
                  /\ good(h, e, n) \/ (good(h, e, m) /\ ~d.pending)
                  => /\ Elsewhere(h, g) /\ Itemized(h.discovery_list, g.sockets, g.streams)
                     /\ Counted(h.discovery_list, h.discovery_unsched_items)
                     /\ Len(h.discovery_list) = Len(g.discovery_list)
    <2> TAKE e, h
    <2>1. ASSUME IsItem(e, g.sockets, g.streams), e.pending
          PROVE  /\ Itemized(Written(l, i, e), g.sockets, g.streams)
                 /\ Len(Written(l, i, e)) = Len(g.discovery_list)
                 /\ Counted(Written(l, i, e), n)
                 /\ ~d.pending => Counted(Written(l, i, e), m)
      BY <1>1, <1>2, <2>1, WrittenItem DEF d, m
    <2> QED BY <2>1, Zenon
  <1> HIDE DEF good, sent
  <1> DEFINE ok(h) == /\ Elsewhere(h, g) /\ Itemized(h.discovery_list, g.sockets, g.streams)
                      /\ Counted(h.discovery_list, h.discovery_unsched_items)
                      /\ Len(h.discovery_list) = Len(g.discovery_list)
  <1>9. \A h, a, b : ok(h) => Tick([g |-> h, not_done |-> a, pacing |-> b], g)
    <2> TAKE h, a, b
    <2> HIDE DEF ok
    <2> DEFINE r == [g |-> h, not_done |-> a, pacing |-> b]
    <2>1. DOMAIN r = TickFields /\ r.g = h
      BY DEF TickFields
    <2> HIDE DEF r
    <2>2. ok(h) => Tick(r, g)
      BY <2>1, Zenon DEF Tick, ok
    <2> QED BY <2>2 DEF r
  <1>10. \A h : ok(h) => Tick([st EXCEPT !.g = h], g)
    <2> TAKE h
    <2> HIDE DEF ok
    <2> DEFINE r == [st EXCEPT !.g = h]
    <2>1. DOMAIN r = TickFields /\ r.g = h
      BY <1>1 DEF TickFields
    <2> HIDE DEF r
    <2>2. ok(h) => Tick(r, g)
      BY <2>1, Zenon DEF Tick, ok
    <2> QED BY <2>2 DEF r
  <1>11. Tick([st EXCEPT !.not_done = TRUE], g)
    <2> DEFINE r == [st EXCEPT !.not_done = TRUE]
    <2>1. DOMAIN r = TickFields /\ r.g = st.g
      BY <1>1 DEF TickFields
    <2> HIDE DEF r
    <2>2. Tick(r, g)
      BY <2>1, Zenon DEF Tick
    <2> QED BY <2>2 DEF r
  <1> HIDE DEF ok
  <1>12. CASE st.pacing \/ (d.pending /\ d.done)
    <2>1. TickItem(st, i, due) = st
      BY <1>12, Zenon DEF TickItem, d, l, f
    <2> QED BY <2>1
  <1>13. CASE ~(st.pacing \/ (d.pending /\ d.done)) /\ ~d.pending /\ d.server \in sc.unreachable
    <2>1. TickItem(st, i, due) = [st EXCEPT !.g = counted(ended)]
      BY <1>13, Zenon DEF TickItem, d, l, f, counted, set, ended
    <2>2. ok(counted(ended))
      BY <1>5, <1>7, <1>8, <1>13, Zenon DEF ok
    <2> QED BY <1>10, <2>1, <2>2, Zenon
  <1>14. CASE ~(st.pacing \/ (d.pending /\ d.done)) /\ ~d.pending /\ ~(d.server \in sc.unreachable)
    <2>1. TickItem(st, i, due) = [g |-> sent(counted(started), started),
                                  not_done |-> TRUE, pacing |-> TRUE]
      BY <1>14, Zenon DEF TickItem, d, l, f, counted, set, started, sent
    <2>2. ok(sent(counted(started), started))
      BY <1>5, <1>6, <1>7, <1>8, <1>14, Zenon DEF ok
    <2> QED BY <1>9, <2>1, <2>2, Zenon
  <1> DEFINE over == d.msg = None \/ (Id(d) \in due /\ d.sends = Transmissions)
  <1>15. CASE ~(st.pacing \/ (d.pending /\ d.done)) /\ d.pending /\ over
    <2>1. TickItem(st, i, due) = [st EXCEPT !.g = set(ended)]
      BY <1>15, Zenon DEF TickItem, d, l, f, set, ended
    <2>2. ok(set(ended))
      BY <1>4, <1>7, <1>8, Zenon DEF ok
    <2> QED BY <1>10, <2>1, <2>2, Zenon
  <1>16. CASE ~(st.pacing \/ (d.pending /\ d.done)) /\ d.pending /\ ~over /\ Id(d) \in due
    <2>1. TickItem(st, i, due) = [g |-> sent(set(repeated), repeated),
                                  not_done |-> TRUE, pacing |-> TRUE]
      BY <1>16, Zenon DEF TickItem, d, l, f, set, repeated, sent
    <2>2. ok(sent(set(repeated), repeated))
      BY <1>4, <1>6, <1>7, <1>8, <1>16, Zenon DEF ok
    <2> QED BY <1>9, <2>1, <2>2, Zenon
  <1>17. CASE ~(st.pacing \/ (d.pending /\ d.done)) /\ d.pending /\ ~over /\ Id(d) \notin due
    <2>1. TickItem(st, i, due) = [st EXCEPT !.not_done = TRUE]
      BY <1>17, Zenon DEF TickItem, d, l, f
    <2> QED BY <1>11, <2>1, Zenon
  <1> QED BY <1>12, <1>13, <1>14, <1>15, <1>16, <1>17, Zenon

\* The loop over the items.
TickStart(g) == [g |-> g, not_done |-> FALSE, pacing |-> FALSE]
Indices(g) == [i \in DOMAIN g.discovery_list |-> i]

TickRun(f, g, due, n) ==
    f = [i \in 0..n |-> IF i = 0 THEN TickStart(g)
                        ELSE TickItem(f[i - 1], Indices(g)[i], due)]

\* The recursion of that loop has a solution.
LEMMA TickRunExists ==
    ASSUME NEW g, NEW due
    PROVE  \A n \in Nat : \E f : TickRun(f, g, due, n)
  <1> DEFINE T == {n \in Nat : \E f : TickRun(f, g, due, n)}
             next(f, i) == IF i = 0 THEN TickStart(g)
                           ELSE TickItem(f[i - 1], Indices(g)[i], due)
  <1>1. 0 \in T
    <2> DEFINE f == [i \in 0..0 |-> TickStart(g)]
    <2>1. \A i \in 0..0 : next(f, i) = TickStart(g)
      OBVIOUS
    <2>2. TickRun(f, g, due, 0)
      BY <2>1, Zenon DEF TickRun
    <2> QED BY <2>2
  <1>2. ASSUME NEW n \in Nat, n \in T PROVE n + 1 \in T
    <2>1. PICK f : TickRun(f, g, due, n)
      BY <1>2
    <2> DEFINE h == [i \in 0..n + 1 |-> next(f, i)]
    <2>2. \A i \in 0..n : f[i] = next(f, i)
      BY <2>1, Zenon DEF TickRun
    <2>3. \A i \in 0..n : h[i] = f[i]
      <3> TAKE i \in 0..n
      <3>1. i \in 0..n + 1
        OBVIOUS
      <3>2. h[i] = next(f, i)
        BY <3>1, Zenon
      <3> QED BY <2>2, <3>2, Zenon
    <2>4. \A i \in 0..n + 1 : i # 0 => h[i - 1] = f[i - 1]
      <3> TAKE i \in 0..n + 1
      <3> HAVE i # 0
      <3>1. i - 1 \in 0..n
        OBVIOUS
      <3> QED BY <2>3, <3>1, Zenon
    <2>5. TickRun(h, g, due, n + 1)
      <3> HIDE DEF h
      <3>1. h = [i \in 0..n + 1 |-> next(f, i)]
        BY DEF h
      <3>2. \A i \in 0..n + 1 : next(f, i) = next(h, i)
        BY <2>4, Zenon
      <3> QED BY <3>1, <3>2, Zenon DEF TickRun
    <2> QED BY <2>5
  <1> HIDE DEF T
  <1>3. \A n \in Nat : n \in T
    BY <1>1, <1>2, Induct
  <1> QED BY <1>3 DEF T

\* So does the whole loop.
LEMMA TickItemsKeep ==
    ASSUME NEW g, Sound(g), NEW due
    PROVE  /\ Tick(TickItems(g, due), g)
           /\ g.discovery_list = <<>> => ~TickItems(g, due).not_done
  <1> DEFINE N == Len(Indices(g))
             f == CHOOSE f : f = [i \in 0..N |-> IF i = 0 THEN TickStart(g)
                                 ELSE TickItem(f[i - 1], Indices(g)[i], due)]
             l == g.discovery_list
  <1>0. /\ DOMAIN g = AgentFields /\ Itemized(l, g.sockets, g.streams)
        /\ Counted(l, g.discovery_unsched_items) /\ IsList(l)
    BY Zenon DEF Sound, Itemized
  <1>1. N = Len(l) /\ N \in Nat /\ \A i \in 1..N : Indices(g)[i] = i
    <2> DEFINE n == Len(l)
               k == Indices(g)
    <2>1. n \in Nat /\ DOMAIN l = 1..n
      BY <1>0, ListIs
    <2>2. k = [i \in 1..n |-> i]
      BY <2>1, Zenon DEF Indices
    <2> HIDE DEF k
    <2>3. \A i \in 1..n : k[i] = i
      BY <2>2, Zenon
    <2>4. k = [i \in 1..n |-> k[i]]
      BY <2>2, <2>3, Zenon
    <2> HIDE DEF n
    <2>5. Len(k) = n
      BY <2>1, <2>4, FunctionIsList
    <2> QED BY <2>1, <2>3, <2>5 DEF k, n
  <1>2. TickItems(g, due) = f[N]
    BY Zenon DEF TickItems, Each, TickStart, Indices
  <1>3. f = [i \in 0..N |-> IF i = 0 THEN TickStart(g)
                            ELSE TickItem(f[i - 1], Indices(g)[i], due)]
    <2>1. PICK r : TickRun(r, g, due, N)
      BY <1>1, TickRunExists, SMTT(30), Z3T(30)
    <2>2. r = [i \in 0..N |-> IF i = 0 THEN TickStart(g)
                              ELSE TickItem(r[i - 1], Indices(g)[i], due)]
      BY <2>1 DEF TickRun
    <2> QED BY <2>2, Zenon
  <1> HIDE DEF f, N
  <1>4. \A i \in 0..N : f[i] = IF i = 0 THEN TickStart(g)
                               ELSE TickItem(f[i - 1], Indices(g)[i], due)
    BY <1>3, Zenon
  <1>5. Tick(TickStart(g), g) /\ ~TickStart(g).not_done
    <2>1. /\ DOMAIN TickStart(g) = TickFields /\ TickStart(g).g = g
          /\ ~TickStart(g).not_done
      BY DEF TickStart, TickFields
    <2>2. Elsewhere(g, g)
      BY <1>0, Zenon DEF Elsewhere
    <2> QED BY <1>0, <2>1, <2>2, Zenon DEF Tick
  <1> DEFINE T == {n \in Nat : n <= N => Tick(f[n], g)}
  <1>6. f[0] = TickStart(g)
    BY <1>1, <1>4
  <1>7. 0 \in T
    BY <1>5, <1>6
  <1>8. ASSUME NEW n \in Nat, n \in T PROVE n + 1 \in T
    <2> SUFFICES ASSUME n + 1 <= N PROVE Tick(f[n + 1], g)
      OBVIOUS
    <2>1. n + 1 \in 0..N /\ n + 1 # 0 /\ (n + 1) - 1 = n /\ n + 1 \in 1..N /\ n <= N
      BY <1>1
    <2>2. f[n + 1] = TickItem(f[n], n + 1, due)
      BY <1>1, <1>4, <2>1
    <2>3. Tick(f[n], g)
      BY <1>8, <2>1
    <2>4. n + 1 \in 1..Len(g.discovery_list)
      BY <1>1, <2>1
    <2> QED BY <2>2, <2>3, <2>4, TickItemKeeps
  <1> HIDE DEF T
  <1>9. \A n \in Nat : n \in T
    BY <1>7, <1>8, Induct
  <1>10. Tick(f[N], g)
    BY <1>1, <1>9 DEF T
  <1>11. l = <<>> => f[N] = TickStart(g)
    BY <1>1, <1>6, EmptyIsList
  <1> QED BY <1>2, <1>5, <1>10, <1>11

\* The tick leaves a whole record: the timer runs on, or the list is freed.
LEMMA DiscoveryTickWhole ==
    ASSUME NEW g, Sound(g), NEW due
    PROVE  /\ Whole(DiscoveryTickUnlocked(g, due)) /\ Elsewhere(DiscoveryTickUnlocked(g, due), g)
  <1> DEFINE st == TickItems(g, due)
             f == st.g
             h == [f EXCEPT !.discovery_timer = TRUE]
             l == f.discovery_list
             n == f.discovery_unsched_items
  <1>1. Tick(st, g) /\ (g.discovery_list = <<>> => ~st.not_done)
    BY TickItemsKeep
  <1> HIDE DEF st
  <1>2. /\ Elsewhere(f, g) /\ DOMAIN f = AgentFields /\ Itemized(l, g.sockets, g.streams)
        /\ Counted(l, n) /\ Len(l) = Len(g.discovery_list)
    BY <1>1, Zenon DEF Tick, Elsewhere
  <1>3. CASE st.not_done
    <2>1. DiscoveryTickUnlocked(g, due) = h
      BY <1>3, Zenon DEF DiscoveryTickUnlocked, st
    <2>2. /\ Elsewhere(h, g) /\ h.discovery_list = l /\ h.discovery_unsched_items = n
          /\ h.discovery_timer = TRUE
      BY <1>2 DEF AgentFields, Elsewhere
    <2> HIDE DEF h
    <2>3. l # <<>>
      <3>1. IsList(g.discovery_list) /\ g.discovery_list # <<>>
        BY <1>1, <1>3, Zenon DEF Sound, Itemized
      <3>2. Len(g.discovery_list) # 0
        BY <3>1, EmptyIsList
      <3> QED BY <1>2, <3>2, EmptyIsList
    <2>4. Timed(TRUE, l, n)
      BY <2>3 DEF Timed
    <2>5. Discovering(h)
      BY <1>2, <2>2, <2>4, Zenon DEF Discovering, Elsewhere
    <2>6. Sound(h)
      BY <2>2, <2>5, ElsewhereSound
    <2> QED BY <2>1, <2>2, <2>6 DEF Whole
  <1>4. CASE ~st.not_done
    <2> DEFINE e == DiscoveryFree(f)
               w == GatheringDone(e)
    <2>1. DiscoveryTickUnlocked(g, due) = w
      BY <1>4, Zenon DEF DiscoveryTickUnlocked, st
    <2>2. /\ Elsewhere(e, g) /\ e.discovery_list = <<>> /\ e.discovery_unsched_items = 0
          /\ e.discovery_timer = FALSE
      BY <1>2 DEF DiscoveryFree, AgentFields, Elsewhere
    <2> HIDE DEF e
    <2>3. Discovering(e)
      BY <2>2, EmptyDiscovery, Zenon DEF Discovering
    <2>4. Sound(e)
      BY <2>2, <2>3, ElsewhereSound
    <2>5. Whole(e)
      BY <2>2, <2>4 DEF Whole
    <2>6. Whole(w) /\ Elsewhere(w, e)
      BY <2>4, <2>5, GatheringDoneSound, Zenon
    <2> HIDE DEF w
    <2>7. Elsewhere(w, g)
      BY <2>2, <2>6, ElsewhereThrough
    <2> QED BY <2>1, <2>6, <2>7
  <1> QED BY <1>3, <1>4

\* The first tick follows at once when there is something to send.
LEMMA ScheduleWhole ==
    ASSUME NEW g, Sound(g), g.discovery_unsched_items > 0
    PROVE  Whole(DiscoverySchedule(g)) /\ Elsewhere(DiscoverySchedule(g), g)
  <1>1. g.discovery_list # <<>>
    BY DEF Sound, Counted
  <1>2. DiscoverySchedule(g) = IF g.discovery_timer THEN g ELSE DiscoveryTickUnlocked(g, {})
    BY <1>1, Zenon DEF DiscoverySchedule
  <1>3. Elsewhere(g, g)
    BY Zenon DEF Sound, Elsewhere
  <1>4. CASE g.discovery_timer
    BY <1>2, <1>3, <1>4 DEF Whole
  <1>5. CASE ~g.discovery_timer
    BY <1>2, <1>5, DiscoveryTickWhole
  <1> QED BY <1>4, <1>5

\* Without anything to send there is nothing new in the list.
LEMMA NothingNew ==
    ASSUME NEW g, Sound(g), ~(g.discovery_unsched_items > 0)
    PROVE  Whole(g)
  <1>1. g.discovery_unsched_items \in Nat /\ IsList(g.discovery_list)
    BY DEF Sound, Counted, Itemized
  <1>2. g.discovery_unsched_items = 0
    BY <1>1
  <1>3. ~g.discovery_timer => Len(g.discovery_list) <= 0
    BY <1>2 DEF Sound, Timed
  <1>4. Len(g.discovery_list) \in Nat
    BY <1>1, ListIs
  <1>5. ~g.discovery_timer => g.discovery_list = <<>>
    BY <1>1, <1>3, <1>4, EmptyIsList
  <1> QED BY <1>5 DEF Whole

\* Scheduling what is new, or signalling the end, makes the record whole.
LEMMA ScheduleOrDoneWhole ==
    ASSUME NEW g, Sound(g)
    PROVE  Whole(ScheduleOrDone(g)) /\ Elsewhere(ScheduleOrDone(g), g)
  <1>1. CASE g.discovery_unsched_items > 0
    BY <1>1, ScheduleWhole DEF ScheduleOrDone
  <1>2. CASE ~(g.discovery_unsched_items > 0)
    <2>1. Whole(g)
      BY <1>2, NothingNew
    <2> QED BY <1>2, <2>1, GatheringDoneSound DEF ScheduleOrDone
  <1> QED BY <1>1, <1>2

-----------------------------------------------------------------------------
(* Refreshing and releasing allocations.                                   *)

\* What the operators on the refreshes do not touch.
Aside(h, g) ==
    /\ DOMAIN h = AgentFields
    /\ h.streams = g.streams /\ h.gathering_started = g.gathering_started
    /\ h.gathering = g.gathering /\ h.lookups = g.lookups
    /\ h.close = g.close /\ h.failed = g.failed /\ SameDiscovery(h, g)

\* Such operators compose.
LEMMA AsideThrough ==
    ASSUME NEW f, NEW g, NEW h, Aside(g, f), Aside(h, g)
    PROVE  Aside(h, f)
  BY Zenon DEF Aside, SameDiscovery

\* A record is beside itself.
LEMMA AsideSelf ==
    ASSUME NEW g, Sound(g)
    PROVE  Aside(g, g)
  BY Zenon DEF Sound, Aside, SameDiscovery

\* What they change has to stay in order by itself.
LEMMA AsideSound ==
    ASSUME NEW g, Sound(g), NEW h, Aside(h, g), h.pruning_streams \subseteq Streams,
           Based(h.local_candidates, h.sockets, g.streams), Served(h.turn_servers),
           Itemized(g.discovery_list, h.sockets, g.streams),
           Refreshing(h.refresh_list, g.streams)
    PROVE  Sound(h) /\ (Whole(g) => Whole(h))
  <1>1. Nested(h.streams, h.pruning_streams, h.gathering_started, h.gathering)
    BY Zenon DEF Sound, Aside, Nested
  <1>2. Sound(h)
    BY <1>1, Zenon DEF Sound, Aside, SameDiscovery
  <1> QED BY <1>2, Zenon DEF Whole, Aside, SameDiscovery

\* Only the list of refreshes is another one.
LEMMA RefreshesOnly ==
    ASSUME NEW g, Sound(g), NEW h, Aside(h, g), h.pruning_streams = g.pruning_streams,
           h.local_candidates = g.local_candidates, h.sockets = g.sockets,
           h.turn_servers = g.turn_servers, Refreshing(h.refresh_list, g.streams)
    PROVE  Sound(h) /\ (Whole(g) => Whole(h))
  <1>1. /\ h.pruning_streams \subseteq Streams
        /\ Based(h.local_candidates, h.sockets, g.streams) /\ Served(h.turn_servers)
        /\ Itemized(g.discovery_list, h.sockets, g.streams)
    BY Zenon DEF Sound, Nested
  <1> QED BY <1>1, AsideSound, Zenon

\* A stream that the agent has no more loses what it had.
LEMMA StreamRefreshesPrunedSound ==
    ASSUME NEW g, Sound(g), NEW s, s \notin g.streams
    PROVE  /\ Sound(StreamRefreshesPruned(g, s)) /\ Aside(StreamRefreshesPruned(g, s), g)
  <1> DEFINE h == StreamRefreshesPruned(g, s)
             lc == g.local_candidates
             k == [lc EXCEPT ![s] = <<>>]
             ts == g.turn_servers
             t == [ts EXCEPT ![s] = <<>>]
             socks == g.sockets \ SocketsOf(g, s)
  <1>0. DOMAIN g = AgentFields
    BY DEF Sound
  <1> HIDE DEF socks
  <1>1. /\ Aside(h, g) /\ h.pruning_streams = g.pruning_streams \ {s}
        /\ h.local_candidates = k /\ h.turn_servers = t /\ h.refresh_list = g.refresh_list
        /\ h.sockets = socks
    BY <1>0 DEF StreamRefreshesPruned, AgentFields, Aside, SameDiscovery, socks
  <1> HIDE DEF h
  <1>2. /\ Based(lc, g.sockets, g.streams) /\ Served(ts) /\ Refreshing(g.refresh_list, g.streams)
        /\ Itemized(g.discovery_list, g.sockets, g.streams) /\ g.pruning_streams \subseteq Streams
        /\ g.streams \subseteq Streams
    BY Zenon DEF Sound, Nested
  <1>3. \A x \in g.sockets : x[2] \in g.streams => x \in socks
    BY Zenon DEF socks, SocketsOf
  <1>4. Based(k, socks, g.streams)
    <2>1. DOMAIN lc = Streams /\ \A q \in Streams : IsList(lc[q])
      BY <1>2, Zenon DEF Based
    <2>2. DOMAIN k = Streams /\ \A q \in Streams : k[q] = IF q = s THEN <<>> ELSE lc[q]
      BY <2>1, Zenon
    <2> HIDE DEF k
    <2>3. \A q \in Streams : IsList(k[q])
      BY <2>1, <2>2, EmptyIsList, Zenon
    <2>4. \A q \in g.streams : k[q] = lc[q]
      BY <1>2, <2>2, Zenon
    <2>5. \A q \in g.streams : \A c \in Range(k[q]) : c.base \in socks /\ c.base[2] = q
      <3> TAKE q \in g.streams
      <3> TAKE c \in Range(k[q])
      <3>1. c \in Range(lc[q])
        BY <2>4, Zenon
      <3>2. c.base \in g.sockets /\ c.base[2] = q
        BY <1>2, <3>1, Zenon DEF Based
      <3> QED BY <1>3, <3>2, Zenon
    <2> QED BY <2>2, <2>3, <2>5, Zenon DEF Based
  <1>5. Served(t)
    <2>1. DOMAIN ts = Streams /\ \A q \in Streams : IsList(ts[q])
      BY <1>2, Zenon DEF Served
    <2>2. DOMAIN t = Streams /\ \A q \in Streams : t[q] = IF q = s THEN <<>> ELSE ts[q]
      BY <2>1, Zenon
    <2> HIDE DEF t
    <2> QED BY <2>1, <2>2, EmptyIsList, Zenon DEF Served
  <1>6. Itemized(g.discovery_list, socks, g.streams)
    BY <1>2, <1>3, Zenon DEF Itemized, IsItem
  <1>7. h.pruning_streams \subseteq Streams
    BY <1>1, <1>2, Zenon
  <1>8. Sound(h)
    BY <1>1, <1>2, <1>4, <1>5, <1>6, <1>7, AsideSound, Zenon
  <1> QED BY <1>1, <1>8 DEF h

\* The callback of the last refresh frees a stream that the agent has no more.
LEMMA OnRefreshRemovedSound ==
    ASSUME NEW g, Sound(g), NEW cb, Callback(cb, g.streams)
    PROVE  Sound(OnRefreshRemoved(g, cb)) /\ Aside(OnRefreshRemoved(g, cb), g)
  <1>1. CASE cb[1] # "stream" \/ \E r \in Range(g.refresh_list) : r.cb = cb
    BY <1>1, AsideSelf, Zenon DEF OnRefreshRemoved
  <1>2. CASE ~(cb[1] # "stream" \/ \E r \in Range(g.refresh_list) : r.cb = cb)
    <2>1. OnRefreshRemoved(g, cb) = StreamRefreshesPruned(g, cb[2])
      BY <1>2, Zenon DEF OnRefreshRemoved
    <2>2. cb[2] \notin g.streams
      BY <1>2, Zenon DEF Callback
    <2> QED BY <2>1, <2>2, StreamRefreshesPrunedSound, Zenon
  <1> QED BY <1>1, <1>2

\* Where a refresh is.
LEMMA RefreshAtIs ==
    ASSUME NEW g, IsList(g.refresh_list), NEW id
    PROVE  /\ RefreshAt(g, id) # 0 => RefreshAt(g, id) \in 1..Len(g.refresh_list)
           /\ (\E r \in Range(g.refresh_list) : r.id = id) => RefreshAt(g, id) # 0
  <1> DEFINE l == g.refresh_list
             I == {i \in DOMAIN l : l[i].id = id}
  <1>1. RefreshAt(g, id) = FirstOf(I) /\ I \in SUBSET DOMAIN l
    BY Zenon DEF RefreshAt
  <1>2. ASSUME NEW r \in Range(l), r.id = id PROVE I # {}
    <2>1. PICK i \in DOMAIN l : r = l[i]
      BY Zenon DEF Range
    <2> QED BY <1>2, <2>1, Zenon
  <1> HIDE DEF I
  <1> QED BY <1>1, <1>2, FirstIs, Zenon

\* A refresh may be replaced by another.
LEMMA SetRefreshSound ==
    ASSUME NEW g, Sound(g), NEW r, IsRefresh(r, g.streams)
    PROVE  /\ Sound(SetRefresh(g, r)) /\ Aside(SetRefresh(g, r), g)
           /\ Whole(g) => Whole(SetRefresh(g, r))
  <1> DEFINE h == SetRefresh(g, r)
             l == g.refresh_list
             i == RefreshAt(g, r.id)
  <1>0. DOMAIN g = AgentFields /\ Refreshing(l, g.streams)
    BY DEF Sound
  <1> HIDE DEF i
  <1>1. /\ Aside(h, g) /\ h.pruning_streams = g.pruning_streams
        /\ h.local_candidates = g.local_candidates /\ h.sockets = g.sockets
        /\ h.turn_servers = g.turn_servers /\ h.refresh_list = Written(l, i, r)
    BY <1>0 DEF SetRefresh, AgentFields, Aside, SameDiscovery, Written, i
  <1> HIDE DEF h
  <1>2. Refreshing(Written(l, i, r), g.streams)
    <2>1. IsList(Written(l, i, r)) /\ Range(Written(l, i, r)) \subseteq Range(l) \cup {r}
      BY <1>0, WrittenIsList DEF Refreshing
    <2> QED BY <1>0, <2>1, Zenon DEF Refreshing
  <1>3. Sound(h) /\ (Whole(g) => Whole(h))
    BY <1>1, <1>2, RefreshesOnly
  <1> QED BY <1>1, <1>3 DEF h

\* refresh_free takes out one refresh, and runs the callback when it is the
\* last.
LEMMA RefreshFreeSound ==
    ASSUME NEW g, Sound(g), NEW id, RefreshAt(g, id) # 0
    PROVE  /\ Sound(RefreshFree(g, id)) /\ Aside(RefreshFree(g, id), g)
           /\ Whole(g) => Whole(RefreshFree(g, id))
  <1> DEFINE l == g.refresh_list
             i == RefreshAt(g, id)
             r == l[i]
             a == IF r.disposing THEN g.lapsed ELSE g.lapsed \cup {id}
             b == IF r.disposing /\ ~r.zero THEN g.unreleased \cup {id} ELSE g.unreleased
             g1 == [g EXCEPT !.refresh_list = RemoveAt(l, i), !.lapsed = a, !.unreleased = b]
             h == RefreshFree(g, id)
  <1>0. DOMAIN g = AgentFields /\ Refreshing(l, g.streams) /\ IsList(l)
    BY DEF Sound, Refreshing
  <1>1. i \in 1..Len(l)
    BY <1>0, RefreshAtIs
  <1>2. h = IF r.disposing THEN OnRefreshRemoved(g1, r.cb) ELSE g1
    BY Zenon DEF RefreshFree
  <1>3. r \in Range(l) /\ IsList(RemoveAt(l, i)) /\ Range(RemoveAt(l, i)) \subseteq Range(l)
    BY <1>0, <1>1, ListIs, RemovedIsList
  <1>4. IsRefresh(r, g.streams) /\ Refreshing(RemoveAt(l, i), g.streams)
    BY <1>0, <1>3, Zenon DEF Refreshing
  <1> DEFINE k == RemoveAt(l, i)
  <1> HIDE DEF i, a, b, k
  <1>5. /\ Aside(g1, g) /\ g1.pruning_streams = g.pruning_streams
        /\ g1.local_candidates = g.local_candidates /\ g1.sockets = g.sockets
        /\ g1.turn_servers = g.turn_servers /\ g1.refresh_list = RemoveAt(l, i)
    BY <1>0 DEF AgentFields, Aside, SameDiscovery
  <1> HIDE DEF g1
  <1>6. Sound(g1)
    BY <1>4, <1>5, RefreshesOnly, Zenon
  <1>7. Sound(h) /\ Aside(h, g)
    <2>1. CASE ~r.disposing
      BY <1>2, <1>5, <1>6, <2>1, Zenon
    <2>2. CASE r.disposing
      <3>1. Callback(r.cb, g1.streams)
        BY <1>4, <1>5, <2>2, Zenon DEF IsRefresh, AnyRefresh, Aside
      <3>2. Sound(OnRefreshRemoved(g1, r.cb)) /\ Aside(OnRefreshRemoved(g1, r.cb), g1)
        BY <1>6, <3>1, OnRefreshRemovedSound, Zenon
      <3>3. Sound(h) /\ Aside(h, g1)
        BY <1>2, <2>2, <3>2, Zenon
      <3> QED BY <1>5, <3>3, AsideThrough, Zenon
    <2> QED BY <2>1, <2>2
  <1> HIDE DEF h
  <1>8. Whole(g) => Whole(h)
    BY <1>7, Zenon DEF Whole, Aside, SameDiscovery
  <1> QED BY <1>7, <1>8 DEF h

\* Applying an operator to each element.
LEMMA MappedIsList ==
    ASSUME NEW l, IsList(l), NEW f, f = [i \in DOMAIN l |-> f[i]]
    PROVE  /\ f \o <<>> = f /\ IsList(f) /\ Len(f) = Len(l)
           /\ \A x \in Range(f) : \E i \in 1..Len(l) : x = f[i] /\ l[i] \in Range(l)
  <1> DEFINE n == Len(l)
  <1>1. n \in Nat /\ DOMAIN l = 1..n /\ \A i \in 1..n : l[i] \in Range(l)
    BY ListIs
  <1> HIDE DEF n
  <1>2. f = [i \in 1..n |-> f[i]]
    BY <1>1, Zenon
  <1>3. IsList(f) /\ Len(f) = n /\ Range(f) = {f[i] : i \in 1..n}
    BY <1>1, <1>2, FunctionIsList
  <1>4. f \o <<>> = f
    BY <1>3, ConcatNothing
  <1> QED BY <1>1, <1>3, <1>4, Zenon DEF n

\* A refresh that is about to be pruned need not have a timer yet: g is as f
\* is, with such refreshes.
Prunable(g, f, ids) ==
    /\ DOMAIN g = AgentFields /\ Aside(g, f) /\ g.pruning_streams = f.pruning_streams
    /\ g.local_candidates = f.local_candidates /\ g.sockets = f.sockets
    /\ g.turn_servers = f.turn_servers /\ IsList(g.refresh_list)
    /\ \A r \in Range(g.refresh_list) :
          \/ IsRefresh(r, f.streams)
          \/ AnyRefresh(r, f.streams) /\ r.id \in ids /\ ~r.disposing

\* refresh_prune_async marks refreshes, or runs the callback at once.
LEMMA PrunableSound ==
    ASSUME NEW f, Sound(f), NEW ids, NEW g, Prunable(g, f, ids), NEW cb, Callback(cb, f.streams)
    PROVE  /\ Sound(RefreshPruneAsync(g, ids, cb)) /\ Aside(RefreshPruneAsync(g, ids, cb), f)
           /\ Whole(f) => Whole(RefreshPruneAsync(g, ids, cb))
  <1> DEFINE l == g.refresh_list
             chosen(r) == r.id \in ids /\ ~r.disposing
             marked(r) == [r EXCEPT !.disposing = TRUE, !.destroy = TRUE, !.cb = cb]
             k == [i \in DOMAIN l |-> IF chosen(l[i]) THEN marked(l[i]) ELSE l[i]]
             g1 == [g EXCEPT !.refresh_list = k \o <<>>]
             h == RefreshPruneAsync(g, ids, cb)
  <1>0. /\ DOMAIN g = AgentFields /\ IsList(l)
        /\ \A r \in Range(l) : IsRefresh(r, f.streams) \/ (AnyRefresh(r, f.streams) /\ chosen(r))
    BY Zenon DEF Prunable
  <1>1. h = IF \E r \in Range(l) : chosen(r) THEN g1 ELSE OnRefreshRemoved(g1, cb)
    BY Zenon DEF RefreshPruneAsync
  <1>2. \A r : AnyRefresh(r, f.streams) => IsRefresh(marked(r), f.streams)
    <2> TAKE r
    <2> HAVE AnyRefresh(r, f.streams)
    <2> DEFINE q == marked(r)
    <2>1. DOMAIN r = RefreshFields
      BY DEF AnyRefresh
    <2>2. /\ DOMAIN q = RefreshFields /\ q.disposing = TRUE /\ q.cb = cb /\ q.sends = r.sends
          /\ q.zero = r.zero /\ q.open = r.open /\ q.tick = r.tick /\ q.timer = r.timer
          /\ q.destroy = TRUE
      BY <2>1 DEF RefreshFields
    <2> HIDE DEF q
    <2>3. AnyRefresh(q, f.streams) /\ OneTimer(q)
      BY <2>2, Zenon DEF AnyRefresh, OneTimer
    <2> QED BY <2>3, SMTT(30), Z3T(30) DEF q, IsRefresh
  <1>3. \A i \in DOMAIN l : k[i] = IF chosen(l[i]) THEN marked(l[i]) ELSE l[i]
    BY Zenon
  <1>4. k = [i \in DOMAIN l |-> k[i]]
    BY Zenon
  <1>5. DOMAIN l = 1..Len(l)
    BY <1>0, ListIs
  <1> HIDE DEF k, marked, chosen
  <1>6. /\ k \o <<>> = k /\ IsList(k)
        /\ \A x \in Range(k) : \E i \in 1..Len(l) : x = k[i] /\ l[i] \in Range(l)
    BY <1>0, <1>4, MappedIsList
  <1>7. Refreshing(k, f.streams)
    <2>1. ASSUME NEW x \in Range(k) PROVE IsRefresh(x, f.streams)
      <3>1. PICK i \in 1..Len(l) : x = k[i] /\ l[i] \in Range(l)
        BY <1>6, Zenon
      <3>2. k[i] = IF chosen(l[i]) THEN marked(l[i]) ELSE l[i]
        BY <1>3, <1>5, Zenon
      <3>3. IsRefresh(l[i], f.streams) \/ (AnyRefresh(l[i], f.streams) /\ chosen(l[i]))
        BY <1>0, <3>1, Zenon
      <3>4. CASE chosen(l[i])
        BY <1>2, <3>1, <3>2, <3>3, <3>4, Zenon DEF IsRefresh
      <3>5. CASE ~chosen(l[i])
        BY <3>1, <3>2, <3>3, <3>5, Zenon
      <3> QED BY <3>4, <3>5
    <2> QED BY <1>6, <2>1, Zenon DEF Refreshing
  <1>8. /\ Aside(g1, f) /\ g1.pruning_streams = f.pruning_streams
        /\ g1.local_candidates = f.local_candidates /\ g1.sockets = f.sockets
        /\ g1.turn_servers = f.turn_servers /\ g1.refresh_list = k
    <2>1. /\ Aside(g1, g) /\ g1.pruning_streams = g.pruning_streams
          /\ g1.local_candidates = g.local_candidates /\ g1.sockets = g.sockets
          /\ g1.turn_servers = g.turn_servers /\ g1.refresh_list = k
      BY <1>0, <1>6 DEF AgentFields, Aside, SameDiscovery
    <2> HIDE DEF g1
    <2>2. Aside(g1, f)
      BY <2>1, AsideThrough, Zenon DEF Prunable
    <2> QED BY <2>1, <2>2, Zenon DEF Prunable
  <1> HIDE DEF g1
  <1>9. Sound(g1)
    BY <1>7, <1>8, RefreshesOnly, Zenon
  <1>10. Callback(cb, g1.streams)
    BY <1>8, Zenon DEF Aside
  <1>11. Sound(OnRefreshRemoved(g1, cb)) /\ Aside(OnRefreshRemoved(g1, cb), g1)
    BY <1>9, <1>10, OnRefreshRemovedSound, Zenon
  <1>12. Sound(h) /\ Aside(h, f)
    <2>1. Aside(OnRefreshRemoved(g1, cb), f)
      BY <1>8, <1>11, AsideThrough, Zenon
    <2>2. h = g1 \/ h = OnRefreshRemoved(g1, cb)
      BY <1>1, Zenon
    <2> HIDE DEF h
    <2> QED BY <1>8, <1>9, <1>11, <2>1, <2>2, Zenon
  <1> HIDE DEF h
  <1>13. Whole(f) => Whole(h)
    BY <1>12, Zenon DEF Whole, Aside, SameDiscovery
  <1> QED BY <1>12, <1>13 DEF h

\* Most often every refresh has its timer.
LEMMA RefreshPruneAsyncSound ==
    ASSUME NEW g, Sound(g), NEW ids, NEW cb, Callback(cb, g.streams)
    PROVE  /\ Sound(RefreshPruneAsync(g, ids, cb)) /\ Aside(RefreshPruneAsync(g, ids, cb), g)
           /\ Whole(g) => Whole(RefreshPruneAsync(g, ids, cb))
  <1>1. Aside(g, g)
    BY AsideSelf
  <1>2. Prunable(g, g, ids)
    BY <1>1, Zenon DEF Prunable, Sound, Refreshing
  <1> QED BY <1>2, PrunableSound, Zenon

\* The callback for a candidate has nothing left to free.
LEMMA PruneRelayCandidateSound ==
    ASSUME NEW g, Sound(g), NEW id
    PROVE  /\ Sound(PruneRelayCandidate(g, id)) /\ Aside(PruneRelayCandidate(g, id), g)
           /\ Whole(g) => Whole(PruneRelayCandidate(g, id))
  <1>1. Callback(<<"candidate", id>>, g.streams)
    BY DEF Callback
  <1> QED BY <1>1, RefreshPruneAsyncSound, Zenon DEF PruneRelayCandidate

\* What is written to the sockets.
LEMMA OutOnly ==
    ASSUME NEW g, Sound(g), NEW x
    PROVE  /\ Sound([g EXCEPT !.out = x]) /\ Aside([g EXCEPT !.out = x], g)
           /\ Whole(g) => Whole([g EXCEPT !.out = x])
  <1> DEFINE h == [g EXCEPT !.out = x]
  <1>0. DOMAIN g = AgentFields /\ Refreshing(g.refresh_list, g.streams)
    BY DEF Sound
  <1>1. /\ Aside(h, g) /\ h.pruning_streams = g.pruning_streams
        /\ h.local_candidates = g.local_candidates /\ h.sockets = g.sockets
        /\ h.turn_servers = g.turn_servers /\ h.refresh_list = g.refresh_list
    BY <1>0 DEF AgentFields, Aside, SameDiscovery
  <1> HIDE DEF h
  <1>2. Sound(h) /\ (Whole(g) => Whole(h))
    BY <1>0, <1>1, RefreshesOnly, Zenon
  <1> QED BY <1>1, <1>2 DEF h

\* A Refresh request is one of a refresh of the list.
LEMMA RefreshRequestWhole ==
    ASSUME NEW g, Whole(g), NEW r, AnyRefresh(r, g.streams), ~r.timer,
           NEW zero \in BOOLEAN, r.disposing => zero
    PROVE  Whole(RefreshRequest(g, r, zero))
  <1> DEFINE r1 == [r EXCEPT !.requests = @ + 1, !.msg = <<"refresh", r.id, r.requests>>,
                             !.open = TRUE, !.zero = zero, !.sends = 1, !.tick = TRUE]
             h == SetRefresh(g, r1)
             out == h.out \cup
                      {Request("Refresh", r1.msg, r1.nicesock, r1.server, r1.realm, zero)}
  <1>1. /\ DOMAIN r1 = RefreshFields /\ r1.sends = 1 /\ r1.zero = zero /\ r1.tick = TRUE
        /\ r1.disposing = r.disposing /\ r1.cb = r.cb /\ r1.timer = r.timer
    BY DEF AnyRefresh, RefreshFields
  <1>2. 1 \in 0..Transmissions
    BY GatheringAssumption
  <1>3. DOMAIN h = DOMAIN g /\ Sound(g)
    BY Zenon DEF SetRefresh, Whole
  <1>4. RefreshRequest(g, r, zero) = [h EXCEPT !.out = out]
    BY <1>3, Zenon DEF RefreshRequest
  <1> HIDE DEF r1, out
  <1>5. IsRefresh(r1, g.streams)
    <2>1. AnyRefresh(r1, g.streams)
      BY <1>1, <1>2, Zenon DEF AnyRefresh
    <2>2. OneTimer(r1)
      BY <1>1, Zenon DEF OneTimer
    <2> QED BY <2>1, <2>2 DEF IsRefresh
  <1>6. Whole(h)
    BY <1>3, <1>5, SetRefreshSound, Zenon
  <1> HIDE DEF h
  <1>7. Whole([h EXCEPT !.out = out])
    BY <1>6, OutOnly, Zenon DEF Whole
  <1> QED BY <1>4, <1>7, Zenon

\* The two requests of a refresh: to keep the allocation and to release it.
LEMMA RefreshTickWhole ==
    ASSUME NEW g, Whole(g), NEW r, AnyRefresh(r, g.streams)
    PROVE  /\ Whole(RefreshTickUnlocked(g, r)) /\ Whole(RefreshRemoveAsync(g, r))
  <1> DEFINE a == [r EXCEPT !.timer = FALSE]
             b == [r EXCEPT !.timer = FALSE, !.destroy = FALSE]
  <1>1. \A x \in {a, b} :
          /\ DOMAIN x = RefreshFields /\ x.sends = r.sends /\ x.zero = r.zero
          /\ x.open = r.open /\ x.tick = r.tick /\ x.disposing = r.disposing /\ x.cb = r.cb
          /\ x.timer = FALSE
    BY DEF AnyRefresh, RefreshFields
  <1>2. RefreshTickUnlocked(g, r) = RefreshRequest(g, a, r.disposing)
    BY Zenon DEF RefreshTickUnlocked
  <1>3. RefreshRemoveAsync(g, r) = RefreshRequest(g, b, TRUE)
    BY Zenon DEF RefreshRemoveAsync
  <1> HIDE DEF a, b
  <1>4. /\ AnyRefresh(a, g.streams) /\ ~a.timer /\ (a.disposing => r.disposing)
        /\ AnyRefresh(b, g.streams) /\ ~b.timer /\ r.disposing \in BOOLEAN
    BY <1>1, Zenon DEF AnyRefresh
  <1> QED BY <1>2, <1>3, <1>4, RefreshRequestWhole, Zenon

\* The last retransmission frees the refresh, the others are counted.
LEMMA RefreshRetransmissionsTickWhole ==
    ASSUME NEW g, Whole(g), NEW r \in Range(g.refresh_list)
    PROVE  Whole(RefreshRetransmissionsTick(g, r))
  <1> DEFINE r1 == [r EXCEPT !.sends = @ + 1]
             h == SetRefresh(g, r1)
             out == h.out \cup
                      {Request("Refresh", r.msg, r.nicesock, r.server, r.realm, r.zero)}
  <1>0. Sound(g) /\ IsList(g.refresh_list) /\ IsRefresh(r, g.streams)
    BY Zenon DEF Whole, Sound, Refreshing
  <1>1. CASE r.sends = Transmissions
    <2>1. RefreshAt(g, r.id) # 0
      BY <1>0, RefreshAtIs, Zenon
    <2> QED BY <1>0, <1>1, <2>1, RefreshFreeSound, Zenon DEF RefreshRetransmissionsTick
  <1>2. CASE r.sends # Transmissions
    <2>1. /\ DOMAIN r1 = RefreshFields /\ r1.sends = r.sends + 1 /\ r1.zero = r.zero
          /\ r1.open = r.open /\ r1.tick = r.tick /\ r1.disposing = r.disposing /\ r1.cb = r.cb
          /\ r1.timer = r.timer /\ r1.destroy = r.destroy
      BY <1>0 DEF IsRefresh, AnyRefresh, RefreshFields
    <2>2. r.sends + 1 \in 0..Transmissions
      <3>1. r.sends \in 0..Transmissions
        BY <1>0 DEF IsRefresh, AnyRefresh
      <3> QED BY <1>2, <3>1, GatheringAssumption
    <2>3. DOMAIN h = DOMAIN g
      BY Zenon DEF SetRefresh
    <2>4. RefreshRetransmissionsTick(g, r) = [h EXCEPT !.out = out]
      BY <1>2, <2>3, Zenon DEF RefreshRetransmissionsTick
    <2> HIDE DEF r1, out
    <2>5. IsRefresh(r1, g.streams)
      <3>1. AnyRefresh(r1, g.streams)
        BY <1>0, <2>1, <2>2, Zenon DEF IsRefresh, AnyRefresh
      <3>2. OneTimer(r1)
        BY <1>0, <2>1, Zenon DEF IsRefresh, OneTimer
      <3> QED BY <3>1, <3>2 DEF IsRefresh
    <2>6. Whole(h)
      BY <1>0, <2>5, SetRefreshSound, Zenon
    <2> HIDE DEF h
    <2>7. Whole([h EXCEPT !.out = out])
      BY <2>6, OutOnly, Zenon DEF Whole
    <2> QED BY <2>4, <2>7, Zenon
  <1> QED BY <1>1, <1>2

\* The loop of refresh_prune_socket.
FreeOne(h, r) == IF RefreshAt(h, r.id) = 0 THEN h ELSE RefreshFree(h, r.id)

FreeRun(f, g, l, n) ==
    f = [i \in 0..n |-> IF i = 0 THEN g
                        ELSE FreeOne(f[i - 1], l[i])]

\* Its recursion has a solution.
LEMMA FreeRunExists ==
    ASSUME NEW g, NEW l
    PROVE  \A n \in Nat : \E f : FreeRun(f, g, l, n)
  <1> DEFINE T == {n \in Nat : \E f : FreeRun(f, g, l, n)}
             next(f, i) == IF i = 0 THEN g
                           ELSE FreeOne(f[i - 1], l[i])
  <1>1. 0 \in T
    <2> DEFINE f == [i \in 0..0 |-> g]
    <2>1. \A i \in 0..0 : next(f, i) = g
      OBVIOUS
    <2>2. FreeRun(f, g, l, 0)
      BY <2>1, Zenon DEF FreeRun
    <2> QED BY <2>2
  <1>2. ASSUME NEW n \in Nat, n \in T PROVE n + 1 \in T
    <2>1. PICK f : FreeRun(f, g, l, n)
      BY <1>2
    <2> DEFINE h == [i \in 0..n + 1 |-> next(f, i)]
    <2>2. \A i \in 0..n : f[i] = next(f, i)
      BY <2>1, Zenon DEF FreeRun
    <2>3. \A i \in 0..n : h[i] = f[i]
      <3> TAKE i \in 0..n
      <3>1. i \in 0..n + 1
        OBVIOUS
      <3>2. h[i] = next(f, i)
        BY <3>1, Zenon
      <3> QED BY <2>2, <3>2, Zenon
    <2>4. \A i \in 0..n + 1 : i # 0 => h[i - 1] = f[i - 1]
      <3> TAKE i \in 0..n + 1
      <3> HAVE i # 0
      <3>1. i - 1 \in 0..n
        OBVIOUS
      <3> QED BY <2>3, <3>1, Zenon
    <2>5. FreeRun(h, g, l, n + 1)
      <3> HIDE DEF h
      <3>1. h = [i \in 0..n + 1 |-> next(f, i)]
        BY DEF h
      <3>2. \A i \in 0..n + 1 : next(f, i) = next(h, i)
        BY <2>4, Zenon
      <3> QED BY <3>1, <3>2, Zenon DEF FreeRun
    <2> QED BY <2>5
  <1> HIDE DEF T
  <1>3. \A n \in Nat : n \in T
    BY <1>1, <1>2, Induct
  <1> QED BY <1>3 DEF T

\* refresh_prune_socket keeps the record whole.
LEMMA RefreshPruneSocketWhole ==
    ASSUME NEW g, Whole(g), NEW k
    PROVE  /\ Whole(RefreshPruneSocket(g, k)) /\ Aside(RefreshPruneSocket(g, k), g)
  <1> DEFINE l == Those(g.refresh_list, {r \in Range(g.refresh_list) : r.nicesock = k})
             N == Len(l)
             f == CHOOSE f : f = [i \in 0..N |-> IF i = 0 THEN g ELSE FreeOne(f[i - 1], l[i])]
             ok(h) == Whole(h) /\ Aside(h, g)
  <1>0. Sound(g) /\ IsList(g.refresh_list)
    BY Zenon DEF Whole, Sound, Refreshing
  <1>1. N \in Nat
    BY <1>0, ThoseIsList, ListIs
  <1>2. RefreshPruneSocket(g, k) = f[N]
    BY Zenon DEF RefreshPruneSocket, Each, FreeOne
  <1> HIDE DEF N, l
  <1>3. f = [i \in 0..N |-> IF i = 0 THEN g ELSE FreeOne(f[i - 1], l[i])]
    <2>1. PICK r : FreeRun(r, g, l, N)
      BY <1>1, FreeRunExists
    <2>2. r = [i \in 0..N |-> IF i = 0 THEN g ELSE FreeOne(r[i - 1], l[i])]
      BY <2>1 DEF FreeRun
    <2> QED BY <2>2, Zenon
  <1> HIDE DEF f
  <1>4. \A i \in 0..N : f[i] = IF i = 0 THEN g ELSE FreeOne(f[i - 1], l[i])
    BY <1>3, Zenon
  <1>5. ASSUME NEW h, ok(h), NEW r PROVE ok(FreeOne(h, r))
    <2>1. CASE RefreshAt(h, r.id) = 0
      BY <1>5, <2>1, Zenon DEF FreeOne
    <2>2. CASE RefreshAt(h, r.id) # 0
      <3>1. Whole(RefreshFree(h, r.id)) /\ Aside(RefreshFree(h, r.id), h)
        BY <1>5, <2>2, RefreshFreeSound, Zenon DEF Whole
      <3> QED BY <1>5, <2>2, <3>1, AsideThrough, Zenon DEF FreeOne
    <2> QED BY <2>1, <2>2
  <1>6. ok(g)
    BY <1>0, AsideSelf, Zenon
  <1> HIDE DEF ok
  <1> DEFINE T == {n \in Nat : n <= N => ok(f[n])}
  <1>7. 0 \in T
    BY <1>1, <1>4, <1>6
  <1>8. ASSUME NEW n \in Nat, n \in T PROVE n + 1 \in T
    <2> SUFFICES ASSUME n + 1 <= N PROVE ok(f[n + 1])
      OBVIOUS
    <2>1. n + 1 \in 0..N /\ n + 1 # 0 /\ (n + 1) - 1 = n /\ n <= N
      BY <1>1
    <2>2. f[n + 1] = FreeOne(f[n], l[n + 1])
      BY <1>4, <2>1
    <2>3. ok(f[n])
      BY <1>8, <2>1
    <2> QED BY <1>5, <2>2, <2>3, Zenon
  <1> HIDE DEF T
  <1>9. \A n \in Nat : n \in T
    BY <1>7, <1>8, Induct
  <1>10. ok(f[N])
    BY <1>1, <1>9 DEF T
  <1> QED BY <1>2, <1>10, Zenon DEF ok

-----------------------------------------------------------------------------
(* Replies of the servers.                                                 *)

\* Another list for one stream.
Placed(f, s, l) == [f EXCEPT ![s] = l]

\* What the other streams have is left alone.
LEMMA PlacedIs ==
    ASSUME NEW f, DOMAIN f = Streams, NEW s, NEW l
    PROVE  /\ DOMAIN Placed(f, s, l) = Streams
           /\ \A q \in Streams : Placed(f, s, l)[q] = IF q = s THEN l ELSE f[q]
  BY Zenon DEF Placed

\* A stream gets another list of TURN servers ...
LEMMA PlacedServed ==
    ASSUME NEW ts, Served(ts), NEW s, NEW l, IsList(l)
    PROVE  Served(Placed(ts, s, l))
  BY PlacedIs DEF Served

\* ... or other candidates, which have to be on sockets of its own.
LEMMA PlacedBased ==
    ASSUME NEW lc, NEW socks, NEW streams, Based(lc, socks, streams), streams \subseteq Streams,
           NEW s, NEW l, IsList(l),
           s \in streams => \A c \in Range(l) : c.base \in socks /\ c.base[2] = s
    PROVE  Based(Placed(lc, s, l), socks, streams)
  <1> DEFINE k == Placed(lc, s, l)
  <1>1. DOMAIN lc = Streams /\ \A q \in Streams : IsList(lc[q])
    BY Zenon DEF Based
  <1>2. DOMAIN k = Streams /\ \A q \in Streams : k[q] = IF q = s THEN l ELSE lc[q]
    BY <1>1, PlacedIs
  <1> HIDE DEF k
  <1>3. \A q \in Streams : IsList(k[q])
    BY <1>1, <1>2, Zenon
  <1>4. \A q \in streams : \A c \in Range(k[q]) : c.base \in socks /\ c.base[2] = q
    <2> TAKE q \in streams
    <2>1. CASE q = s
      BY <1>2, <2>1, Zenon
    <2>2. CASE q # s
      BY <1>2, <2>2, Zenon DEF Based
    <2> QED BY <2>1, <2>2
  <1>5. Based(k, socks, streams)
    BY <1>2, <1>3, <1>4, Zenon DEF Based
  <1> QED BY <1>5 DEF k

\* A candidate on a socket of the stream may be added.
LEMMA AddLocalCandidateWhole ==
    ASSUME NEW g, Whole(g), NEW s \in g.streams, NEW c, c.base \in g.sockets, c.base[2] = s
    PROVE  Whole(AddLocalCandidate(g, s, c)) /\ Aside(AddLocalCandidate(g, s, c), g)
  <1> DEFINE lc == g.local_candidates
             l == Append(lc[s], c)
             h == [g EXCEPT !.local_candidates = Placed(lc, s, l)]
  <1>0. /\ Sound(g) /\ DOMAIN g = AgentFields /\ Based(lc, g.sockets, g.streams)
        /\ Served(g.turn_servers) /\ g.streams \subseteq Streams /\ g.pruning_streams \subseteq Streams
        /\ Itemized(g.discovery_list, g.sockets, g.streams)
        /\ Refreshing(g.refresh_list, g.streams)
    BY Zenon DEF Whole, Sound, Nested
  <1>1. AddLocalCandidate(g, s, c) = g \/ AddLocalCandidate(g, s, c) = h
    BY Zenon DEF AddLocalCandidate, Placed
  <1>2. IsList(lc[s]) /\ \A e \in Range(lc[s]) : e.base \in g.sockets /\ e.base[2] = s
    BY <1>0, Zenon DEF Based
  <1>3. IsList(l) /\ Range(l) \subseteq Range(lc[s]) \cup {c}
    BY <1>2, AppendIsList, Zenon
  <1> HIDE DEF l
  <1>4. Based(Placed(lc, s, l), g.sockets, g.streams)
    BY <1>0, <1>2, <1>3, PlacedBased, Zenon
  <1>5. /\ Aside(h, g) /\ h.pruning_streams = g.pruning_streams /\ h.sockets = g.sockets
        /\ h.local_candidates = Placed(lc, s, l) /\ h.turn_servers = g.turn_servers
        /\ h.refresh_list = g.refresh_list
    BY <1>0 DEF AgentFields, Aside, SameDiscovery
  <1> HIDE DEF h
  <1>6. Whole(h)
    BY <1>0, <1>4, <1>5, AsideSound, Zenon
  <1>7. Aside(g, g)
    BY <1>0, AsideSelf
  <1> QED BY <1>1, <1>5, <1>6, <1>7, Zenon

\* An item that is replaced, with the count that it calls for.
LEMMA ReplacedWhole ==
    ASSUME NEW g, Whole(g), NEW i \in 1..Len(g.discovery_list), NEW e,
           IsItem(e, g.sockets, g.streams), NEW n, n = g.discovery_unsched_items + 1,
           NEW h, Elsewhere(h, g), h.discovery_timer = g.discovery_timer,
           h.discovery_list = Written(g.discovery_list, i, e),
           \/ h.discovery_unsched_items = n
           \/ e.pending /\ h.discovery_unsched_items = g.discovery_unsched_items
    PROVE  Whole(h)
  <1> DEFINE l == g.discovery_list
             k == Written(l, i, e)
  <1>0. /\ Sound(g) /\ Itemized(l, g.sockets, g.streams) /\ IsList(l)
        /\ Counted(l, g.discovery_unsched_items) /\ g.discovery_unsched_items \in Nat
        /\ ~g.discovery_timer => l = <<>>
        /\ g.discovery_timer \in BOOLEAN
    BY Zenon DEF Whole, Sound, Itemized, Counted, Timed
  <1>1. /\ Itemized(k, g.sockets, g.streams) /\ k # <<>>
        /\ e.pending => Counted(k, g.discovery_unsched_items)
    BY <1>0, WrittenItem
  <1>2. Counted(k, n)
    <2>1. Cardinality(Unsent(k)) <= Cardinality(Unsent(l)) + 1
      BY <1>0, UnsentWritten
    <2>2. Cardinality(Unsent(l)) \in Nat /\ Cardinality(Unsent(k)) \in Nat
      BY <1>0, <1>1, UnsentFinite, Zenon DEF Itemized
    <2>3. Cardinality(Unsent(l)) <= g.discovery_unsched_items
      BY <1>0, SMTT(30), Z3T(30) DEF Counted
    <2>4. n \in Nat /\ Cardinality(Unsent(k)) <= n
      BY <1>0, <2>1, <2>2, <2>3
    <2> QED BY <1>1, <2>4, Zenon DEF Counted
  <1> HIDE DEF k
  <1>3. g.discovery_timer
    <2>1. l # <<>>
      BY EmptyIsList
    <2> QED BY <1>0, <2>1, Zenon
  <1>4. Itemized(h.discovery_list, h.sockets, h.streams)
    BY <1>1, Zenon DEF Elsewhere, k
  <1>5. Counted(h.discovery_list, h.discovery_unsched_items)
    BY <1>1, <1>2, Zenon DEF k
  <1>6. Timed(h.discovery_timer, h.discovery_list, h.discovery_unsched_items)
    BY <1>0, <1>1, <1>3, Zenon DEF Timed, k
  <1>7. Sound(h)
    BY <1>0, <1>4, <1>5, <1>6, ElsewhereSound, Zenon DEF Discovering
  <1> QED BY <1>3, <1>7, Zenon DEF Whole

\* An item that was sent may end.
LEMMA EndedWhole ==
    ASSUME NEW g, Whole(g), NEW i \in 1..Len(g.discovery_list), g.discovery_list[i].pending
    PROVE  Whole(SetDiscovery(g, i, Ended(g.discovery_list[i])))
  <1> DEFINE d == g.discovery_list[i]
             e == Ended(d)
             h == SetDiscovery(g, i, e)
             n == g.discovery_unsched_items + 1
  <1>0. Sound(g) /\ DOMAIN g = AgentFields /\ Itemized(g.discovery_list, g.sockets, g.streams)
    BY Zenon DEF Whole, Sound
  <1>1. IsItem(d, g.sockets, g.streams)
    <2>1. d \in Range(g.discovery_list)
      BY <1>0, ListIs DEF Itemized
    <2> QED BY <1>0, <2>1, Zenon DEF Itemized
  <1>2. /\ DOMAIN e = ItemFields /\ e.pending = d.pending /\ e.done = TRUE /\ e.open = FALSE
        /\ e.msg = None /\ e.sends = d.sends /\ e.nicesock = d.nicesock
        /\ e.stream_id = d.stream_id
    BY <1>1 DEF Ended, IsItem, ItemFields
  <1> HIDE DEF e
  <1>3. IsItem(e, g.sockets, g.streams) /\ e.pending
    BY <1>1, <1>2, Zenon DEF IsItem
  <1>4. /\ Elsewhere(h, g) /\ h.discovery_timer = g.discovery_timer
        /\ h.discovery_list = Written(g.discovery_list, i, e)
        /\ h.discovery_unsched_items = g.discovery_unsched_items
    BY <1>0 DEF SetDiscovery, AgentFields, Elsewhere, Written
  <1> HIDE DEF h, n
  <1>5. Whole(h)
    BY <1>3, <1>4, ReplacedWhole, Zenon DEF n
  <1> QED BY <1>5 DEF h, e

\* The item is sent again, to another server or with credentials.
LEMMA RescheduledWhole ==
    ASSUME NEW g, Whole(g), NEW i \in 1..Len(g.discovery_list), NEW d,
           IsItem(d, g.sockets, g.streams), ~d.done
    PROVE  Whole(Rescheduled(g, i, d))
  <1> DEFINE e == [d EXCEPT !.pending = FALSE, !.open = FALSE]
             n == g.discovery_unsched_items + 1
             h == Rescheduled(g, i, d)
  <1>0. DOMAIN g = AgentFields
    BY Zenon DEF Whole, Sound
  <1>1. /\ DOMAIN e = ItemFields /\ e.pending = FALSE /\ e.done = d.done /\ e.open = FALSE
        /\ e.sends = d.sends /\ e.nicesock = d.nicesock /\ e.stream_id = d.stream_id
    BY DEF IsItem, ItemFields
  <1> HIDE DEF e
  <1>2. IsItem(e, g.sockets, g.streams)
    BY <1>1, Zenon DEF IsItem
  <1>3. /\ Elsewhere(h, g) /\ h.discovery_timer = g.discovery_timer
        /\ h.discovery_list = Written(g.discovery_list, i, e)
        /\ h.discovery_unsched_items = n
    BY <1>0 DEF Rescheduled, SetDiscovery, AgentFields, Elsewhere, Written, e
  <1> HIDE DEF h, n
  <1>4. Whole(h)
    BY <1>2, <1>3, ReplacedWhole, Zenon DEF n
  <1> QED BY <1>4 DEF h

\* The reply is that to a request that has not been answered.
LEMMA AnsweredIs ==
    ASSUME NEW l, IsList(l), NEW tid, Answered(l, tid) # 0
    PROVE  /\ Answered(l, tid) \in 1..Len(l) /\ l[Answered(l, tid)].open
           /\ l[Answered(l, tid)] \in Range(l)
  <1> DEFINE I == {i \in DOMAIN l : l[i].msg = tid /\ l[i].open}
             i == Answered(l, tid)
  <1>1. i = FirstOf(I) /\ I \in SUBSET DOMAIN l /\ \A j \in I : l[j].open
    BY Zenon DEF Answered
  <1> HIDE DEF I
  <1>2. i \in I /\ i \in 1..Len(l)
    BY <1>1, FirstIs
  <1>3. l[i] \in Range(l)
    BY <1>2, ListIs
  <1> QED BY <1>1, <1>2, <1>3, Zenon

\* A reply to a discovery finds an item whose transaction is open.
LEMMA DiscoveryAtIs ==
    ASSUME NEW g, Sound(g), NEW tid, DiscoveryAt(g, tid) # 0
    PROVE  /\ DiscoveryAt(g, tid) \in 1..Len(g.discovery_list)
           /\ g.discovery_list[DiscoveryAt(g, tid)].open
           /\ IsItem(g.discovery_list[DiscoveryAt(g, tid)], g.sockets, g.streams)
  <1>1. Itemized(g.discovery_list, g.sockets, g.streams) /\ IsList(g.discovery_list)
    BY Zenon DEF Sound, Itemized
  <1> QED BY <1>1, AnsweredIs, Zenon DEF DiscoveryAt, Itemized

\* A reply to a refresh finds a refresh whose transaction is open.
LEMMA RefreshForIs ==
    ASSUME NEW g, Sound(g), NEW tid, RefreshFor(g, tid) # 0
    PROVE  /\ g.refresh_list[RefreshFor(g, tid)] \in Range(g.refresh_list)
           /\ g.refresh_list[RefreshFor(g, tid)].open
           /\ IsRefresh(g.refresh_list[RefreshFor(g, tid)], g.streams)
  <1>1. Refreshing(g.refresh_list, g.streams) /\ IsList(g.refresh_list)
    BY Zenon DEF Sound, Refreshing
  <1> QED BY <1>1, AnsweredIs, Zenon DEF RefreshFor, Refreshing

\* What the replies to an item may assume.
Replied(g, i) ==
    /\ i \in 1..Len(g.discovery_list) /\ g.discovery_list[i].open
    /\ IsItem(g.discovery_list[i], g.sockets, g.streams)

\* Another server or a realm leaves the item what it is.
LEMMA RedirectedItem ==
    ASSUME NEW d, NEW socks, NEW streams, IsItem(d, socks, streams), NEW x
    PROVE  /\ IsItem([d EXCEPT !.server = x], socks, streams)
           /\ IsItem([d EXCEPT !.realm = x], socks, streams)
           /\ [d EXCEPT !.server = x].done = d.done /\ [d EXCEPT !.realm = x].done = d.done
  <1> DEFINE a == [d EXCEPT !.server = x]
             b == [d EXCEPT !.realm = x]
  <1>1. \A e \in {a, b} :
          /\ DOMAIN e = ItemFields /\ e.pending = d.pending /\ e.done = d.done /\ e.open = d.open
          /\ e.msg = d.msg /\ e.sends = d.sends /\ e.nicesock = d.nicesock
          /\ e.stream_id = d.stream_id
    BY DEF IsItem, ItemFields
  <1> HIDE DEF a, b
  <1>2. IsItem(a, socks, streams) /\ IsItem(b, socks, streams)
    BY <1>1, Zenon DEF IsItem
  <1> QED BY <1>1, <1>2 DEF a, b

\* priv_map_reply_to_discovery_request keeps the record whole.
LEMMA ReplyToDiscoveryRequestWhole ==
    ASSUME NEW g, Whole(g), NEW i, Replied(g, i), NEW m
    PROVE  Whole(ReplyToDiscoveryRequest(g, i, m))
  <1> DEFINE d == g.discovery_list[i]
             c == Candidate("SERVER_REFLEXIVE", m.mapped, d.nicesock, None)
             e == [d EXCEPT !.server = m.alternate]
             f == AddLocalCandidate(g, d.stream_id, c)
  <1>0. /\ i \in 1..Len(g.discovery_list) /\ IsItem(d, g.sockets, g.streams)
        /\ d.pending /\ ~d.done /\ d.nicesock \in g.sockets /\ d.nicesock[2] = d.stream_id
        /\ d.stream_id \in g.streams
    BY Zenon DEF Replied, IsItem
  <1>1. \/ ReplyToDiscoveryRequest(g, i, m) = Rescheduled(g, i, e)
        \/ ReplyToDiscoveryRequest(g, i, m) = SetDiscovery(f, i, Ended(d))
        \/ ReplyToDiscoveryRequest(g, i, m) = SetDiscovery(g, i, Ended(d))
    BY DEF ReplyToDiscoveryRequest, AddServerReflexive
  <1>2. Whole(Rescheduled(g, i, e))
    <2>1. IsItem(e, g.sockets, g.streams) /\ ~e.done
      BY <1>0, RedirectedItem
    <2> HIDE DEF e
    <2> QED BY <1>0, <2>1, RescheduledWhole
  <1>3. Whole(SetDiscovery(g, i, Ended(d)))
    BY <1>0, EndedWhole
  <1>4. Whole(SetDiscovery(f, i, Ended(d)))
    <2>1. c.base = d.nicesock
      BY DEF Candidate
    <2> HIDE DEF c
    <2>2. Whole(f) /\ Aside(f, g)
      BY <1>0, <2>1, AddLocalCandidateWhole
    <2>3. f.discovery_list = g.discovery_list
      BY <2>2, Zenon DEF Aside, SameDiscovery
    <2> HIDE DEF f
    <2>4. f.discovery_list[i] = d /\ i \in 1..Len(f.discovery_list)
      BY <1>0, <2>3, Zenon
    <2> HIDE DEF d
    <2>5. Whole(SetDiscovery(f, i, Ended(f.discovery_list[i])))
      BY <1>0, <2>2, <2>4, EndedWhole
    <2> QED BY <2>4, <2>5
  <1> HIDE DEF d, e, f
  <1> QED BY <1>1, <1>2, <1>3, <1>4, Zenon

\* A refresh may be added.
LEMMA RefreshAppended ==
    ASSUME NEW g, Whole(g), NEW r, IsRefresh(r, g.streams)
    PROVE  /\ Whole([g EXCEPT !.refresh_list = Append(@, r)])
           /\ Aside([g EXCEPT !.refresh_list = Append(@, r)], g)
  <1> DEFINE l == g.refresh_list
             k == Append(l, r)
             h == [g EXCEPT !.refresh_list = k]
  <1>0. Sound(g) /\ DOMAIN g = AgentFields /\ Refreshing(l, g.streams)
    BY Zenon DEF Whole, Sound
  <1>1. IsList(k) /\ Range(k) \subseteq Range(l) \cup {r}
    BY <1>0, AppendIsList DEF Refreshing
  <1> HIDE DEF k
  <1>2. Refreshing(k, g.streams)
    BY <1>0, <1>1, Zenon DEF Refreshing
  <1>3. /\ Aside(h, g) /\ h.pruning_streams = g.pruning_streams
        /\ h.local_candidates = g.local_candidates /\ h.sockets = g.sockets
        /\ h.turn_servers = g.turn_servers /\ h.refresh_list = k
    BY <1>0 DEF AgentFields, Aside, SameDiscovery
  <1> HIDE DEF h
  <1>4. Whole(h)
    BY <1>0, <1>2, <1>3, RefreshesOnly, Zenon
  <1> QED BY <1>3, <1>4 DEF h, k

\* A relayed candidate comes with its refresh, unless it is redundant.
LEMMA AddRelayCandidateWhole ==
    ASSUME NEW g, Whole(g), NEW d, IsItem(d, g.sockets, g.streams), NEW addr
    PROVE  /\ Whole(AddRelayCandidate(g, d, addr)) /\ Aside(AddRelayCandidate(g, d, addr), g)
  <1> DEFINE c == Candidate("RELAYED", addr, d.nicesock, Id(d))
             r == Refresh(d)
             r1 == [r EXCEPT !.timer = TRUE]
             f == [g EXCEPT !.refresh_list = Append(@, r)]
             k == AddLocalCandidate(g, d.stream_id, c)
             h == [k EXCEPT !.refresh_list = Append(@, r1)]
  <1>0. d.nicesock \in g.sockets /\ d.nicesock[2] = d.stream_id /\ d.stream_id \in g.streams
    BY Zenon DEF IsItem
  <1>1. \/ AddRelayCandidate(g, d, addr) = PruneRelayCandidate(f, r.id)
        \/ AddRelayCandidate(g, d, addr) = h
    BY Zenon DEF AddRelayCandidate
  <1>2. \A x \in {r, r1} :
          /\ DOMAIN x = RefreshFields /\ x.sends = 0 /\ x.zero = FALSE /\ x.disposing = FALSE
          /\ x.open = FALSE /\ x.tick = FALSE
    BY DEF Refresh, RefreshFields
  <1>3. c.base = d.nicesock /\ r.timer = FALSE /\ r1.timer = TRUE
    BY DEF Candidate, Refresh
  <1> HIDE DEF r, r1, c
  <1>4. 0 \in 0..Transmissions
    BY GatheringAssumption
  <1>5. \A streams : AnyRefresh(r, streams) /\ IsRefresh(r1, streams)
    BY <1>2, <1>3, <1>4, Zenon DEF IsRefresh, AnyRefresh, OneTimer
  <1>6. Sound(g) /\ Prunable(f, g, {r.id})
    <2>1. Sound(g) /\ DOMAIN g = AgentFields /\ Refreshing(g.refresh_list, g.streams)
      BY Zenon DEF Whole, Sound
    <2> DEFINE l == Append(g.refresh_list, r)
    <2>2. IsList(l) /\ Range(l) \subseteq Range(g.refresh_list) \cup {r}
      BY <2>1, AppendIsList DEF Refreshing
    <2> HIDE DEF l
    <2>3. /\ DOMAIN f = AgentFields /\ Aside(f, g) /\ f.pruning_streams = g.pruning_streams
          /\ f.local_candidates = g.local_candidates /\ f.sockets = g.sockets
          /\ f.turn_servers = g.turn_servers /\ f.refresh_list = l
      BY <2>1 DEF AgentFields, Aside, SameDiscovery, l
    <2> HIDE DEF f
    <2>4. \A x \in Range(l) :
            \/ IsRefresh(x, g.streams)
            \/ AnyRefresh(x, g.streams) /\ x.id \in {r.id} /\ ~x.disposing
      BY <1>2, <1>5, <2>1, <2>2, Zenon DEF Refreshing
    <2> QED BY <2>1, <2>2, <2>3, <2>4, Zenon DEF Prunable
  <1>7. Whole(k) /\ Aside(k, g)
    BY <1>0, <1>3, AddLocalCandidateWhole
  <1> HIDE DEF f, k
  <1>8. Whole(PruneRelayCandidate(f, r.id)) /\ Aside(PruneRelayCandidate(f, r.id), g)
    <2>1. Callback(<<"candidate", r.id>>, g.streams)
      BY DEF Callback
    <2> QED BY <1>6, <2>1, PrunableSound, Zenon DEF PruneRelayCandidate
  <1>9. Whole(h) /\ Aside(h, g)
    <2>1. Whole(h) /\ Aside(h, k)
      BY <1>5, <1>7, RefreshAppended
    <2> HIDE DEF h
    <2> QED BY <1>7, <2>1, AsideThrough, Zenon
  <1> HIDE DEF h
  <1> QED BY <1>1, <1>8, <1>9, Zenon

\* All items of the server move, and each is counted anew.
LEMMA TurnAlternateServerWhole ==
    ASSUME NEW g, Whole(g), g.discovery_list # <<>>, NEW d, NEW alternate
    PROVE  Whole(TurnAlternateServer(g, d, alternate))
  <1> DEFINE moves(e) == /\ ~e.done /\ e.type = d.type /\ e.stream_id = d.stream_id
                         /\ e.server = d.server
             moved(e) == [e EXCEPT !.msg = None, !.open = FALSE, !.pending = FALSE,
                                   !.server = alternate]
             l == g.discovery_list
             n == g.discovery_unsched_items
             M == {i \in DOMAIN l : moves(l[i])}
             k == [i \in DOMAIN l |-> IF moves(l[i]) THEN moved(l[i]) ELSE l[i]]
             keys == {e.turn : e \in {x \in Range(l) : moves(x)}}
             server(t) == IF t.key \in keys THEN [t EXCEPT !.server = alternate] ELSE t
             ts == g.turn_servers
             s == d.stream_id
             q == [i \in DOMAIN ts[s] |-> server(ts[s][i])]
             h == TurnAlternateServer(g, d, alternate)
  <1>0. /\ Sound(g) /\ DOMAIN g = AgentFields /\ Itemized(l, g.sockets, g.streams) /\ IsList(l)
        /\ Counted(l, n) /\ Served(ts) /\ g.discovery_timer
    BY Zenon DEF Whole, Sound, Itemized
  <1>1. h = [g EXCEPT !.discovery_list = k \o <<>>,
                      !.discovery_unsched_items = n + Cardinality(M),
                      !.turn_servers = Placed(ts, s, q \o <<>>)]
    BY Zenon DEF TurnAlternateServer, Placed
  <1>2. Len(l) \in Nat /\ DOMAIN l = 1..Len(l)
    BY <1>0, ListIs
  <1>3. \A i \in 1..Len(l) : k[i] = IF i \in M THEN moved(l[i]) ELSE l[i]
    BY <1>2, Zenon
  <1>4. k = [i \in DOMAIN l |-> k[i]]
    BY Zenon
  <1>5. M \subseteq 1..Len(l) /\ \A i \in M : ~l[i].done
    BY <1>2, Zenon
  <1>6. q = [i \in DOMAIN ts[s] |-> q[i]]
    BY Zenon
  <1> HIDE DEF k, M, q, h
  <1>7. /\ k \o <<>> = k /\ IsList(k) /\ Len(k) = Len(l)
        /\ \A x \in Range(k) : \E i \in 1..Len(l) : x = k[i] /\ l[i] \in Range(l)
    BY <1>0, <1>4, MappedIsList
  <1>8. /\ DOMAIN h = AgentFields /\ h.streams = g.streams
        /\ h.pruning_streams = g.pruning_streams /\ h.gathering_started = g.gathering_started
        /\ h.gathering = g.gathering /\ h.local_candidates = g.local_candidates
        /\ h.sockets = g.sockets /\ h.lookups = g.lookups /\ h.refresh_list = g.refresh_list
        /\ h.close = g.close /\ h.failed = g.failed /\ h.discovery_timer = g.discovery_timer
        /\ h.discovery_list = k /\ h.discovery_unsched_items = n + Cardinality(M)
        /\ h.turn_servers = Placed(ts, s, q \o <<>>)
    BY <1>0, <1>1, <1>7 DEF AgentFields
  <1>9. Served(h.turn_servers)
    <2>1. CASE s \in Streams
      <3>1. IsList(ts[s])
        BY <1>0, <2>1, Zenon DEF Served
      <3>2. q \o <<>> = q /\ IsList(q)
        BY <1>6, <3>1, MappedIsList
      <3> QED BY <1>0, <1>8, <3>2, PlacedServed
    <2>2. CASE s \notin Streams
      <3>1. DOMAIN ts = Streams
        BY <1>0, Zenon DEF Served
      <3>2. /\ DOMAIN Placed(ts, s, q \o <<>>) = Streams
            /\ \A p \in Streams : Placed(ts, s, q \o <<>>)[p] = ts[p]
        BY <2>2, <3>1, PlacedIs
      <3> QED BY <1>0, <1>8, <3>2, Zenon DEF Served
    <2> QED BY <2>1, <2>2
  <1>10. \A e : IsItem(e, g.sockets, g.streams) /\ ~e.done
                  => IsItem(moved(e), g.sockets, g.streams)
    <2> TAKE e
    <2> HAVE IsItem(e, g.sockets, g.streams) /\ ~e.done
    <2> DEFINE z == moved(e)
    <2>1. /\ DOMAIN z = ItemFields /\ z.pending = FALSE /\ z.done = e.done /\ z.open = FALSE
          /\ z.sends = e.sends /\ z.nicesock = e.nicesock /\ z.stream_id = e.stream_id
      BY DEF IsItem, ItemFields
    <2> HIDE DEF z
    <2>2. IsItem(z, g.sockets, g.streams)
      BY <2>1, Zenon DEF IsItem
    <2> QED BY <2>2, SMTT(30), Z3T(30) DEF z
  <1>11. Itemized(k, g.sockets, g.streams)
    <2> HIDE DEF moved
    <2>1. ASSUME NEW x \in Range(k) PROVE IsItem(x, g.sockets, g.streams)
      <3>1. PICK i \in 1..Len(l) : x = k[i] /\ l[i] \in Range(l)
        BY <1>7, Zenon
      <3>2. IsItem(l[i], g.sockets, g.streams)
        BY <1>0, <3>1, Zenon DEF Itemized
      <3>3. CASE i \in M
        BY <1>3, <1>5, <1>10, <3>1, <3>2, <3>3, Zenon
      <3>4. CASE i \notin M
        BY <1>3, <3>1, <3>2, <3>4, Zenon
      <3> QED BY <3>3, <3>4
    <2> QED BY <1>7, <2>1, Zenon DEF Itemized
  <1>12. k # <<>>
    BY <1>0, <1>7, EmptyIsList, Zenon
  <1>13. Counted(k, n + Cardinality(M))
    <2>1. DOMAIN k = 1..Len(l)
      BY <1>7, ListIs
    <2>2. Unsent(k) \subseteq Unsent(l) \cup M
      BY <1>2, <1>3, <2>1, Zenon DEF Unsent
    <2>3. IsFiniteSet(1..Len(l))
      <3>1. ASSUME NEW a \in Nat PROVE IsFiniteSet(1..a)
        BY FS_Interval
      <3> QED BY <1>2, <3>1
    <2>4. IsFiniteSet(M) /\ IsFiniteSet(Unsent(l))
      BY <1>0, <1>5, <2>3, FS_Subset, UnsentFinite
    <2>5. /\ Cardinality(Unsent(k)) <= Cardinality(Unsent(l)) + Cardinality(M)
          /\ Cardinality(Unsent(l)) \in Nat /\ Cardinality(M) \in Nat
          /\ Cardinality(Unsent(k)) \in Nat
      BY <2>2, <2>4, AtMost
    <2>6. n \in Nat /\ Cardinality(Unsent(l)) <= n
      BY <1>0, Zenon DEF Counted
    <2>7. n + Cardinality(M) \in Nat /\ Cardinality(Unsent(k)) <= n + Cardinality(M)
      BY <2>5, <2>6
    <2> QED BY <1>12, <2>7, Zenon DEF Counted
  <1>14. Timed(h.discovery_timer, k, n + Cardinality(M))
    <2>1. g.discovery_timer \in BOOLEAN
      BY <1>0, Zenon DEF Sound, Timed
    <2> QED BY <1>0, <1>8, <1>12, <2>1, Zenon DEF Timed
  <1>15. Sound(h)
    BY <1>0, <1>8, <1>9, <1>11, <1>13, <1>14, Zenon DEF Sound
  <1>16. Whole(h)
    BY <1>0, <1>8, <1>15, Zenon DEF Whole
  <1> QED BY <1>16 DEF h

\* priv_map_reply_to_relay_request keeps the record whole.
LEMMA ReplyToRelayRequestWhole ==
    ASSUME NEW g, Whole(g), NEW i, Replied(g, i), NEW m
    PROVE  Whole(ReplyToRelayRequest(g, i, m))
  <1> DEFINE d == g.discovery_list[i]
             c == Candidate("SERVER_REFLEXIVE", m.mapped, d.nicesock, None)
             e == [d EXCEPT !.realm = TRUE]
             f == AddLocalCandidate(g, d.stream_id, c)
             k == AddRelayCandidate(f, d, m.addr)
  <1>0. /\ i \in 1..Len(g.discovery_list) /\ IsItem(d, g.sockets, g.streams)
        /\ d.pending /\ ~d.done /\ d.nicesock \in g.sockets /\ d.nicesock[2] = d.stream_id
        /\ d.stream_id \in g.streams
    BY Zenon DEF Replied, IsItem
  <1>1. \/ ReplyToRelayRequest(g, i, m) = TurnAlternateServer(g, d, m.alternate)
        \/ ReplyToRelayRequest(g, i, m) = SetDiscovery(k, i, Ended(d))
        \/ ReplyToRelayRequest(g, i, m) = Rescheduled(g, i, e)
        \/ ReplyToRelayRequest(g, i, m) = SetDiscovery(g, i, Ended(d))
    BY DEF ReplyToRelayRequest, AddServerReflexive
  <1>2. Whole(Rescheduled(g, i, e))
    <2>1. IsItem(e, g.sockets, g.streams) /\ ~e.done
      BY <1>0, RedirectedItem
    <2> HIDE DEF e
    <2> QED BY <1>0, <2>1, RescheduledWhole
  <1>3. Whole(SetDiscovery(g, i, Ended(d)))
    BY <1>0, EndedWhole
  <1>4. Whole(SetDiscovery(k, i, Ended(d)))
    <2>1. c.base = d.nicesock
      BY DEF Candidate
    <2> HIDE DEF c
    <2>2. Whole(f) /\ Aside(f, g)
      BY <1>0, <2>1, AddLocalCandidateWhole
    <2>3. f.discovery_list = g.discovery_list /\ Itemized(f.discovery_list, f.sockets, f.streams)
      BY <2>2, Zenon DEF Aside, SameDiscovery, Whole, Sound
    <2> HIDE DEF f
    <2>4. d \in Range(f.discovery_list)
      BY <1>0, <2>3, ListIs DEF Itemized
    <2>5. IsItem(d, f.sockets, f.streams)
      BY <2>3, <2>4, Zenon DEF Itemized
    <2>6. Whole(k) /\ Aside(k, f)
      BY <2>2, <2>5, AddRelayCandidateWhole
    <2> HIDE DEF k
    <2>7. k.discovery_list = g.discovery_list
      BY <2>3, <2>6, Zenon DEF Aside, SameDiscovery
    <2>8. k.discovery_list[i] = d /\ i \in 1..Len(k.discovery_list)
      BY <1>0, <2>7, Zenon
    <2> HIDE DEF d
    <2>9. Whole(SetDiscovery(k, i, Ended(k.discovery_list[i])))
      BY <1>0, <2>6, <2>8, EndedWhole
    <2> QED BY <2>8, <2>9
  <1>5. Whole(TurnAlternateServer(g, d, m.alternate))
    <2>1. g.discovery_list # <<>>
      BY <1>0, EmptyIsList
    <2> HIDE DEF d
    <2> QED BY <2>1, TurnAlternateServerWhole, Zenon
  <1> HIDE DEF d, e, k
  <1> QED BY <1>1, <1>2, <1>3, <1>4, <1>5, Zenon

\* priv_map_reply_to_relay_refresh and _remove keep the record whole.
LEMMA ReplyToRelayRefreshWhole ==
    ASSUME NEW g, Whole(g), NEW r \in Range(g.refresh_list), r.open, IsRefresh(r, g.streams), NEW m
    PROVE  /\ ~r.disposing => Whole(ReplyToRelayRefresh(g, r, m))
           /\ Whole(ReplyToRelayRemove(g, r))
  <1> DEFINE a == [r EXCEPT !.open = FALSE, !.timer = TRUE, !.tick = FALSE]
             b == [r EXCEPT !.realm = TRUE]
  <1>0. Sound(g) /\ IsList(g.refresh_list) /\ r.tick
    BY Zenon DEF Whole, Sound, Refreshing, IsRefresh, AnyRefresh
  <1>1. \/ ReplyToRelayRefresh(g, r, m) = SetRefresh(g, a)
        \/ ReplyToRelayRefresh(g, r, m) = RefreshTickUnlocked(g, b)
        \/ ReplyToRelayRefresh(g, r, m) = RefreshFree(g, r.id)
    BY <1>0 DEF ReplyToRelayRefresh
  <1>2. /\ DOMAIN a = RefreshFields /\ a.sends = r.sends /\ a.zero = r.zero
        /\ a.open = FALSE /\ a.disposing = r.disposing /\ a.cb = r.cb
        /\ DOMAIN b = RefreshFields /\ b.sends = r.sends /\ b.zero = r.zero
        /\ b.open = r.open /\ b.tick = r.tick /\ b.disposing = r.disposing /\ b.cb = r.cb
        /\ a.timer = TRUE /\ a.tick = FALSE /\ b.timer = r.timer
    BY DEF IsRefresh, AnyRefresh, RefreshFields
  <1> HIDE DEF a, b
  <1>3. (~r.disposing => IsRefresh(a, g.streams)) /\ AnyRefresh(b, g.streams)
    <2>1. AnyRefresh(a, g.streams) /\ AnyRefresh(b, g.streams)
      BY <1>2, Zenon DEF IsRefresh, AnyRefresh
    <2>2. ~r.disposing => OneTimer(a)
      BY <1>2, Zenon DEF OneTimer
    <2> QED BY <2>1, <2>2 DEF IsRefresh
  <1>4. (~r.disposing => Whole(SetRefresh(g, a))) /\ Whole(RefreshTickUnlocked(g, b))
    BY <1>0, <1>3, SetRefreshSound, RefreshTickWhole
  <1>5. RefreshAt(g, r.id) # 0
    BY <1>0, RefreshAtIs, Zenon
  <1>6. Whole(RefreshFree(g, r.id))
    BY <1>0, <1>5, RefreshFreeSound, Zenon
  <1> QED BY <1>1, <1>4, <1>6, Zenon DEF ReplyToRelayRemove

\* Whatever the servers answer, and whenever.
LEMMA HandleReplyWhole ==
    ASSUME NEW g, Whole(g), NEW m
    PROVE  Whole(HandleReply(g, m))
  <1> DEFINE i == DiscoveryAt(g, m.tid)
             j == RefreshFor(g, m.tid)
             r == g.refresh_list[j]
  <1>0. Sound(g)
    BY DEF Whole
  <1>1. CASE i # 0
    <2>1. Replied(g, i)
      BY <1>0, <1>1, DiscoveryAtIs DEF Replied
    <2>2. \/ HandleReply(g, m) = ReplyToRelayRequest(g, i, m)
          \/ HandleReply(g, m) = ReplyToDiscoveryRequest(g, i, m)
      <3> HIDE DEF i, j
      <3>1. HandleReply(g, m) =
              CASE i # 0 /\ g.discovery_list[i].type = "RELAYED" -> ReplyToRelayRequest(g, i, m)
                [] i # 0 /\ g.discovery_list[i].type # "RELAYED" -> ReplyToDiscoveryRequest(g, i, m)
                [] i = 0 /\ j = 0 -> g
                [] i = 0 /\ j # 0 /\ ~g.refresh_list[j].disposing ->
                     ReplyToRelayRefresh(g, g.refresh_list[j], m)
                [] OTHER -> ReplyToRelayRemove(g, g.refresh_list[j])
        BY DEF HandleReply, i, j
      <3> QED BY <1>1, <3>1
    <2> HIDE DEF i
    <2> QED BY <2>1, <2>2, ReplyToRelayRequestWhole, ReplyToDiscoveryRequestWhole, Zenon
  <1>2. CASE i = 0 /\ j = 0
    BY <1>2 DEF HandleReply
  <1>3. CASE i = 0 /\ j # 0
    <2>1. r \in Range(g.refresh_list) /\ r.open /\ IsRefresh(r, g.streams)
      BY <1>0, <1>3, RefreshForIs
    <2>2. \/ ~r.disposing /\ HandleReply(g, m) = ReplyToRelayRefresh(g, r, m)
          \/ HandleReply(g, m) = ReplyToRelayRemove(g, r)
      BY <1>3 DEF HandleReply
    <2> HIDE DEF r
    <2> QED BY <2>1, <2>2, ReplyToRelayRefreshWhole, Zenon
  <1> QED BY <1>1, <1>2, <1>3
=============================================================================
