------------------- MODULE KeeperStorageSnapshotProofs -------------------
(***************************************************************************)
(* The snapshot thread reads the list of SnapshotableHashTable without a   *)
(* lock while requests change it: it finds every element of the snapshot   *)
(* as it was, never runs past the end, and writes a file from which the    *)
(* map is read back as it was when the snapshot was taken.                 *)
(***************************************************************************)
EXTENDS KeeperStorageSnapshot, SnapshotableHashTableProofs

\* Most steps are about sets and functions; those with arithmetic, sequences
\* or records say which other prover they need.
USE Zenon

-----------------------------------------------------------------------------
(***************************************************************************)
(* What the elements of a list take: a sum over a set of iterators.        *)
(***************************************************************************)

Bytes(l, S) == MapThenSumSet(LAMBDA i : ElemSize(l[i]), S)

\* The element that is counted next.
Pick(s) == CHOOSE x \in s : TRUE

\* The sums over the subsets of S with at most n elements.
Summing(g, l, S, n) ==
    g = [s \in {r \in SUBSET S : Cardinality(r) <= n} |->
             IF s = {} THEN 0 ELSE ElemSize(l[Pick(s)]) + g[s \ {Pick(s)}]]

\* A subset without one element has one element less.
LEMMA SmallerSubset ==
    ASSUME NEW S, IsFiniteSet(S), NEW s \in SUBSET S, s # {}
    PROVE  /\ Pick(s) \in s /\ s \ {Pick(s)} \in SUBSET S
           /\ Cardinality(s) \in Nat
           /\ Cardinality(s \ {Pick(s)}) = Cardinality(s) - 1
<1>1. Pick(s) \in s
  BY DEF Pick
<1>2. IsFiniteSet(s) /\ Cardinality(s) \in Nat
  BY FS_Subset, FS_CardinalityType
<1> QED BY <1>1, <1>2, FS_RemoveElement

\* There are such sums, ...
LEMMA SummingExists ==
    ASSUME NEW l, NEW S, IsFiniteSet(S), NEW n \in Nat
    PROVE  \E g : Summing(g, l, S, n)
<1> DEFINE G == {i \in 0 .. n : \E g : Summing(g, l, S, i)}
           Subs(i) == {r \in SUBSET S : Cardinality(r) <= i}
<1>0. \A s \in SUBSET S : IsFiniteSet(s) /\ Cardinality(s) \in Nat
  BY FS_Subset, FS_CardinalityType
<1>1. 0 \in G
  <2> DEFINE g == [s \in Subs(0) |-> 0]
  <2>1. \A s \in Subs(0) : s = {}
    BY <1>0, FS_EmptySet, SMT
  <2>2. g = [s \in Subs(0) |->
                 IF s = {} THEN 0 ELSE ElemSize(l[Pick(s)]) + g[s \ {Pick(s)}]]
    BY <2>1
  <2>3. Summing(g, l, S, 0)
    BY <2>2, Zenon DEF Summing
  <2>4. 0 \in 0 .. n
    BY SMT
  <2> QED BY <2>3, <2>4
<1>2. ASSUME NEW i \in 0 .. n - 1, i \in G PROVE i + 1 \in G
  <2>1. PICK g : Summing(g, l, S, i)
    BY <1>2
  <2> DEFINE h == [s \in Subs(i + 1) |->
                       IF s = {} THEN 0
                       ELSE ElemSize(l[Pick(s)]) + g[s \ {Pick(s)}]]
  <2>2. ASSUME NEW s \in Subs(i) PROVE s \in Subs(i + 1) /\ h[s] = g[s]
    <3>1. s \in Subs(i + 1)
      BY <1>0, SMT
    <3>2. g[s] = IF s = {} THEN 0 ELSE ElemSize(l[Pick(s)]) + g[s \ {Pick(s)}]
      BY <2>1 DEF Summing
    <3> QED BY <3>1, <3>2
  <2>3. ASSUME NEW s \in Subs(i + 1), s # {}
        PROVE  s \ {Pick(s)} \in Subs(i)
    BY <2>3, SmallerSubset, SMT
  <2>4. ASSUME NEW s \in Subs(i + 1)
        PROVE  h[s] = IF s = {} THEN 0
                      ELSE ElemSize(l[Pick(s)]) + h[s \ {Pick(s)}]
    BY <2>2, <2>3
  <2>5. h = [s \in Subs(i + 1) |-> h[s]]
    OBVIOUS
  <2> HIDE DEF h
  <2>6. Summing(h, l, S, i + 1)
    BY <2>4, <2>5, Zenon DEF Summing
  <2>7. i + 1 \in 0 .. n
    BY SMT
  <2> QED BY <2>6, <2>7
<1> HIDE DEF G
<1>3. \A i \in 0 .. n : i \in G
  BY <1>1, <1>2, UpTo
<1>4. n \in G
  BY <1>3, SMT
<1> QED BY <1>4 DEF G

\* The sums over all the subsets of S.
Sums(g, l, S) ==
    g = [s \in SUBSET S |->
             IF s = {} THEN 0 ELSE ElemSize(l[Pick(s)]) + g[s \ {Pick(s)}]]

\* ... also over all subsets of a finite set, and Bytes() is the last of them.
LEMMA BytesSums ==
    ASSUME NEW l, NEW S, IsFiniteSet(S)
    PROVE  \E g : Sums(g, l, S) /\ Bytes(l, S) = g[S]
<1> DEFINE h == CHOOSE g : g = [s \in SUBSET S |->
                                    IF s = {} THEN 0
                                    ELSE ElemSize(l[CHOOSE x \in s : TRUE])
                                             + g[s \ {CHOOSE x \in s : TRUE}]]
<1>1. Bytes(l, S) = h[S]
  BY DEF Bytes, MapThenSumSet, MapThenFoldSet
<1>2. Cardinality(S) \in Nat
  BY FS_CardinalityType
<1>3. PICK g : Summing(g, l, S, Cardinality(S))
  BY <1>2, SummingExists
<1>4. {r \in SUBSET S : Cardinality(r) <= Cardinality(S)} = SUBSET S
  BY FS_Subset
<1>5. Sums(g, l, S)
  BY <1>3, <1>4, Zenon DEF Summing, Sums
<1>6. Sums(h, l, S)
  BY <1>5, Zenon DEF Sums, Pick
<1> HIDE DEF h
<1> QED BY <1>1, <1>6

\* The sum over a subset does not depend on what it is a subset of.
LEMMA SumsAgree ==
    ASSUME NEW l, NEW S, IsFiniteSet(S), NEW T \in SUBSET S,
           NEW g, Sums(g, l, S), NEW h, Sums(h, l, T)
    PROVE  \A s \in SUBSET T : g[s] = h[s]
<1> DEFINE G == {s \in SUBSET T : g[s] = h[s]}
<1>1. ASSUME NEW s \in SUBSET T, \A x \in s : s \ {x} \in G PROVE s \in G
  <2>1. /\ g[s] = IF s = {} THEN 0 ELSE ElemSize(l[Pick(s)]) + g[s \ {Pick(s)}]
        /\ h[s] = IF s = {} THEN 0 ELSE ElemSize(l[Pick(s)]) + h[s \ {Pick(s)}]
    BY DEF Sums
  <2>2. s # {} => Pick(s) \in s
    BY DEF Pick
  <2> QED BY <1>1, <2>1, <2>2
<1>2. IsFiniteSet(T)
  BY FS_Subset
<1> HIDE DEF G
<1>3. \A s \in SUBSET T : s \in G
  BY <1>1, <1>2, FiniteInduction
<1> QED BY <1>3 DEF G

\* Bytes() counts one element and the rest.
LEMMA BytesPick ==
    ASSUME NEW l, NEW S, IsFiniteSet(S)
    PROVE  /\ S = {} => Bytes(l, S) = 0
           /\ S # {} => Bytes(l, S) = ElemSize(l[Pick(S)]) + Bytes(l, S \ {Pick(S)})
<1>1. PICK g : Sums(g, l, S) /\ Bytes(l, S) = g[S]
  BY BytesSums
<1>2. g[S] = IF S = {} THEN 0 ELSE ElemSize(l[Pick(S)]) + g[S \ {Pick(S)}]
  BY <1>1 DEF Sums
<1>3. ASSUME S # {} PROVE g[S \ {Pick(S)}] = Bytes(l, S \ {Pick(S)})
  <2> DEFINE T == S \ {Pick(S)}
  <2>1. T \in SUBSET S /\ IsFiniteSet(T)
    BY FS_Subset
  <2>2. PICK h : Sums(h, l, T) /\ Bytes(l, T) = h[T]
    BY <2>1, BytesSums
  <2> HIDE DEF T
  <2>3. \A s \in SUBSET T : g[s] = h[s]
    BY <1>1, <2>1, <2>2, SumsAgree, SMT
  <2>4. g[T] = h[T]
    BY <2>3
  <2> QED BY <2>2, <2>4 DEF T
<1> QED BY <1>1, <1>2, <1>3

\* The sum is a natural number, ...
LEMMA BytesNat ==
    ASSUME NEW l, NEW S, IsFiniteSet(S), \A x \in S : ElemSize(l[x]) \in Nat
    PROVE  Bytes(l, S) \in Nat
<1> DEFINE G == {s \in SUBSET S : Bytes(l, s) \in Nat}
<1>1. ASSUME NEW s \in SUBSET S, \A x \in s : s \ {x} \in G PROVE s \in G
  <2>1. IsFiniteSet(s)
    BY FS_Subset
  <2>2. s # {} => Pick(s) \in s
    BY DEF Pick
  <2>3. CASE s = {}
    BY <2>1, <2>3, BytesPick, SMT
  <2>4. CASE s # {}
    <3>1. Bytes(l, s) = ElemSize(l[Pick(s)]) + Bytes(l, s \ {Pick(s)})
      BY <2>1, <2>4, BytesPick
    <3>2. Bytes(l, s \ {Pick(s)}) \in Nat /\ ElemSize(l[Pick(s)]) \in Nat
      BY <1>1, <2>2, <2>4
    <3> QED BY <3>1, <3>2, SMT
  <2> QED BY <2>3, <2>4
<1> HIDE DEF G
<1>2. \A s \in SUBSET S : s \in G
  BY <1>1, FiniteInduction
<1> QED BY <1>2 DEF G

\* ... and the same for elements of the same size.
LEMMA BytesSame ==
    ASSUME NEW l, NEW m, NEW S, IsFiniteSet(S),
           \A x \in S : ElemSize(l[x]) = ElemSize(m[x])
    PROVE  Bytes(l, S) = Bytes(m, S)
<1> DEFINE G == {s \in SUBSET S : Bytes(l, s) = Bytes(m, s)}
<1>1. ASSUME NEW s \in SUBSET S, \A x \in s : s \ {x} \in G PROVE s \in G
  <2>1. IsFiniteSet(s)
    BY FS_Subset
  <2>2. s # {} => Pick(s) \in s
    BY DEF Pick
  <2>3. CASE s = {}
    BY <2>1, <2>3, BytesPick
  <2>4. CASE s # {}
    <3>1. /\ Bytes(l, s) = ElemSize(l[Pick(s)]) + Bytes(l, s \ {Pick(s)})
          /\ Bytes(m, s) = ElemSize(m[Pick(s)]) + Bytes(m, s \ {Pick(s)})
      BY <2>1, <2>4, BytesPick
    <3> QED BY <1>1, <2>2, <2>4, <3>1
  <2> QED BY <2>3, <2>4
<1> HIDE DEF G
<1>2. \A s \in SUBSET S : s \in G
  BY <1>1, FiniteInduction
<1> QED BY <1>2 DEF G

\* Any element can be counted first.
LEMMA BytesWithout ==
    ASSUME NEW l, NEW S, IsFiniteSet(S), \A x \in S : ElemSize(l[x]) \in Nat,
           NEW y \in S
    PROVE  Bytes(l, S) = ElemSize(l[y]) + Bytes(l, S \ {y})
<1> DEFINE G == {s \in SUBSET S :
                     \A x \in s : Bytes(l, s) = ElemSize(l[x]) + Bytes(l, s \ {x})}
<1>1. ASSUME NEW s \in SUBSET S, \A x \in s : s \ {x} \in G PROVE s \in G
  <2> SUFFICES ASSUME NEW x \in s
               PROVE  Bytes(l, s) = ElemSize(l[x]) + Bytes(l, s \ {x})
    OBVIOUS
  <2> DEFINE c == Pick(s)
  <2>1. IsFiniteSet(s) /\ c \in s
    BY FS_Subset DEF Pick
  <2>2. Bytes(l, s) = ElemSize(l[c]) + Bytes(l, s \ {c})
    BY <2>1, BytesPick
  <2> HIDE DEF c
  <2>3. CASE x = c
    BY <2>2, <2>3
  <2>4. CASE x # c
    <3>1. x \in s \ {c} /\ c \in s \ {x} /\ (s \ {c}) \ {x} = (s \ {x}) \ {c}
      BY <2>1, <2>4
    <3>2. Bytes(l, s \ {c}) = ElemSize(l[x]) + Bytes(l, (s \ {c}) \ {x})
      BY <1>1, <2>1, <3>1
    <3>3. Bytes(l, s \ {x}) = ElemSize(l[c]) + Bytes(l, (s \ {x}) \ {c})
      BY <1>1, <3>1
    <3>4. /\ ElemSize(l[x]) \in Nat /\ ElemSize(l[c]) \in Nat
          /\ Bytes(l, (s \ {x}) \ {c}) \in Nat
      <4>1. IsFiniteSet((s \ {x}) \ {c})
        BY FS_Subset
      <4> QED BY <2>1, <4>1, BytesNat
    <3> DEFINE r == Bytes(l, (s \ {x}) \ {c})
    <3>5. r = Bytes(l, (s \ {c}) \ {x})
      BY <3>1
    <3> HIDE DEF r
    <3> QED BY <2>2, <3>2, <3>3, <3>4, <3>5, SMT DEF r
  <2> QED BY <2>3, <2>4
<1> HIDE DEF G
<1>2. \A s \in SUBSET S : s \in G
  BY <1>1, FiniteInduction
<1>3. S \in G
  BY <1>2
<1> QED BY <1>3 DEF G

\* A set can be counted in two parts.
LEMMA BytesParts ==
    ASSUME NEW l, NEW S, IsFiniteSet(S), \A x \in S : ElemSize(l[x]) \in Nat,
           NEW T \in SUBSET S
    PROVE  Bytes(l, S) = Bytes(l, T) + Bytes(l, S \ T)
<1> DEFINE G == {s \in SUBSET T : Bytes(l, S) = Bytes(l, s) + Bytes(l, S \ s)}
<1>0. IsFiniteSet(T)
  BY FS_Subset
<1>1. ASSUME NEW s \in SUBSET T, \A x \in s : s \ {x} \in G PROVE s \in G
  <2>1. /\ IsFiniteSet(s) /\ IsFiniteSet(S \ s)
        /\ Bytes(l, s) \in Nat /\ Bytes(l, S \ s) \in Nat /\ Bytes(l, S) \in Nat
    <3>1. IsFiniteSet(s) /\ IsFiniteSet(S \ s)
      BY <1>0, FS_Subset
    <3> QED BY <3>1, BytesNat
  <2>2. CASE s = {}
    <3>1. Bytes(l, s) = 0 /\ S \ s = S
      BY <2>1, <2>2, BytesPick
    <3> QED BY <2>1, <3>1, SMT
  <2>3. CASE s # {}
    <3>1. PICK x \in s : TRUE
      BY <2>3
    <3> DEFINE r == s \ {x}
    <3>2. Bytes(l, s) = ElemSize(l[x]) + Bytes(l, r)
      BY <2>1, BytesWithout, SMT
    <3>3. x \in S \ r /\ (S \ r) \ {x} = S \ s /\ IsFiniteSet(S \ r) /\ IsFiniteSet(r)
      BY <2>1, FS_Subset
    <3>4. Bytes(l, S \ r) = ElemSize(l[x]) + Bytes(l, S \ s)
      BY <3>3, BytesWithout, SMT
    <3>5. Bytes(l, S) = Bytes(l, r) + Bytes(l, S \ r)
      BY <1>1
    <3>6. ElemSize(l[x]) \in Nat /\ Bytes(l, r) \in Nat
      BY <3>3, BytesNat
    <3> HIDE DEF r
    <3>7. Bytes(l, S) = Bytes(l, s) + Bytes(l, S \ s)
      BY <2>1, <3>2, <3>4, <3>5, <3>6, SMT
    <3> QED BY <3>7
  <2> QED BY <2>2, <2>3
<1> HIDE DEF G
<1>2. \A s \in SUBSET T : s \in G
  BY <1>0, <1>1, FiniteInduction
<1>3. T \in G
  BY <1>2
<1> QED BY <1>3 DEF G

-----------------------------------------------------------------------------
(***************************************************************************)
(* approximate_data_size.                                                  *)
(***************************************************************************)

\* The size covers the elements.
Sized(t) ==
    /\ t.approximate_data_size \in Int
    /\ t.approximate_data_size >= Bytes(t.list, DOMAIN t.list)

\* Every element of a list takes some bytes.
LEMMA ElementSizes ==
    ASSUME NEW t, Listed(t, Key, Value)
    PROVE  /\ IsFiniteSet(DOMAIN t.list)
           /\ \A i \in DOMAIN t.list :
                  /\ sizeInBytes(t.list[i].value) \in Nat
                  /\ ElemSize(t.list[i]) \in Nat
                  /\ ElemSize(t.list[i]) = 1 + sizeInBytes(t.list[i].value)
           /\ Bytes(t.list, DOMAIN t.list) \in Nat
<1>1. IsFiniteSet(DOMAIN t.list)
  BY ListFinite
<1>2. ASSUME NEW i \in DOMAIN t.list
      PROVE  /\ sizeInBytes(t.list[i].value) \in Nat
             /\ ElemSize(t.list[i]) \in Nat
             /\ ElemSize(t.list[i]) = 1 + sizeInBytes(t.list[i].value)
  <2>1. t.list[i].value \in Value
    BY ElementFields DEF Listed
  <2>2. sizeInBytes(t.list[i].value) \in Nat
    BY <2>1, ValueAssumption
  <2>3. ElemSize(t.list[i]) = 1 + sizeInBytes(t.list[i].value)
    BY DEF ElemSize, KeySize
  <2> QED BY <2>2, <2>3, SMT
<1> QED BY <1>1, <1>2, BytesNat

\* An element is added to the list, and its size to the size.
LEMMA SizedAdd ==
    ASSUME NEW t, Listed(t, Key, Value), Sized(t), NEW u, Listed(u, Key, Value),
           NEW e, e \notin DOMAIN t.list, DOMAIN u.list = DOMAIN t.list \cup {e},
           \A i \in DOMAIN t.list : u.list[i].value = t.list[i].value,
           u.approximate_data_size
               = t.approximate_data_size + 1 + sizeInBytes(u.list[e].value)
    PROVE  Sized(u)
<1> DEFINE D == DOMAIN t.list
<1>1. /\ IsFiniteSet(D) /\ IsFiniteSet(DOMAIN u.list)
      /\ Bytes(t.list, D) \in Nat
      /\ \A i \in DOMAIN u.list : ElemSize(u.list[i]) \in Nat
      /\ e \in DOMAIN u.list
      /\ ElemSize(u.list[e]) = 1 + sizeInBytes(u.list[e].value)
      /\ sizeInBytes(u.list[e].value) \in Nat
  BY ElementSizes
<1>2. Bytes(u.list, DOMAIN u.list)
          = ElemSize(u.list[e]) + Bytes(u.list, DOMAIN u.list \ {e})
  BY <1>1, BytesWithout, SMT
<1>3. DOMAIN u.list \ {e} = D
  OBVIOUS
<1>4. Bytes(u.list, D) = Bytes(t.list, D)
  <2>1. \A i \in D : ElemSize(u.list[i]) = ElemSize(t.list[i])
    BY DEF ElemSize
  <2> QED BY <1>1, <2>1, BytesSame
<1>5. Bytes(u.list, DOMAIN u.list)
          = 1 + sizeInBytes(u.list[e].value) + Bytes(t.list, D)
  BY <1>1, <1>2, <1>3, <1>4
<1> QED BY <1>1, <1>5, SMT DEF Sized

\* The value of an element changes, and the size by at least the difference.
LEMMA SizedChange ==
    ASSUME NEW t, Listed(t, Key, Value), Sized(t), NEW u, Listed(u, Key, Value),
           NEW e \in DOMAIN t.list, DOMAIN u.list = DOMAIN t.list,
           \A i \in DOMAIN t.list \ {e} : u.list[i] = t.list[i],
           u.approximate_data_size \in Int,
           u.approximate_data_size
               >= t.approximate_data_size + sizeInBytes(u.list[e].value)
                      - sizeInBytes(t.list[e].value)
    PROVE  Sized(u)
<1> DEFINE D == DOMAIN t.list
<1>1. /\ IsFiniteSet(D) /\ IsFiniteSet(D \ {e})
      /\ \A i \in D : ElemSize(t.list[i]) \in Nat /\ ElemSize(u.list[i]) \in Nat
      /\ ElemSize(t.list[e]) = 1 + sizeInBytes(t.list[e].value)
      /\ ElemSize(u.list[e]) = 1 + sizeInBytes(u.list[e].value)
      /\ sizeInBytes(t.list[e].value) \in Nat
      /\ sizeInBytes(u.list[e].value) \in Nat
  BY ElementSizes, FS_Subset
<1>2. Bytes(t.list, D) = ElemSize(t.list[e]) + Bytes(t.list, D \ {e})
  BY <1>1, BytesWithout, SMT
<1>3. Bytes(u.list, D) = ElemSize(u.list[e]) + Bytes(u.list, D \ {e})
  BY <1>1, BytesWithout, SMT
<1>4. Bytes(u.list, D \ {e}) = Bytes(t.list, D \ {e})
  <2>1. \A i \in D \ {e} : ElemSize(u.list[i]) = ElemSize(t.list[i])
    OBVIOUS
  <2> QED BY <1>1, <2>1, BytesSame
<1>5. Bytes(t.list, D \ {e}) \in Nat
  BY <1>1, BytesNat
<1> QED BY <1>1, <1>2, <1>3, <1>4, <1>5, SMT DEF Sized

\* insert() and insertOrReplace() of a new key.
LEMMA InsertSized ==
    ASSUME NEW t, Listed(t, Key, Value), Sized(t), NEW key \in Key,
           NEW value \in Value
    PROVE  Sized(insert(t, key, value))
<1> DEFINE u == insert(t, key, value)
           elem == [key |-> key, chars |-> t.end, value |-> value,
                    version |-> t.current_version, active_in_map |-> TRUE,
                    free_key |-> FALSE]
<1>1. CASE contains(t, key)
  <2>1. u = t
    BY <1>1 DEF insert
  <2> QED BY <2>1
<1>2. CASE ~contains(t, key)
  <2>1. IsTable(t) /\ t.end \notin DOMAIN t.list /\ t.end \in Nat
    BY SMT DEF Listed, FieldsOK, ListConsistent
  <2>2. Inserted(t, u, elem)
    BY <1>2, <2>1, InsertFields
  <2>3. u.approximate_data_size
            = t.approximate_data_size + KeySize + sizeInBytes(value)
    BY <1>2, <2>1, Zenon DEF insert, PushBack, IsTable
  <2>4. elem.value = value
    OBVIOUS
  <2>5. Listed(u, Key, Value)
    BY InsertOK DEF CallOK
  <2> HIDE DEF u, elem
  <2>6. /\ DOMAIN u.list = DOMAIN t.list \cup {t.end}
        /\ \A i \in DOMAIN t.list : u.list[i] = t.list[i]
        /\ u.list[t.end] = elem
    BY <2>1, <2>2 DEF Inserted, Put
  <2>7. u.approximate_data_size
            = t.approximate_data_size + 1 + sizeInBytes(u.list[t.end].value)
    BY <2>3, <2>4, <2>6 DEF KeySize
  <2> QED BY <2>1, <2>5, <2>6, <2>7, SizedAdd DEF u
<1> QED BY <1>1, <1>2

\* A copy adds an element.
LEMMA CopySized ==
    ASSUME NEW t, Listed(t, Key, Value), Sized(t), NEW key \in DOMAIN t.map,
           NEW new \in Element(Key, Value),
           NEW u, Listed(u, Key, Value),
           Copied(t, u, key, t.map[key], new, Key, Value),
           u.approximate_data_size
               = t.approximate_data_size + KeySize + sizeInBytes(new.value)
    PROVE  Sized(u)
<1> DEFINE itr == t.map[key]
<1>1. itr \in DOMAIN t.list
  BY MappedElement
<1>2. t.end \notin DOMAIN t.list /\ t.end \in Nat
  BY SMT DEF Listed, FieldsOK, ListConsistent
<1>3. /\ DOMAIN u.list = DOMAIN t.list \cup {t.end}
      /\ \A i \in DOMAIN t.list \ {itr} : u.list[i] = t.list[i]
      /\ u.list[itr].value = t.list[itr].value
      /\ u.list[t.end] = new
  BY DEF Copied, IsRetired
<1>4. \A i \in DOMAIN t.list : u.list[i].value = t.list[i].value
  BY <1>1, <1>3
<1>5. u.approximate_data_size
          = t.approximate_data_size + 1 + sizeInBytes(u.list[t.end].value)
  BY <1>3 DEF KeySize
<1> QED BY <1>2, <1>3, <1>4, <1>5, SizedAdd

\* insertOrReplace(): outside snapshot mode the size grows by more than the
\* element does.
LEMMA InsertOrReplaceSized ==
    ASSUME NEW t, Listed(t, Key, Value), Sized(t), NEW key \in Key,
           NEW value \in Value
    PROVE  Sized(insertOrReplace(t, key, value))
<1> DEFINE u == insertOrReplace(t, key, value)
           itr == t.map[key]
           old == t.list[itr]
<1>0. Listed(u, Key, Value)
  BY InsertOrReplaceOK DEF CallOK
<1>1. CASE ~contains(t, key)
  <2>1. u = insert(t, key, value)
    BY <1>1 DEF insertOrReplace
  <2> QED BY <2>1, InsertSized
<1>2. CASE contains(t, key) /\ t.snapshot_mode
  <2> DEFINE new == [key |-> key, chars |-> old.chars, value |-> value,
                     version |-> t.current_version,
                     active_in_map |-> TRUE, free_key |-> FALSE]
             v == PushBack(Retire(t, itr, old.free_key), new)
             sz == v.approximate_data_size + (KeySize + sizeInBytes(value))
  <2>1. u = [v EXCEPT !.approximate_data_size = sz]
    BY <1>2 DEF insertOrReplace
  <2>2. key \in DOMAIN t.map
    BY <1>2 DEF contains
  <2>3. new \in Element(Key, Value) /\ new.key = key /\ new.value = value
    BY <2>2, MappedElement, Zenon DEF Element, Listed, FieldsOK
  <2>4. v.approximate_data_size = t.approximate_data_size
    BY Zenon DEF PushBack, Retire, Listed, FieldsOK, IsTable
  <2>5. u.approximate_data_size = v.approximate_data_size
                                      + (KeySize + sizeInBytes(value))
    BY <2>1, Zenon DEF PushBack, Retire, Listed, FieldsOK, IsTable
  <2> HIDE DEF new, sz, u
  <2>6. Copied(t, u, key, t.map[key], new, Key, Value)
    BY <2>1, <2>2, <2>3, CopyFields, Zenon
  <2> HIDE DEF v
  <2>7. u.approximate_data_size
            = t.approximate_data_size + KeySize + sizeInBytes(new.value)
    BY <2>3, <2>4, <2>5, ValueAssumption, SMT DEF KeySize, Sized
  <2> QED BY <1>0, <2>2, <2>3, <2>6, <2>7, CopySized DEF u
<1>3. CASE contains(t, key) /\ ~t.snapshot_mode
  <2> DEFINE sz == t.approximate_data_size + (KeySize + sizeInBytes(value))
                   + KeySize - sizeInBytes(old.value)
  <2>1. u = [t EXCEPT !.list[itr].value = value, !.approximate_data_size = sz]
    <3>1. u = [t EXCEPT !.list[itr].value = value,
                        !.approximate_data_size =
                            @ + (KeySize + sizeInBytes(value)) + KeySize
                              - sizeInBytes(old.value)]
      BY <1>3 DEF insertOrReplace
    <3>2. [t EXCEPT !.list[itr].value = value].approximate_data_size
              = t.approximate_data_size
      BY DEF Listed, FieldsOK, IsTable
    <3> QED BY <3>1, <3>2
  <2>2. itr \in DOMAIN t.list
    BY <1>3, MappedElement DEF contains
  <2>3. u.approximate_data_size = sz
    BY <2>1, Zenon DEF Listed, FieldsOK, IsTable
  <2>4. sizeInBytes(old.value) \in Nat /\ sizeInBytes(value) \in Nat
    BY <2>2, ElementSizes, ValueAssumption
  <2> HIDE DEF u
  <2>5. Changed(t, u, itr, value, Key, Value)
    <3> HIDE DEF sz, itr
    <3> QED BY <2>1, <2>2, ChangeFields, Zenon DEF Listed
  <2>6. /\ u.approximate_data_size \in Int
        /\ u.approximate_data_size
               >= t.approximate_data_size + sizeInBytes(value)
                      - sizeInBytes(old.value)
    BY <2>3, <2>4, SMT DEF KeySize, Sized
  <2>7. /\ DOMAIN u.list = DOMAIN t.list /\ u.list[itr].value = value
        /\ \A i \in DOMAIN t.list \ {itr} : u.list[i] = t.list[i]
    BY <2>5 DEF Changed
  <2> HIDE DEF itr
  <2> QED BY <1>0, <2>2, <2>6, <2>7, SizedChange DEF u
<1>4. t.snapshot_mode \in BOOLEAN
  BY DEF Listed, FieldsOK
<1> HIDE DEF u
<1> QED BY <1>1, <1>2, <1>3, <1>4 DEF u

\* updateValue(): in snapshot mode nothing is subtracted.
LEMMA UpdateValueSized ==
    ASSUME NEW t, Listed(t, Key, Value), Sized(t), NEW key \in DOMAIN t.map,
           NEW value \in Value
    PROVE  Sized(updateValue(t, key, value))
<1> DEFINE itr == t.map[key]
           old == t.list[itr]
           copied == t.snapshot_mode /\ old.version <= t.snapshot_up_to_version
           minus == IF t.snapshot_mode THEN 0 ELSE ElemSize(old)
           u == updateValue(t, key, value)
<1>0. /\ itr \in DOMAIN t.list /\ old \in Element(Key, Value) /\ old.key = key
      /\ Listed(u, Key, Value)
  BY MappedElement, UpdateValueOK, SMT DEF CallOK
<1>1. /\ sizeInBytes(value) \in Nat /\ sizeInBytes(old.value) \in Nat
      /\ minus \in {0, 1 + sizeInBytes(old.value)}
      /\ t.approximate_data_size \in Int
  <2>1. /\ ElemSize(old) = 1 + sizeInBytes(old.value)
        /\ sizeInBytes(old.value) \in Nat
    BY <1>0, ElementSizes
  <2>2. minus \in {0, ElemSize(old)}
    OBVIOUS
  <2> QED BY <2>1, <2>2, ValueAssumption DEF Sized
<1>2. CASE copied
  <2> DEFINE new == [old EXCEPT !.value = value, !.version = t.current_version]
             v == PushBack(Retire(t, itr, old.free_key), new)
             sz == v.approximate_data_size + KeySize + sizeInBytes(value) - minus
  <2>1. u = [v EXCEPT !.approximate_data_size = sz]
    BY <1>2 DEF updateValue
  <2>2. new \in Element(Key, Value) /\ new.key = key /\ new.value = value
    BY <1>0, Zenon DEF Element, Listed, FieldsOK
  <2>3. v.approximate_data_size = t.approximate_data_size
    BY Zenon DEF PushBack, Retire, Listed, FieldsOK, IsTable
  <2>4. u.approximate_data_size = sz
    BY <2>1, Zenon DEF PushBack, Retire, Listed, FieldsOK, IsTable
  <2>5. minus = 0
    BY <1>2
  <2> HIDE DEF new, u, minus
  <2>6. Copied(t, u, key, t.map[key], new, Key, Value)
    <3> HIDE DEF sz
    <3> QED BY <2>1, <2>2, CopyFields
  <2>7. u.approximate_data_size
            = t.approximate_data_size + KeySize + sizeInBytes(new.value)
    <3> HIDE DEF v
    <3> QED BY <1>1, <2>2, <2>3, <2>4, <2>5, SMT DEF KeySize
  <2> QED BY <1>0, <2>2, <2>6, <2>7, CopySized DEF u
<1>3. CASE ~copied
  <2> DEFINE v == [t EXCEPT !.list[itr].value = value]
             sz == v.approximate_data_size + KeySize + sizeInBytes(value) - minus
  <2>1. u = [t EXCEPT !.list[itr].value = value, !.approximate_data_size = sz]
    <3>1. u = [v EXCEPT !.approximate_data_size = sz]
      BY <1>3, Zenon DEF updateValue
    <3> HIDE DEF u, sz
    <3> QED BY <3>1, Zenon
  <2>2. v.approximate_data_size = t.approximate_data_size
    BY Zenon DEF Listed, FieldsOK, IsTable
  <2>3. u.approximate_data_size = sz
    <3> HIDE DEF u, sz, minus, v, itr
    <3> QED BY <2>1, Zenon DEF Listed, FieldsOK, IsTable
  <2> HIDE DEF u, minus
  <2>4. Changed(t, u, itr, value, Key, Value)
    <3> HIDE DEF sz
    <3> QED BY <1>0, <2>1, ChangeFields, Zenon DEF Listed
  <2>5. /\ u.approximate_data_size \in Int
        /\ u.approximate_data_size
               >= t.approximate_data_size + sizeInBytes(value)
                      - sizeInBytes(old.value)
    <3> HIDE DEF v
    <3> QED BY <1>1, <2>2, <2>3, SMT DEF KeySize
  <2>6. /\ DOMAIN u.list = DOMAIN t.list /\ u.list[itr].value = value
        /\ \A i \in DOMAIN t.list \ {itr} : u.list[i] = t.list[i]
    BY <2>4 DEF Changed
  <2> HIDE DEF itr, copied
  <2> QED BY <1>0, <2>5, <2>6, SizedChange DEF u, old
<1> HIDE DEF u
<1> QED BY <1>2, <1>3 DEF u

\* erase(): a retired element stays counted, an erased one is subtracted.
LEMMA EraseSized ==
    ASSUME NEW t, Listed(t, Key, Value), Sized(t), NEW key
    PROVE  Sized(erase(t, key))
<1> DEFINE u == erase(t, key)
           itr == t.map[key]
           old == t.list[itr]
<1>0. Listed(u, Key, Value)
  BY EraseOK DEF CallOK
<1>1. CASE ~contains(t, key)
  <2>1. u = t
    BY <1>1 DEF erase
  <2> QED BY <2>1
<1>2. CASE contains(t, key) /\ t.snapshot_mode
  <2> DEFINE v == Retire(t, itr, TRUE)
  <2>1. u = [v EXCEPT !.map = Drop(v.map, key)]
    BY <1>2 DEF erase
  <2>2. itr \in DOMAIN t.list
    BY <1>2, MappedElement DEF contains
  <2>3. Retired(t, v, itr, TRUE, Key, Value)
    BY <2>2, RetireFields, Zenon DEF Listed
  <2>4. v.approximate_data_size = t.approximate_data_size
    BY Zenon DEF Retire, Listed, FieldsOK, IsTable
  <2> HIDE DEF u, v, itr
  <2>5. u.list = v.list /\ u.approximate_data_size = v.approximate_data_size
    BY <2>1, <2>3 DEF IsTable, Retired, SameMode
  <2>6. /\ DOMAIN u.list = DOMAIN t.list
        /\ \A i \in DOMAIN t.list \ {itr} : u.list[i] = t.list[i]
        /\ u.list[itr].value = t.list[itr].value
    BY <2>3, <2>5 DEF Retired, IsRetired
  <2>7. \A i \in DOMAIN t.list : ElemSize(u.list[i]) = ElemSize(t.list[i])
    BY <2>6 DEF ElemSize
  <2>8. Bytes(u.list, DOMAIN t.list) = Bytes(t.list, DOMAIN t.list)
    BY <2>7, ElementSizes, BytesSame
  <2>9. Sized(u)
    BY <2>4, <2>5, <2>6, <2>8 DEF Sized
  <2> QED BY <2>9 DEF u
<1>3. CASE contains(t, key) /\ ~t.snapshot_mode
  <2>1. u = [t EXCEPT !.map = Drop(@, key), !.arena = @ \ {old.chars},
                      !.list = Drop(@, itr),
                      !.approximate_data_size = @ - ElemSize(old)]
    BY <1>3 DEF erase
  <2>2. itr \in DOMAIN t.list
    BY <1>3, MappedElement DEF contains
  <2>3. old = t.list[itr]
    OBVIOUS
  <2> HIDE DEF u, itr, old
  <2>4. /\ u.list = Drop(t.list, itr)
        /\ u.approximate_data_size = t.approximate_data_size - ElemSize(old)
    BY <2>1, Zenon DEF Listed, FieldsOK, IsTable
  <2>5. /\ DOMAIN u.list = DOMAIN t.list \ {itr}
        /\ \A i \in DOMAIN t.list \ {itr} : u.list[i] = t.list[i]
    BY <2>4 DEF Drop
  <2>6. Sized(u)
    <3> DEFINE D == DOMAIN t.list
    <3>1. /\ IsFiniteSet(D) /\ \A i \in D : ElemSize(t.list[i]) \in Nat
          /\ IsFiniteSet(D \ {itr})
      BY ElementSizes, FS_Subset
    <3>2. Bytes(t.list, D) = ElemSize(t.list[itr]) + Bytes(t.list, D \ {itr})
      BY <2>2, <3>1, BytesWithout, SMT
    <3>3. Bytes(u.list, D \ {itr}) = Bytes(t.list, D \ {itr})
      <4>1. \A i \in D \ {itr} : ElemSize(u.list[i]) = ElemSize(t.list[i])
        BY <2>5
      <4> QED BY <3>1, <4>1, BytesSame
    <3>4. Bytes(t.list, D \ {itr}) \in Nat /\ ElemSize(t.list[itr]) \in Nat
      BY <2>2, <3>1, BytesNat
    <3> QED BY <2>3, <2>4, <2>5, <3>2, <3>3, <3>4, SMT DEF Sized
  <2> QED BY <2>6 DEF u
<1>4. t.snapshot_mode \in BOOLEAN
  BY DEF Listed, FieldsOK
<1> HIDE DEF u
<1> QED BY <1>1, <1>2, <1>3, <1>4 DEF u

\* clearOutdatedNodes() subtracts exactly the elements it erases.
LEMMA DestroySized ==
    ASSUME NEW t, Listed(t, Key, Value), Sized(t)
    PROVE  Sized(DestroySnapshot(t))
<1> DEFINE u == DestroySnapshot(t)
           v == clearOutdatedNodes(t)
           D == DOMAIN t.list
           invalid == Range(t.snapshot_invalid_iters)
<1>1. Cleared(t, u, Key, Value)
  BY DestroyFields DEF Listed
<1>2. v.approximate_data_size
          = t.approximate_data_size - Bytes(t.list, invalid)
  BY Zenon DEF clearOutdatedNodes, Bytes, Listed, FieldsOK, IsTable
<1>3. u = disableSnapshotMode(v)
  BY DEF DestroySnapshot
<1>4. u.approximate_data_size = v.approximate_data_size
  BY <1>3, Zenon DEF clearOutdatedNodes, disableSnapshotMode, Listed, FieldsOK,
                     IsTable
<1>5. /\ DOMAIN u.list = D \ invalid
      /\ \A i \in D \ invalid : u.list[i] = t.list[i]
  BY <1>1 DEF Cleared
<1>6. invalid \in SUBSET D
  BY DEF Listed, ListConsistent
<1> HIDE DEF u, v, invalid
<1>7. /\ IsFiniteSet(D) /\ \A i \in D : ElemSize(t.list[i]) \in Nat
      /\ IsFiniteSet(D \ invalid) /\ IsFiniteSet(invalid)
  BY <1>6, ElementSizes, FS_Subset
<1>8. Bytes(t.list, D) = Bytes(t.list, invalid) + Bytes(t.list, D \ invalid)
  BY <1>6, <1>7, BytesParts, SMT
<1>9. Bytes(u.list, D \ invalid) = Bytes(t.list, D \ invalid)
  <2>1. \A i \in D \ invalid : ElemSize(u.list[i]) = ElemSize(t.list[i])
    BY <1>5
  <2> QED BY <1>7, <2>1, BytesSame
<1>10. Bytes(t.list, D \ invalid) \in Nat /\ Bytes(t.list, invalid) \in Nat
  BY <1>6, <1>7, BytesNat
<1>11. Sized(u)
  BY <1>2, <1>4, <1>5, <1>8, <1>9, <1>10, SMT DEF Sized
<1> QED BY <1>11 DEF u

-----------------------------------------------------------------------------
(***************************************************************************)
(* The inductive invariant.                                                *)
(***************************************************************************)

\* The table is consistent, its arena and size cover the list, snapshot mode
\* is on exactly while there is a snapshot, and the snapshot thread stands on
\* an element of the table that was frozen.
IInv ==
    /\ Listed(container, Key, Value)
    /\ ArenaInv(container)
    /\ Sized(container)
    /\ container.snapshot_mode <=> snapshot # None
    /\ snapshot = None => frozen = EmptyTable
    /\ snapshot # None =>
           /\ Frozen(container, frozen, Key, Value)
           /\ Cursor(snapshot, frozen, Key, Value)
           /\ snapshot.last_log_idx = 0

\* It holds at the start, ...
LEMMA IInvInit == Init => IInv
<1> SUFFICES ASSUME Init PROVE IInv
  OBVIOUS
<1>1. container = EmptyTable /\ snapshot = None /\ frozen = EmptyTable
  BY DEF Init
<1>2. /\ Listed(EmptyTable, Key, Value) /\ ArenaInv(EmptyTable)
      /\ DOMAIN EmptyTable.list = {} /\ ~EmptyTable.snapshot_mode
  BY EmptyTableOK
<1>3. Sized(EmptyTable)
  <2>1. Bytes(EmptyTable.list, DOMAIN EmptyTable.list) = 0
    BY <1>2, FS_EmptySet, BytesPick
  <2>2. EmptyTable.approximate_data_size = 0
    BY DEF EmptyTable
  <2> QED BY <2>1, <2>2, SMT DEF Sized
<1> QED BY <1>1, <1>2, <1>3 DEF IInv

\* ... a request keeps it, ...
LEMMA IInvRequest ==
    ASSUME IInv, NEW m, CallOK(container, container', Key, Value, m),
           Sized(container'), UNCHANGED <<snapshot, saved, frozen>>
    PROVE  IInv'
<1>1. /\ Listed(container', Key, Value) /\ Kept(container, container')
      /\ ArenaInv(container')
  BY DEF CallOK, IInv
<1>2. snapshot' = snapshot /\ frozen' = frozen
  OBVIOUS
<1>3. container'.snapshot_mode = container.snapshot_mode
  BY <1>1 DEF Kept
<1>4. snapshot # None => Frozen(container', frozen, Key, Value)
  BY <1>1, FrozenKept DEF IInv
<1> QED BY <1>1, <1>2, <1>3, <1>4 DEF IInv

\* Each of these requests is a call of the table.
LEMMA RequestOK ==
    ASSUME IInv, NEW key \in Key, NEW value \in Value,
           \/ Insert(key, value) \/ InsertOrReplace(key, value)
           \/ UpdateValue(key, value)
    PROVE  /\ \E m : CallOK(container, container', Key, Value, m)
           /\ Sized(container')
           /\ UNCHANGED <<snapshot, saved, frozen>>
<1>0. Listed(container, Key, Value) /\ Sized(container)
  BY DEF IInv
<1>1. CASE Insert(key, value)
  BY <1>0, <1>1, InsertOK, InsertSized DEF Insert
<1>2. CASE InsertOrReplace(key, value)
  BY <1>0, <1>2, InsertOrReplaceOK, InsertOrReplaceSized DEF InsertOrReplace
<1>3. CASE UpdateValue(key, value)
  BY <1>0, <1>3, UpdateValueOK, UpdateValueSized DEF UpdateValue, contains
<1> QED BY <1>1, <1>2, <1>3

\* ... and so do the steps of a snapshot.
LEMMA IInvTake == ASSUME IInv, TakeSnapshot PROVE IInv'
<1>1. /\ Listed(container, Key, Value) /\ ArenaInv(container)
      /\ Sized(container) /\ ~container.snapshot_mode
  BY DEF IInv, TakeSnapshot
<1>2. container.snapshot_invalid_iters = <<>>
  BY <1>1 DEF ArenaInv
<1>3. /\ container' = TurnOn(container) /\ frozen' = container
      /\ snapshot' = NewSnapshot(container, 0)
  BY DEF TakeSnapshot
<1>4. /\ Listed(container', Key, Value) /\ ArenaInv(container')
      /\ container'.snapshot_mode
      /\ container'.list = container.list
      /\ container'.approximate_data_size = container.approximate_data_size
  BY <1>1, <1>3, TurnOnOK, SMT
<1>5. Sized(container')
  BY <1>1, <1>4 DEF Sized
<1>6. Frozen(container', frozen', Key, Value)
  BY <1>1, <1>2, <1>3, FrozenTaken
<1>7. Cursor(snapshot', frozen', Key, Value) /\ snapshot'.last_log_idx = 0
  BY <1>1, <1>3, CursorBegin, SMT
<1>8. snapshot' # None
  BY <1>7, NoneAssumption DEF Cursor
<1> QED BY <1>4, <1>5, <1>6, <1>7, <1>8 DEF IInv

\* No node is newer than the snapshot.
LEMMA NoNewerNode ==
    ASSUME NEW f, Listed(f, Key, Value), NEW i \in DOMAIN f.list
    PROVE  ~(mzxid(f.list[i].value) > 0)
<1>1. f.list[i].value \in Value
  BY ElementFields DEF Listed
<1> QED BY <1>1, ValueAssumption, SMT

\* One node is written.
LEMMA IInvSerialize == ASSUME IInv, Serialize PROVE IInv'
<1>1. /\ snapshot # None /\ snapshot.writing
      /\ snapshot' = SerializeNode(snapshot, container)
      /\ container' = container /\ frozen' = frozen
  BY DEF Serialize
<1>2. /\ Listed(container, Key, Value)
      /\ Frozen(container, frozen, Key, Value)
      /\ Cursor(snapshot, frozen, Key, Value)
      /\ snapshot.last_log_idx = 0
  BY <1>1 DEF IInv
<1>3. \A i \in DOMAIN frozen.list :
          ~(mzxid(frozen.list[i].value) > snapshot.last_log_idx)
  BY <1>2, NoNewerNode DEF Frozen
<1>4. Cursor(snapshot', frozen, Key, Value) /\ snapshot'.last_log_idx = 0
  BY <1>1, <1>2, <1>3, CursorNext, SMT
<1>5. snapshot' # None
  BY <1>4, NoneAssumption DEF Cursor
<1> QED BY <1>1, <1>2, <1>4, <1>5 DEF IInv

\* The snapshot is destroyed.
LEMMA IInvFinish == ASSUME IInv, FinishSnapshot PROVE IInv'
<1>1. /\ container' = DestroySnapshot(container)
      /\ snapshot' = None /\ frozen' = EmptyTable
  BY DEF FinishSnapshot
<1>2. /\ Listed(container, Key, Value) /\ ArenaInv(container)
      /\ Sized(container)
  BY DEF IInv
<1>3. /\ Listed(container', Key, Value) /\ ArenaInv(container')
      /\ ~container'.snapshot_mode
  BY <1>1, <1>2, DestroyOK
<1>4. Sized(container')
  BY <1>1, <1>2, DestroySized
<1> QED BY <1>1, <1>3, <1>4 DEF IInv

\* It is inductive.
LEMMA IInvNext == IInv /\ [Next]_vars => IInv'
<1> SUFFICES ASSUME IInv, [Next]_vars PROVE IInv'
  OBVIOUS
<1>1. ASSUME NEW key \in Key, NEW value \in Value,
             \/ Insert(key, value) \/ InsertOrReplace(key, value)
             \/ UpdateValue(key, value)
      PROVE  IInv'
  BY <1>1, RequestOK, IInvRequest
<1>2. ASSUME NEW key \in Key, Erase(key) PROVE IInv'
  <2>1. /\ Listed(container, Key, Value) /\ Sized(container)
        /\ container' = erase(container, key)
        /\ UNCHANGED <<snapshot, saved, frozen>>
    BY <1>2 DEF IInv, Erase
  <2>2. CallOK(container, container', Key, Value, Drop(Contents(container), key))
    BY <2>1, EraseOK
  <2>3. Sized(container')
    BY <2>1, EraseSized
  <2> QED BY <2>1, <2>2, <2>3, IInvRequest
<1>3. CASE TakeSnapshot
  BY <1>3, IInvTake
<1>4. CASE Serialize
  BY <1>4, IInvSerialize
<1>5. CASE FinishSnapshot
  BY <1>5, IInvFinish
<1>6. CASE UNCHANGED vars
  BY <1>6 DEF vars, IInv
<1> QED BY <1>1, <1>2, <1>3, <1>4, <1>5, <1>6 DEF Next

\* It holds in every reachable state.
THEOREM IInvAlways == Spec => []IInv
  BY IInvInit, IInvNext, PTL DEF Spec

-----------------------------------------------------------------------------
(***************************************************************************)
(* What follows for every reachable state.                                 *)
(***************************************************************************)

\* The table and the snapshot have their types, whatever the requests and
\* the snapshot thread do.
THEOREM TypesCorrect == Spec => []TypeOK
<1>1. IInv => TypeOK
  <2> SUFFICES ASSUME IInv PROVE TypeOK
    OBVIOUS
  <2>1. /\ container.list \in [DOMAIN container.list -> Element(Key, Value)]
        /\ container.map \in [DOMAIN container.map -> Nat]
        /\ DOMAIN container.map \subseteq Key
    BY DEF IInv, Listed, FieldsOK
  <2>2. container.approximate_data_size \in Nat
    <3>1. Bytes(container.list, DOMAIN container.list) \in Nat
      BY ElementSizes DEF IInv
    <3> QED BY <3>1, SMT DEF IInv, Sized
  <2>3. snapshot \in Snapshot(Key, Value) \cup {None}
    BY DEF IInv, Cursor
  <2>4. container.snapshot_mode <=> snapshot # None
    BY DEF IInv
  <2> QED BY <2>1, <2>2, <2>3, <2>4 DEF TypeOK
<1> QED BY <1>1, IInvAlways, PTL

\* Map, list and vector of outdated iterators agree after every call, with
\* and without a snapshot.
THEOREM TableAlwaysConsistent == Spec => []TableConsistent
<1>1. IInv => TableConsistent
  BY DEF IInv, Listed, TableConsistent
<1> QED BY <1>1, IInvAlways, PTL

\* The arena holds exactly the keys of the list: no key is freed while an
\* element has it, and none is leaked.
THEOREM KeysAlwaysLive == Spec => []KeysLive
<1>1. IInv => KeysLive
  BY DEF IInv, ArenaInv, KeysLive
<1> QED BY <1>1, IInvAlways, PTL

\* The unsigned size never falls below what the list takes, so that no
\* subtraction of updateDataSize wraps.
THEOREM SizeNeverWrapsAlways == Spec => []SizeNeverWraps
<1>1. IInv => SizeNeverWraps
  BY Zenon DEF IInv, Sized, Bytes, SizeNeverWraps, SizeCovered
<1> QED BY <1>1, IInvAlways, PTL

\* No request changes or removes an element the snapshot has still to read.
THEOREM FrozenElementsAlwaysKept == Spec => []FrozenElementsKept
<1>1. IInv => FrozenElementsKept
  <2> SUFFICES ASSUME IInv PROVE FrozenElementsKept
    OBVIOUS
  <2>1. CASE snapshot = None
    BY <2>1, EmptyTableOK DEF IInv, FrozenElementsKept
  <2>2. CASE snapshot # None
    BY <2>2 DEF IInv, Frozen, FrozenElementsKept
  <2> QED BY <2>1, <2>2
<1> QED BY <1>1, IInvAlways, PTL

\* The snapshot thread stands on an element whenever it reads one.
THEOREM IteratorAlwaysValid == Spec => []IteratorValid
<1>1. IInv => IteratorValid
  BY DEF IInv, Frozen, Cursor, IteratorValid
<1> QED BY <1>1, IInvAlways, PTL

-----------------------------------------------------------------------------
(***************************************************************************)
(* The container and its snapshots implement AtomicSnapshot.               *)
(***************************************************************************)

\* A table reads as a map from keys to values.
LEMMA ContentsMap ==
    ASSUME NEW t, Listed(t, Key, Value)
    PROVE  /\ DOMAIN Contents(t) \in SUBSET Key
           /\ Contents(t) \in [DOMAIN Contents(t) -> Value]
           /\ Contents(t) \in UNION {[keys -> Value] : keys \in SUBSET Key}
           /\ Contents(t) # None
<1> DEFINE c == Contents(t)
<1>1. DOMAIN c = DOMAIN t.map /\ DOMAIN t.map \in SUBSET Key
  BY DEF Contents, Listed, FieldsOK
<1>2. ASSUME NEW k \in DOMAIN t.map PROVE t.list[t.map[k]].value \in Value
  <2>1. t.map[k] \in DOMAIN t.list
    BY DEF Listed, ListConsistent
  <2> QED BY <2>1, ElementFields DEF Listed
<1>3. c \in [DOMAIN t.map -> Value]
  BY <1>2 DEF Contents, getValue
<1> HIDE DEF c
<1>4. c \in UNION {[keys -> Value] : keys \in SUBSET Key}
  BY <1>1, <1>3
<1>5. c # None
  BY <1>1, <1>3, NoneAssumption
<1> QED BY <1>1, <1>3, <1>4, <1>5 DEF c

\* Only the contents of the container may change in a request.
LEMMA RequestRefines ==
    ASSUME Listed(container', Key, Value), UNCHANGED <<snapshot, saved, frozen>>
    PROVE  Atomic!Change
<1>1. Contents(container') \in UNION {[keys -> Value] : keys \in SUBSET Key}
  BY ContentsMap
<1>2. /\ saved' = saved
      /\ (IF snapshot' = None THEN None ELSE Contents(frozen'))
             = (IF snapshot = None THEN None ELSE Contents(frozen))
  OBVIOUS
<1> QED BY <1>1, <1>2 DEF Atomic!Change

\* The constructor of the snapshot copies the map.
LEMMA TakeRefines == ASSUME IInv, IInv', TakeSnapshot PROVE Atomic!Copy
<1>1. /\ snapshot = None /\ frozen' = container /\ saved' = saved
      /\ container' = TurnOn(container)
      /\ Listed(container, Key, Value)
  BY DEF TakeSnapshot, IInv
<1>2. snapshot' # None
  <2>1. container'.snapshot_mode
    BY <1>1, TurnOnOK
  <2> QED BY <2>1 DEF IInv
<1>3. Contents(container') = Contents(container)
  <2>1. Reads(container', Contents(container))
    BY <1>1, TurnOnOK
  <2> QED BY <2>1 DEF Reads
<1> DEFINE p == IF snapshot = None THEN None ELSE Contents(frozen)
           q == IF snapshot' = None THEN None ELSE Contents(frozen')
<1>4. p = None
  BY <1>1
<1>5. q = Contents(container)
  BY <1>1, <1>2
<1> QED BY <1>1, <1>3, <1>4, <1>5 DEF Atomic!Copy

\* A snapshot that was written and destroyed leaves the map it was taken of.
LEMMA FinishRefines == ASSUME IInv, FinishSnapshot PROVE Atomic!Save
<1>1. /\ snapshot # None /\ ~snapshot.writing /\ snapshot' = None
      /\ saved' = Contents(deserialize(EmptyTable, FileOf(snapshot)))
      /\ container' = DestroySnapshot(container)
  BY DEF FinishSnapshot
<1>2. /\ Listed(container, Key, Value)
      /\ Frozen(container, frozen, Key, Value)
      /\ Cursor(snapshot, frozen, Key, Value)
  BY <1>1 DEF IInv
<1>3. Listed(frozen, Key, Value)
  BY <1>2 DEF Frozen
<1>4. Written(FileOf(snapshot), Contents(frozen), Key, Value)
  BY <1>1, <1>2, CursorEnd
<1>5. saved' = Contents(frozen)
  <2> DEFINE m == Contents(frozen)
  <2>1. m = [k \in DOMAIN m |-> m[k]]
    BY DEF Contents
  <2>2. /\ Listed(EmptyTable, Key, Value) /\ Fresh(EmptyTable)
        /\ DOMAIN EmptyTable.map \subseteq DOMAIN m
    BY EmptyTableOK DEF Fresh
  <2> HIDE DEF m
  <2>3. Written(FileOf(snapshot), m, Key, Value)
    BY <1>4 DEF m
  <2>4. Reads(deserialize(EmptyTable, FileOf(snapshot)), m)
    BY <2>1, <2>2, <2>3, DeserializeOK
  <2> QED BY <1>1, <2>4 DEF Reads, m
<1>6. Contents(container') = Contents(container)
  <2>1. Reads(container', Contents(container))
    BY <1>1, <1>2, DestroyOK
  <2> QED BY <2>1 DEF Reads
<1>7. Contents(frozen) # None
  BY <1>3, ContentsMap
<1> DEFINE p == IF snapshot = None THEN None ELSE Contents(frozen)
           q == IF snapshot' = None THEN None ELSE Contents(frozen')
<1>8. p = Contents(frozen) /\ q = None
  BY <1>1
<1> QED BY <1>1, <1>5, <1>6, <1>7, <1>8 DEF Atomic!Save

\* Taking a snapshot, writing it without a lock while requests change the
\* table, and reading the file back is a copy of the map made in one step.
THEOREM SnapshotIsAtomic == Spec => RefinesAtomicSnapshot
<1>1. Init => Atomic!Init
  <2> SUFFICES ASSUME Init PROVE Atomic!Init
    OBVIOUS
  <2>1. container = EmptyTable /\ snapshot = None /\ saved = None
    BY DEF Init
  <2>2. Contents(EmptyTable) \in UNION {[keys -> Value] : keys \in SUBSET Key}
    BY EmptyTableOK, ContentsMap
  <2> QED BY <2>1, <2>2 DEF Atomic!Init
<1>2. IInv /\ IInv' /\ [Next]_vars => [Atomic!Next]_Atomic!vars
  <2> SUFFICES ASSUME IInv, IInv', [Next]_vars
               PROVE  [Atomic!Next]_Atomic!vars
    OBVIOUS
  <2>1. ASSUME NEW key \in Key, NEW value \in Value,
               \/ Insert(key, value) \/ InsertOrReplace(key, value)
               \/ UpdateValue(key, value)
        PROVE  Atomic!Change
    <3>1. Listed(container', Key, Value)
      BY DEF IInv
    <3>2. UNCHANGED <<snapshot, saved, frozen>>
      BY <2>1, RequestOK
    <3> QED BY <3>1, <3>2, RequestRefines
  <2>2. ASSUME NEW key \in Key, Erase(key) PROVE Atomic!Change
    <3>1. Listed(container', Key, Value)
      BY DEF IInv
    <3>2. UNCHANGED <<snapshot, saved, frozen>>
      BY <2>2 DEF Erase
    <3> QED BY <3>1, <3>2, RequestRefines
  <2>3. CASE TakeSnapshot
    BY <2>3, TakeRefines DEF Atomic!Next
  <2>4. CASE Serialize
    <3>1. /\ container' = container /\ saved' = saved /\ frozen' = frozen
          /\ snapshot # None
      BY <2>4 DEF Serialize
    <3>2. snapshot' # None
      BY <3>1 DEF IInv
    <3> QED BY <3>1, <3>2 DEF Atomic!vars
  <2>5. CASE FinishSnapshot
    BY <2>5, FinishRefines DEF Atomic!Next
  <2>6. CASE UNCHANGED vars
    BY <2>6 DEF vars, Atomic!vars
  <2> QED BY <2>1, <2>2, <2>3, <2>4, <2>5, <2>6 DEF Next, Atomic!Next
<1> QED BY <1>1, <1>2, IInvAlways, PTL DEF Spec, RefinesAtomicSnapshot, Atomic!Spec
=============================================================================
