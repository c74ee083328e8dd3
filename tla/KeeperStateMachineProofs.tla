---------------------- MODULE KeeperStateMachineProofs ----------------------
(***************************************************************************)
(* KeeperStateMachine for every set of keys, every length of the log and   *)
(* every number of crashes: what the log makes, what a container and a     *)
(* file read back as, and that every variable keeps its type.              *)
(* KeeperStateMachinePrefixProofs builds on it.                            *)
(***************************************************************************)
EXTENDS KeeperStateMachine, SnapshotableHashTableProofs

\* Most steps are about sets and functions; those with arithmetic, sequences
\* or records say which other prover they need.
USE Zenon

-----------------------------------------------------------------------------
(***************************************************************************)
(* The maps that the log makes.                                            *)
(***************************************************************************)

\* A map of nodes, none of which is newer than the entry n.
StateOK(m, n) ==
    /\ DOMAIN m \subseteq Keys
    /\ Root \in DOMAIN m
    /\ IsFiniteSet(DOMAIN m)
    /\ m = [k \in DOMAIN m |-> m[k]]
    /\ \A k \in DOMAIN m : m[k] \in Value /\ m[k].mzxid <= n

\* A node is put into the map.
LEMMA PutOK ==
    ASSUME NEW m, NEW n, StateOK(m, n), NEW k \in Keys, NEW v \in Value,
           v.mzxid <= n
    PROVE  StateOK(Put(m, k, v), n)
<1> DEFINE p == Put(m, k, v)
<1>1. /\ DOMAIN p = DOMAIN m \cup {k} /\ p[k] = v
      /\ \A j \in DOMAIN m \ {k} : p[j] = m[j]
      /\ p = [j \in DOMAIN p |-> p[j]]
  BY DEF Put
<1>2. IsFiniteSet(DOMAIN m \cup {k})
  BY FS_AddElement DEF StateOK
<1> HIDE DEF p
<1>3. StateOK(p, n)
  BY <1>1, <1>2 DEF StateOK
<1> QED BY <1>3 DEF p

\* A node other than the root is dropped.
LEMMA DropOK ==
    ASSUME NEW m, NEW n, StateOK(m, n), NEW k, k # Root
    PROVE  StateOK(Drop(m, k), n)
<1> DEFINE p == Drop(m, k)
<1>1. /\ DOMAIN p = DOMAIN m \ {k}
      /\ \A j \in DOMAIN m \ {k} : p[j] = m[j]
      /\ p = [j \in DOMAIN p |-> p[j]]
  BY DEF Drop
<1>2. IsFiniteSet(DOMAIN m \ {k})
  BY FS_RemoveElement DEF StateOK
<1> HIDE DEF p
<1>3. StateOK(p, n)
  BY <1>1, <1>2 DEF StateOK
<1> QED BY <1>3 DEF p

\* Two nodes can be put in either order.
LEMMA PutsCommute ==
    ASSUME NEW m, NEW j, NEW k, j # k, NEW v, NEW w
    PROVE  Put(Put(m, j, v), k, w) = Put(Put(m, k, w), j, v)
<1>1. ASSUME NEW x \in DOMAIN m \cup {j, k}
      PROVE  Put(Put(m, j, v), k, w)[x] = Put(Put(m, k, w), j, v)[x]
  BY DEF Put
<1>2. /\ DOMAIN Put(Put(m, j, v), k, w) = DOMAIN m \cup {j, k}
      /\ DOMAIN Put(Put(m, k, w), j, v) = DOMAIN m \cup {j, k}
  BY DEF Put
<1> QED BY <1>1, <1>2 DEF Put

\* The value of a new node, and of the root after a change of its children.
LEMMA Values ==
    ASSUME NEW n \in 0 .. MaxLog
    PROVE  /\ Stamp(n) \in Value /\ Stamp(n).mzxid = n
           /\ \A v \in Value :
                  /\ [v EXCEPT !.changed = n] \in Value
                  /\ [v EXCEPT !.changed = n].mzxid = v.mzxid
                  /\ v.mzxid \in Nat
  BY ValueAssumption, SMT DEF Stamp, Value

\* An entry of the log makes a map of a map.
LEMMA AppliedOK ==
    ASSUME NEW n \in 1 .. MaxLog, NEW m, StateOK(m, n - 1),
           NEW request \in Request
    PROVE  StateOK(Applied(m, request, n), n)
<1> DEFINE root == [m[Root] EXCEPT !.changed = n]
           key == request.key
           touched == Put(m, Root, root)
<1>1. n \in Nat /\ n - 1 \in Int /\ n \in 0 .. MaxLog
  BY ValueAssumption, SMT
<1>2. StateOK(m, n)
  <2>1. ASSUME NEW k \in DOMAIN m PROVE m[k] \in Value /\ m[k].mzxid <= n
    <3>1. m[k] \in Value /\ m[k].mzxid <= n - 1
      BY DEF StateOK
    <3>2. m[k].mzxid \in Nat
      BY <1>1, <3>1, Values
    <3> QED BY <1>1, <3>1, <3>2, SMT
  <2> QED BY <2>1 DEF StateOK
<1>3. key \in Key /\ key # Root /\ key \in Keys /\ Root \in Keys
  BY RootAssumption DEF Request, Keys
<1>4. root \in Value /\ root.mzxid <= n
  <2>1. m[Root] \in Value /\ m[Root].mzxid <= n
    BY <1>2 DEF StateOK
  <2> QED BY <1>1, <2>1, Values
<1>5. Stamp(n) \in Value /\ Stamp(n).mzxid <= n
  <2>1. n <= n
    BY <1>1, SMT
  <2> QED BY <1>1, <2>1, Values
<1> HIDE DEF root, key
<1>6. StateOK(touched, n)
  BY <1>2, <1>3, <1>4, PutOK
<1> HIDE DEF touched
<1>7. StateOK(Drop(touched, key), n) /\ StateOK(Put(touched, key, Stamp(n)), n)
  BY <1>3, <1>5, <1>6, PutOK, DropOK
<1> QED BY <1>2, <1>7 DEF Applied, key, touched, root

\* The maps after 0 to n requests.
Unrolled(g, requests, n) ==
    g = [i \in 0 .. n |->
             IF i = 0
             THEN [key \in {Root} |-> Stamp(0)]
             ELSE Applied(g[i - 1], requests[i], i)]

\* What they are one by one.
LEMMA UnrolledSteps ==
    ASSUME NEW g, NEW requests, NEW n \in Nat, Unrolled(g, requests, n)
    PROVE  /\ g[0] = [key \in {Root} |-> Stamp(0)]
           /\ \A i \in 0 .. n - 1 :
                  g[i + 1] = Applied(g[i], requests[i + 1], i + 1)
<1>1. 0 \in 0 .. n
  BY SMT
<1>2. ASSUME NEW i \in 0 .. n - 1
      PROVE  i + 1 \in 0 .. n /\ i + 1 # 0 /\ (i + 1) - 1 = i
  BY SMT
<1> QED BY <1>1, <1>2 DEF Unrolled

\* There are such maps, ...
LEMMA UnrolledExists ==
    ASSUME NEW requests, NEW n \in Nat
    PROVE  \E g : Unrolled(g, requests, n)
<1> DEFINE G == {i \in 0 .. n : \E g : Unrolled(g, requests, i)}
           new == [key \in {Root} |-> Stamp(0)]
<1> HIDE DEF new
<1>1. 0 \in G
  <2> DEFINE g == [i \in 0 .. 0 |-> new]
  <2>1. g = [i \in 0 .. 0 |->
                 IF i = 0 THEN new ELSE Applied(g[i - 1], requests[i], i)]
    BY SMT
  <2>2. Unrolled(g, requests, 0)
    BY <2>1 DEF Unrolled, new
  <2>3. 0 \in 0 .. n
    BY SMT
  <2> QED BY <2>2, <2>3
<1>2. ASSUME NEW i \in 0 .. n - 1, i \in G PROVE i + 1 \in G
  <2>1. PICK g : Unrolled(g, requests, i)
    BY <1>2
  <2> DEFINE next == Applied(g[i], requests[i + 1], i + 1)
             h == [j \in 0 .. i + 1 |-> IF j = i + 1 THEN next ELSE g[j]]
  <2>2. ASSUME NEW j \in 0 .. i + 1
        PROVE  h[j] = IF j = 0
                      THEN new
                      ELSE Applied(h[j - 1], requests[j], j)
    <3>1. CASE j = 0
      <4>1. h[j] = g[0] /\ 0 \in 0 .. i
        BY <3>1, SMT
      <4> QED BY <2>1, <3>1, <4>1 DEF Unrolled, new
    <3>2. CASE j = i + 1
      <4>1. h[j] = next /\ h[j - 1] = g[i] /\ j # 0
        BY <3>2, SMT
      <4> QED BY <3>2, <4>1
    <3>3. CASE j \in 1 .. i
      <4>1. h[j] = g[j] /\ h[j - 1] = g[j - 1] /\ j # 0 /\ j \in 0 .. i
        BY <3>3, SMT
      <4>2. g[j] = Applied(g[j - 1], requests[j], j)
        BY <2>1, <4>1 DEF Unrolled
      <4> QED BY <4>1, <4>2
    <3> QED BY <3>1, <3>2, <3>3, SMT
  <2>3. h = [j \in 0 .. i + 1 |-> h[j]]
    OBVIOUS
  <2> HIDE DEF h
  <2>4. Unrolled(h, requests, i + 1)
    BY <2>2, <2>3 DEF Unrolled, new
  <2>5. i + 1 \in 0 .. n
    BY SMT
  <2> QED BY <2>4, <2>5
<1> HIDE DEF G
<1>3. \A i \in 0 .. n : i \in G
  BY <1>1, <1>2, UpTo
<1>4. n \in G
  BY <1>3, SMT
<1> QED BY <1>4 DEF G

\* ... and StateOf is the last of them.
LEMMA StateUnrolled ==
    ASSUME NEW requests, NEW n \in Nat
    PROVE  \E g : Unrolled(g, requests, n) /\ StateOf(requests, n) = g[n]
<1> DEFINE h == CHOOSE g : g = [i \in 0 .. n |->
                                    IF i = 0
                                    THEN [key \in {Root} |-> Stamp(0)]
                                    ELSE Applied(g[i - 1], requests[i], i)]
<1>1. StateOf(requests, n) = h[n]
  BY DEF StateOf
<1>2. PICK g : Unrolled(g, requests, n)
  BY UnrolledExists
<1>3. Unrolled(h, requests, n)
  BY <1>2 DEF Unrolled
<1> HIDE DEF h
<1> QED BY <1>1, <1>3

\* The maps one by one.
Unfolds(g, requests, n) ==
    /\ g[0] = [key \in {Root} |-> Stamp(0)]
    /\ \A i \in 0 .. n - 1 : g[i + 1] = Applied(g[i], requests[i + 1], i + 1)

\* UnrolledSteps once more, with a name for what it says.
LEMMA UnrolledUnfolds ==
    ASSUME NEW g, NEW requests, NEW n \in Nat, Unrolled(g, requests, n)
    PROVE  Unfolds(g, requests, n)
  BY UnrolledSteps DEF Unfolds

\* Two logs agree on the first n entries.
Agree(q, r, n) == \A i \in 1 .. n : q[i] = r[i]

\* Then they make the same maps.
LEMMA UnrolledAgree ==
    ASSUME NEW q, NEW r, NEW n \in Nat, NEW l \in Nat, NEW k \in Nat,
           k <= n, k <= l, NEW g, Unrolled(g, q, n), NEW h, Unrolled(h, r, l),
           Agree(q, r, k)
    PROVE  g[k] = h[k]
<1>a. /\ g[0] = [key \in {Root} |-> Stamp(0)]
      /\ \A i \in 0 .. n - 1 : g[i + 1] = Applied(g[i], q[i + 1], i + 1)
  <2>1. Unfolds(g, q, n)
    BY UnrolledUnfolds
  <2> QED BY <2>1 DEF Unfolds
<1>b. /\ h[0] = [key \in {Root} |-> Stamp(0)]
      /\ \A i \in 0 .. l - 1 : h[i + 1] = Applied(h[i], r[i + 1], i + 1)
  <2>1. Unfolds(h, r, l)
    BY UnrolledUnfolds
  <2> QED BY <2>1 DEF Unfolds
<1> DEFINE G == {i \in 0 .. k : g[i] = h[i]}
<1>1. 0 \in G
  <2>1. 0 \in 0 .. k
    BY SMT
  <2> QED BY <1>a, <1>b, <2>1
<1>2. ASSUME NEW i \in 0 .. k - 1, i \in G PROVE i + 1 \in G
  <2>1. i \in 0 .. n - 1 /\ i \in 0 .. l - 1 /\ i + 1 \in 1 .. k /\ i + 1 \in 0 .. k
    BY SMT
  <2>2. g[i + 1] = Applied(g[i], q[i + 1], i + 1)
    BY <1>a, <2>1
  <2>3. h[i + 1] = Applied(h[i], r[i + 1], i + 1)
    BY <1>b, <2>1
  <2>4. g[i] = h[i] /\ q[i + 1] = r[i + 1]
    BY <1>2, <2>1 DEF Agree
  <2> QED BY <2>1, <2>2, <2>3, <2>4
<1> HIDE DEF G
<1>3. \A i \in 0 .. k : i \in G
  BY <1>1, <1>2, UpTo
<1>4. k \in G
  BY <1>3, SMT
<1> QED BY <1>4 DEF G

\* The map of an empty log.
LEMMA StateOfNone ==
    ASSUME NEW q
    PROVE  StateOf(q, 0) = [key \in {Root} |-> Stamp(0)]
<1>1. 0 \in Nat
  BY SMT
<1>2. PICK g : Unrolled(g, q, 0) /\ StateOf(q, 0) = g[0]
  BY <1>1, StateUnrolled
<1> QED BY <1>1, <1>2, UnrolledSteps

\* The map after one more request.
LEMMA StateOfNext ==
    ASSUME NEW q, NEW n \in Nat
    PROVE  StateOf(q, n + 1) = Applied(StateOf(q, n), q[n + 1], n + 1)
<1>1. n + 1 \in Nat /\ n <= n + 1 /\ n <= n /\ n \in 0 .. (n + 1) - 1
  BY SMT
<1>a. Agree(q, q, n)
  BY DEF Agree
<1>2. PICK g : Unrolled(g, q, n) /\ StateOf(q, n) = g[n]
  BY StateUnrolled
<1>3. PICK h : Unrolled(h, q, n + 1) /\ StateOf(q, n + 1) = h[n + 1]
  BY <1>1, StateUnrolled
<1>4. g[n] = h[n]
  BY <1>1, <1>a, <1>2, <1>3, UnrolledAgree, SMT
<1>5. h[n + 1] = Applied(h[n], q[n + 1], n + 1)
  BY <1>1, <1>3, UnrolledSteps
<1> QED BY <1>2, <1>3, <1>4, <1>5

\* The map depends on the first entries of the log only.
LEMMA StateOfSame ==
    ASSUME NEW q, NEW r, NEW n \in Nat, Agree(q, r, n)
    PROVE  StateOf(q, n) = StateOf(r, n)
<1>1. n <= n
  BY SMT
<1>2. PICK g : Unrolled(g, q, n) /\ StateOf(q, n) = g[n]
  BY StateUnrolled
<1>3. PICK h : Unrolled(h, r, n) /\ StateOf(r, n) = h[n]
  BY StateUnrolled
<1>4. g[n] = h[n]
  BY <1>1, <1>2, <1>3, UnrolledAgree, SMT
<1> QED BY <1>2, <1>3, <1>4

\* What a log makes is a map of nodes.
LEMMA StateOfOK ==
    ASSUME NEW q \in Seq(Request), Len(q) <= MaxLog, NEW n \in 0 .. Len(q)
    PROVE  StateOK(StateOf(q, n), n)
<1> DEFINE G == {i \in 0 .. n : StateOK(StateOf(q, i), i)}
<1>0. n \in Nat /\ Len(q) \in Nat
  BY SMT
<1>1. 0 \in G
  <2> DEFINE new == [key \in {Root} |-> Stamp(0)]
  <2>1. 0 \in 0 .. n /\ 0 \in 0 .. MaxLog /\ 0 <= 0
    BY ValueAssumption, SMT
  <2>2. /\ DOMAIN new = {Root} /\ new[Root] = Stamp(0)
        /\ new = [k \in DOMAIN new |-> new[k]]
    OBVIOUS
  <2>3. IsFiniteSet({Root})
    BY FS_Singleton
  <2>4. Stamp(0) \in Value /\ Stamp(0).mzxid <= 0
    BY <2>1, Values
  <2> HIDE DEF new
  <2>5. StateOK(new, 0)
    BY <2>2, <2>3, <2>4 DEF StateOK, Keys
  <2> QED BY <2>1, <2>5, StateOfNone DEF new
<1>2. ASSUME NEW i \in 0 .. n - 1, i \in G PROVE i + 1 \in G
  <2>1. /\ i \in Nat /\ i + 1 \in 1 .. Len(q) /\ i + 1 \in 1 .. MaxLog
        /\ i + 1 \in 0 .. n /\ (i + 1) - 1 = i
    BY ValueAssumption, SMT
  <2>2. q[i + 1] \in Request
    BY <2>1, SeqElements
  <2>3. StateOK(StateOf(q, i), (i + 1) - 1)
    BY <1>2, <2>1
  <2> HIDE DEF G
  <2> DEFINE m == StateOf(q, i)
             j == i + 1
             request == q[i + 1]
  <2>4. j \in 1 .. MaxLog /\ StateOK(m, j - 1) /\ request \in Request
    BY <2>1, <2>2, <2>3
  <2> HIDE DEF m, j, request
  <2>5. StateOK(Applied(m, request, j), j)
    BY <2>4, AppliedOK
  <2>6. StateOf(q, i + 1) = Applied(m, request, j)
    BY <2>1, StateOfNext DEF m, request, j
  <2> QED BY <2>1, <2>5, <2>6 DEF G, j
<1> HIDE DEF G
<1>3. \A i \in 0 .. n : i \in G
  BY <1>0, <1>1, <1>2, UpTo
<1>4. n \in G
  BY <1>0, <1>3, SMT
<1> QED BY <1>4 DEF G

-----------------------------------------------------------------------------
(***************************************************************************)
(* What requests and files make of the container.                          *)
(***************************************************************************)

\* What a sequence of calls leaves to the snapshot thread.
LEMMA KeptTransitive ==
    ASSUME NEW K, NEW V, NEW t, Listed(t, K, V), NEW u, Listed(u, K, V),
           NEW v, Listed(v, K, V), Kept(t, u), Kept(u, v)
    PROVE  Kept(t, v)
<1>1. t.end \in Nat /\ u.end \in Nat /\ v.end \in Nat
  BY DEF Listed, FieldsOK
<1>2. v.end >= t.end
  BY <1>1, SMT DEF Kept
<1>3. DOMAIN v.list \subseteq DOMAIN t.list \cup {i \in Nat : i >= t.end}
  <2>1. ASSUME NEW i \in Nat, i >= u.end PROVE i >= t.end
    BY <1>1, <2>1, SMT DEF Kept
  <2> QED BY <2>1 DEF Kept
<1> QED BY <1>2, <1>3 DEF Kept

\* A reader sees the keys of the map.
LEMMA ReadsKeys ==
    ASSUME NEW t, NEW m, Reads(t, m)
    PROVE  DOMAIN t.map = DOMAIN m
  BY DEF Reads, Contents

\* Where a reader sees no difference the keys are the same.
LEMMA SameKeys ==
    ASSUME NEW t, NEW u, Reads(u, Contents(t))
    PROVE  DOMAIN u.map = DOMAIN t.map
  BY DEF Reads, Contents

\* A reader sees a value of the right type.
LEMMA ReadsValues ==
    ASSUME NEW K, NEW V, NEW t, Listed(t, K, V), NEW key \in DOMAIN t.map
    PROVE  Contents(t)[key] = getValue(t, key) /\ getValue(t, key) \in V
<1>1. t.list[t.map[key]] \in Element(K, V)
  BY MappedElement
<1>2. t.list[t.map[key]].value \in V
  BY <1>1 DEF Element
<1> QED BY <1>2 DEF getValue, Contents

\* A request leads from the storage t to u, which reads as the map m.
Processed(t, u, m) ==
    /\ Listed(u, Keys, Value)
    /\ Root \in DOMAIN u.map
    /\ Kept(t, u)
    /\ Reads(u, m)

\* The root is told that its children have changed.
LEMMA TouchRootOK ==
    ASSUME NEW t, Listed(t, Keys, Value), Root \in DOMAIN t.map,
           NEW n \in 0 .. MaxLog
    PROVE  Processed(t, TouchRoot(t, n),
                     Put(Contents(t), Root,
                         [Contents(t)[Root] EXCEPT !.changed = n]))
<1> DEFINE root == [getValue(t, Root) EXCEPT !.changed = n]
           u == TouchRoot(t, n)
<1>1. Contents(t)[Root] = getValue(t, Root) /\ getValue(t, Root) \in Value
  BY ReadsValues
<1>2. root \in Value
  BY <1>1, Values
<1> HIDE DEF root
<1>3. CallOK(t, updateValue(t, Root, root), Keys, Value,
             Put(Contents(t), Root, root))
  BY <1>2, UpdateValueOK
<1>4. CallOK(t, u, Keys, Value, Put(Contents(t), Root, root))
  BY <1>3 DEF TouchRoot, root
<1> HIDE DEF u
<1>5. Root \in DOMAIN u.map
  <2>1. DOMAIN u.map = DOMAIN Put(Contents(t), Root, root)
    BY <1>4, ReadsKeys DEF CallOK
  <2> QED BY <2>1 DEF Put
<1>6. Processed(t, u, Put(Contents(t), Root, root))
  BY <1>4, <1>5 DEF CallOK, Processed
<1> QED BY <1>1, <1>6 DEF root, u

\* Two calls, one after the other.
LEMMA ProcessedTwice ==
    ASSUME NEW t, Listed(t, Keys, Value), NEW u, NEW m, Processed(t, u, m),
           NEW v, NEW n, Processed(u, v, n)
    PROVE  Processed(t, v, n)
  BY KeptTransitive DEF Processed

\* A call on the node of a key other than the root.
LEMMA CallProcessed ==
    ASSUME NEW t, Root \in DOMAIN t.map, NEW u, NEW m,
           CallOK(t, u, Keys, Value, m), Root \in DOMAIN m
    PROVE  Processed(t, u, m)
<1>1. DOMAIN u.map = DOMAIN m
  BY ReadsKeys DEF CallOK
<1> QED BY <1>1 DEF Processed, CallOK

\* A new or another value is put into the map, and the root is touched.
LEMMA PutTouched ==
    ASSUME NEW t, Listed(t, Keys, Value), Root \in DOMAIN t.map,
           NEW key \in Key, NEW n \in 0 .. MaxLog, NEW u,
           CallOK(t, u, Keys, Value, Put(Contents(t), key, Stamp(n)))
    PROVE  Processed(t, TouchRoot(u, n),
                     Put(Put(Contents(t), Root,
                             [Contents(t)[Root] EXCEPT !.changed = n]),
                         key, Stamp(n)))
<1> DEFINE m == Contents(t)
           p == Put(m, key, Stamp(n))
           root == [m[Root] EXCEPT !.changed = n]
           v == TouchRoot(u, n)
<1>1. key # Root
  BY RootAssumption
<1>2. Root \in DOMAIN m
  BY DEF Contents
<1>3. Root \in DOMAIN p /\ p[Root] = m[Root]
  BY <1>1, <1>2 DEF Put
<1> HIDE DEF m, p
<1>4. CallOK(t, u, Keys, Value, p)
  BY DEF p, m
<1>5. Processed(t, u, p)
  BY <1>3, <1>4, CallProcessed
<1>6. Listed(u, Keys, Value) /\ Root \in DOMAIN u.map /\ Contents(u) = p
  BY <1>5 DEF Processed, Reads
<1>7. Processed(u, v, Put(Contents(u), Root,
                          [Contents(u)[Root] EXCEPT !.changed = n]))
  BY <1>6, TouchRootOK
<1>8. Processed(u, v, Put(p, Root, root))
  BY <1>3, <1>6, <1>7
<1> HIDE DEF root, v
<1>9. Processed(t, v, Put(p, Root, root))
  BY <1>5, <1>8, ProcessedTwice
<1>10. Put(p, Root, root) = Put(Put(m, Root, root), key, Stamp(n))
  BY <1>1, PutsCommute, SMT DEF p
<1>11. Processed(t, v, Put(Put(m, Root, root), key, Stamp(n)))
  BY <1>9, <1>10
<1> QED BY <1>11 DEF m, root, v

\* The calls of a request make of the map what the request says.
LEMMA ProcessRequestOK ==
    ASSUME NEW t, Listed(t, Keys, Value), Root \in DOMAIN t.map,
           NEW request \in Request, NEW n \in 0 .. MaxLog
    PROVE  Processed(t, processRequest(t, request, n),
                     Applied(Contents(t), request, n))
<1> DEFINE key == request.key
           m == Contents(t)
           touched == Put(m, Root, [m[Root] EXCEPT !.changed = n])
           u == processRequest(t, request, n)
<1>1. key \in Key /\ key # Root /\ key \in Keys
  BY RootAssumption DEF Request, Keys
<1>2. contains(t, key) <=> key \in DOMAIN m
  BY DEF contains, Contents
<1>3. Stamp(n) \in Value
  BY Values
<1> HIDE DEF key
<1>4. CASE contains(t, key) = (request.op = "create")
  <2>1. u = t
    BY <1>4 DEF processRequest, key
  <2>2. Applied(m, request, n) = m
    BY <1>2, <1>4, SMT DEF Applied, key, contains
  <2>3. CallOK(t, t, Keys, Value, m)
    BY NothingDone
  <2>4. Root \in DOMAIN m
    BY DEF Contents
  <2>5. Processed(t, t, m)
    BY <2>3, <2>4, CallProcessed
  <2> QED BY <2>1, <2>2, <2>5
<1>5. CASE contains(t, key) # (request.op = "create")
  <2>1. CASE request.op = "create"
    <3>1. ~contains(t, key)
      BY <1>5, <2>1
    <3>2. u = TouchRoot(insert(t, key, Stamp(n)), n)
      BY <1>5, <2>1, <3>1 DEF processRequest, key
    <3>3. Applied(m, request, n) = Put(touched, key, Stamp(n))
      BY <1>2, <2>1, <3>1 DEF Applied, key
    <3>4. CallOK(t, insert(t, key, Stamp(n)), Keys, Value,
                 IF contains(t, key) THEN m ELSE Put(m, key, Stamp(n)))
      BY <1>1, <1>3, InsertOK
    <3>5. CallOK(t, insert(t, key, Stamp(n)), Keys, Value,
                 Put(m, key, Stamp(n)))
      BY <3>1, <3>4
    <3> DEFINE w == insert(t, key, Stamp(n))
    <3> HIDE DEF w
    <3>6. Processed(t, TouchRoot(w, n), Put(touched, key, Stamp(n)))
      BY <1>1, <3>5, PutTouched DEF w
    <3> QED BY <3>2, <3>3, <3>6 DEF w
  <2>2. CASE request.op = "set"
    <3>1. contains(t, key)
      BY <1>5, <2>2, SMT DEF contains
    <3>2. u = TouchRoot(updateValue(t, key, Stamp(n)), n)
      BY <1>5, <2>2, <3>1 DEF processRequest, key
    <3>3. Applied(m, request, n) = Put(touched, key, Stamp(n))
      BY <1>2, <2>2, <3>1 DEF Applied, key
    <3> DEFINE w == updateValue(t, key, Stamp(n))
    <3>4. key \in DOMAIN t.map
      BY <3>1 DEF contains
    <3>5. CallOK(t, w, Keys, Value, Put(m, key, Stamp(n)))
      BY <1>3, <3>4, UpdateValueOK
    <3> HIDE DEF w
    <3>6. Processed(t, TouchRoot(w, n), Put(touched, key, Stamp(n)))
      BY <1>1, <3>5, PutTouched
    <3> QED BY <3>2, <3>3, <3>6 DEF w
  <2>3. CASE request.op = "remove"
    <3>1. contains(t, key)
      BY <1>5, <2>3, SMT DEF contains
    <3> DEFINE w == TouchRoot(t, n)
    <3>2. u = erase(w, key)
      BY <1>5, <2>3, <3>1 DEF processRequest, key
    <3>3. Applied(m, request, n) = Drop(touched, key)
      BY <1>2, <2>3, <3>1 DEF Applied, key
    <3>4. Processed(t, w, touched)
      BY TouchRootOK
    <3> HIDE DEF w, touched
    <3>5. Listed(w, Keys, Value) /\ Root \in DOMAIN w.map /\ Contents(w) = touched
      BY <3>4 DEF Processed, Reads
    <3>6. CallOK(w, erase(w, key), Keys, Value, Drop(Contents(w), key))
      BY <3>5, EraseOK
    <3>7. Root \in DOMAIN Drop(Contents(w), key)
      BY <1>1, <3>5 DEF Drop, Contents
    <3>8. Processed(w, erase(w, key), Drop(touched, key))
      BY <3>5, <3>6, <3>7, CallProcessed
    <3>9. Processed(t, erase(w, key), Drop(touched, key))
      BY <3>4, <3>8, ProcessedTwice
    <3> QED BY <3>2, <3>3, <3>9
  <2> QED BY <2>1, <2>2, <2>3 DEF Request
<1> QED BY <1>4, <1>5 DEF u, m

\* The storage of a new process.
LEMMA NewStorageOK ==
    /\ Listed(NewStorage, Keys, Value)
    /\ Fresh(NewStorage)
    /\ DOMAIN NewStorage.map = {Root}
    /\ Reads(NewStorage, [key \in {Root} |-> Stamp(0)])
<1> DEFINE t == EmptyTable
           u == NewStorage
           new == [key \in {Root} |-> Stamp(0)]
<1>1. /\ Listed(t, Keys, Value) /\ DOMAIN t.map = {} /\ ~t.snapshot_mode
      /\ t.snapshot_invalid_iters = <<>>
  BY EmptyTableOK
<1>2. Root \in Keys /\ Stamp(0) \in Value
  <2>1. 0 \in 0 .. MaxLog
    BY ValueAssumption, SMT
  <2> QED BY <2>1, Values DEF Keys
<1>3. CallOK(t, insert(t, Root, Stamp(0)), Keys, Value,
             IF contains(t, Root) THEN Contents(t)
                                  ELSE Put(Contents(t), Root, Stamp(0)))
  BY <1>1, <1>2, InsertOK
<1>4. ~contains(t, Root)
  BY <1>1 DEF contains
<1>5. Put(Contents(t), Root, Stamp(0)) = new
  <2>1. DOMAIN Contents(t) = {}
    BY <1>1 DEF Contents
  <2> QED BY <2>1 DEF Put
<1>6. CallOK(t, u, Keys, Value, new)
  BY <1>3, <1>4, <1>5 DEF NewStorage
<1> HIDE DEF t, u
<1>7. Listed(u, Keys, Value) /\ Kept(t, u) /\ Reads(u, new)
  BY <1>6 DEF CallOK
<1>8. Fresh(u)
  BY <1>1, <1>7 DEF Fresh, Kept
<1>9. DOMAIN u.map = {Root}
  <2>1. DOMAIN new = {Root}
    OBVIOUS
  <2> HIDE DEF new
  <2> QED BY <1>7, <2>1, ReadsKeys
<1> QED BY <1>7, <1>8, <1>9 DEF u

\* What init() and apply_snapshot() put in the place of a storage.
Loaded(t) ==
    Listed(t, Keys, Value) /\ Fresh(t) /\ Root \in DOMAIN t.map

\* Whatever nodes a file has, deserialize() makes a storage of them.
LEMMA DeserializeLoaded ==
    ASSUME NEW file \in File
    PROVE  Loaded(deserialize(NewStorage, file))
<1> DEFINE nodes == file.nodes
           N == Len(nodes)
<1>1. N \in Nat /\ \A n \in 1 .. N : nodes[n].key \in Keys /\ nodes[n].value \in Value
  <2>1. nodes \in Seq([key : Keys, value : Value])
    BY DEF File
  <2>2. N \in Nat /\ \A n \in 1 .. N : nodes[n] \in [key : Keys, value : Value]
    BY <2>1, SeqElements
  <2> QED BY <2>2
<1>2. PICK g : /\ Loading(g, NewStorage, nodes, N)
               /\ deserialize(NewStorage, file) = g[N]
  BY <1>1, DeserializeLoads, SMT
<1>3. /\ g[0] = NewStorage
      /\ \A n \in 1 .. N :
             g[n] = insertOrReplace(g[n - 1], nodes[n].key, nodes[n].value)
  <2>1. 0 \in 0 .. N /\ \A n \in 1 .. N : n \in 0 .. N /\ n # 0
    BY <1>1, SMT
  <2> QED BY <1>2, <2>1 DEF Loading
<1> HIDE DEF nodes
<1> DEFINE G == {n \in 0 .. N : Loaded(g[n])}
<1>4. 0 \in G
  <2>1. 0 \in 0 .. N
    BY <1>1, SMT
  <2> QED BY <1>3, <2>1, NewStorageOK DEF Loaded
<1>5. ASSUME NEW n \in 0 .. N - 1, n \in G PROVE n + 1 \in G
  <2> DEFINE r == g[n]
             u == g[n + 1]
             key == nodes[n + 1].key
             value == nodes[n + 1].value
  <2>1. Listed(r, Keys, Value) /\ Fresh(r) /\ Root \in DOMAIN r.map
    BY <1>5 DEF Loaded
  <2>2. n + 1 \in 1 .. N /\ n + 1 \in 0 .. N /\ (n + 1) - 1 = n
    BY <1>1, SMT
  <2>3. key \in Keys /\ value \in Value
    BY <1>1, <2>2
  <2>4. u = insertOrReplace(r, key, value)
    BY <1>3, <2>2
  <2> HIDE DEF G
  <2> HIDE DEF r, u, key, value
  <2>5. CallOK(r, u, Keys, Value, Put(Contents(r), key, value))
    BY <2>1, <2>3, <2>4, InsertOrReplaceOK
  <2>6. Listed(u, Keys, Value) /\ Kept(r, u)
        /\ Reads(u, Put(Contents(r), key, value))
    BY <2>5 DEF CallOK
  <2>7. Fresh(u)
    BY <2>1, <2>6 DEF Fresh, Kept
  <2>8. Root \in DOMAIN u.map
    <3>1. DOMAIN u.map = DOMAIN Put(Contents(r), key, value)
      BY <2>6, ReadsKeys
    <3> QED BY <2>1, <3>1 DEF Put, Contents
  <2> QED BY <2>2, <2>6, <2>7, <2>8 DEF G, u, Loaded
<1> HIDE DEF G
<1>6. \A n \in 0 .. N : n \in G
  BY <1>1, <1>4, <1>5, UpTo
<1>7. N \in G
  BY <1>1, <1>6, SMT
<1> QED BY <1>2, <1>7 DEF G

\* From the file of a map of nodes comes a storage that reads as the map.
LEMMA RestoreOK ==
    ASSUME NEW m, NEW n, StateOK(m, n), NEW file, Written(file, m, Keys, Value)
    PROVE  /\ Loaded(deserialize(NewStorage, file))
           /\ Reads(deserialize(NewStorage, file), m)
<1> DEFINE d == deserialize(NewStorage, file)
<1>1. m = [k \in DOMAIN m |-> m[k]] /\ Root \in DOMAIN m
  BY DEF StateOK
<1>2. /\ Listed(NewStorage, Keys, Value) /\ Fresh(NewStorage)
      /\ DOMAIN NewStorage.map \subseteq DOMAIN m
  BY <1>1, NewStorageOK
<1>3. Listed(d, Keys, Value) /\ Fresh(d) /\ Reads(d, m)
  BY <1>1, <1>2, DeserializeOK
<1> HIDE DEF d
<1>4. Root \in DOMAIN d.map
  BY <1>1, <1>3, ReadsKeys
<1> QED BY <1>3, <1>4 DEF Loaded, d

\* A function on 1 .. n is a sequence.
LEMMA FunctionIsSeq ==
    ASSUME NEW S, NEW n \in Nat, NEW q \in [1 .. n -> S]
    PROVE  q \in Seq(S) /\ Len(q) = n
  BY SMT

\* The file of the leader holds the nodes of the map.
LEMMA MapFileOK ==
    ASSUME NEW m, NEW n, StateOK(m, n)
    PROVE  /\ MapFile(m) \in File
           /\ Readable(MapFile(m))
           /\ Written(MapFile(m), m, Keys, Value)
<1> DEFINE count == Cardinality(DOMAIN m)
           order == CHOOSE f \in Bijection(1 .. count, DOMAIN m) : TRUE
           nodes == [i \in 1 .. count |-> [key |-> order[i], value |-> m[order[i]]]]
           file == MapFile(m)
<1>1. file = [container_size |-> count, nodes |-> nodes]
  BY DEF MapFile
<1> HIDE DEF file
<1>2. /\ DOMAIN m \subseteq Keys /\ IsFiniteSet(DOMAIN m)
      /\ \A k \in DOMAIN m : m[k] \in Value
  BY DEF StateOK
<1>3. count \in Nat /\ ExistsBijection(1 .. count, DOMAIN m)
  BY <1>2, FS_CardinalityType
<1> HIDE DEF count
<1>4. order \in Bijection(1 .. count, DOMAIN m)
  BY <1>3 DEF ExistsBijection
<1> HIDE DEF order
<1>5. /\ \A i \in 1 .. count : order[i] \in DOMAIN m
      /\ \A k \in DOMAIN m : \E i \in 1 .. count : order[i] = k
  BY <1>4 DEF Bijection, Injection, Surjection
<1>6. \A i \in 1 .. count : nodes[i] \in [key : Keys, value : Value]
  BY <1>2, <1>5
<1>7. /\ \A i \in 1 .. count : /\ nodes[i].key = order[i]
                               /\ nodes[i].value = m[order[i]]
      /\ DOMAIN nodes = 1 .. count
      /\ nodes = [i \in 1 .. count |-> nodes[i]]
  OBVIOUS
<1> HIDE DEF nodes
<1>8. nodes \in Seq([key : Keys, value : Value]) /\ Len(nodes) = count
  <2>1. nodes \in [1 .. count -> [key : Keys, value : Value]]
    BY <1>6, <1>7
  <2> QED BY <1>3, <2>1, FunctionIsSeq
<1>9. file.nodes = nodes /\ file.container_size = count
  BY <1>1
<1>10. Written(file, m, Keys, Value)
  <2>1. \A i \in 1 .. count : /\ nodes[i].key \in DOMAIN m
                               /\ nodes[i].value = m[nodes[i].key]
    BY <1>5, <1>7
  <2>2. ASSUME NEW k \in DOMAIN m
        PROVE  \E i \in 1 .. count : nodes[i].key = k
    <3>1. PICK i \in 1 .. count : order[i] = k
      BY <1>5
    <3>2. nodes[i].key = k
      BY <1>7, <3>1
    <3> QED BY <3>2
  <2> QED BY <1>8, <1>9, <2>1, <2>2 DEF Written
<1>11. file \in File /\ Readable(file)
  BY <1>1, <1>3, <1>8, <1>9 DEF File, Readable
<1> QED BY <1>10, <1>11 DEF file

\* A file with the nodes of a map is typed and readable.
LEMMA WrittenReadable ==
    ASSUME NEW file, NEW m, Written(file, m, Keys, Value)
    PROVE  Readable(file)
  BY DEF Written, Readable

\* The fields of a snapshot.
LEMMA SnapshotFields ==
    ASSUME NEW s \in Snapshot(Keys, Value)
    PROVE  /\ IsSnapshot(s)
           /\ s.last_log_idx \in Nat /\ s.container_size \in Nat
           /\ s.counter \in Nat /\ s.it \in Nat
           /\ s.nodes \in Seq([key : Keys, value : Value])
           /\ s.writing \in BOOLEAN
  BY DEF Snapshot, IsSnapshot

\* A snapshot that is one turn of the loop further is a snapshot.
LEMMA SnapshotUpdated ==
    ASSUME NEW s \in Snapshot(Keys, Value), NEW n, IsSnapshot(n),
           n.last_log_idx = s.last_log_idx,
           n.container_size = s.container_size,
           n.counter \in Nat, n.it \in Nat,
           n.nodes \in Seq([key : Keys, value : Value]),
           n.writing \in BOOLEAN
    PROVE  n \in Snapshot(Keys, Value)
<1>1. n.last_log_idx \in Nat /\ n.container_size \in Nat
  BY SnapshotFields
<1> QED BY <1>1 DEF Snapshot, IsSnapshot

\* Whatever the iterator finds, the snapshot stays one.
LEMMA SerializeTyped ==
    ASSUME NEW t, Listed(t, Keys, Value), NEW s \in Snapshot(Keys, Value),
           s.it \in DOMAIN t.list
    PROVE  /\ SerializeNode(s, t) \in Snapshot(Keys, Value)
           /\ SerializeNode(s, t).last_log_idx = s.last_log_idx
<1> DEFINE elem == t.list[s.it]
           node == [key |-> elem.key, value |-> elem.value]
           next == NextIter(t, s.it)
           it == IF s.counter = s.container_size - 1 THEN s.it ELSE next
           nodes == Append(s.nodes, node)
           writing == s.counter # s.container_size - 1
<1>1. node \in [key : Keys, value : Value]
  <2>1. elem.key \in Keys /\ elem.value \in Value
    BY ElementFields DEF Listed
  <2> QED BY <2>1
<1>2. next \in Nat
  <2> DEFINE S == {i \in DOMAIN t.list : i > s.it} \cup {t.end}
  <2>1. S \in SUBSET Nat /\ S # {}
    BY ListFinite
  <2> HIDE DEF S
  <2>2. Min(S) \in S
    BY <2>1, MinOfNats
  <2> QED BY <2>1, <2>2 DEF NextIter, S
<1>3. it \in Nat
  BY <1>2 DEF Snapshot
<1>4. s.nodes \in Seq([key : Keys, value : Value])
  BY DEF Snapshot
<1>5. nodes \in Seq([key : Keys, value : Value])
  BY <1>1, <1>4, AppendElements
<1>6. SerializeNode(s, t) =
          IF mzxid(elem.value) > s.last_log_idx
          THEN [s EXCEPT !.writing = FALSE]
          ELSE [s EXCEPT !.nodes = nodes, !.counter = @ + 1, !.it = it,
                         !.writing = writing]
  BY DEF SerializeNode
<1>7. writing \in BOOLEAN
  OBVIOUS
<1> HIDE DEF elem, node, next, it, nodes, writing
<1>8. ASSUME NEW n, n = [s EXCEPT !.writing = FALSE]
      PROVE  n \in Snapshot(Keys, Value) /\ n.last_log_idx = s.last_log_idx
  <2>1. /\ IsSnapshot(n) /\ n.last_log_idx = s.last_log_idx
        /\ n.container_size = s.container_size /\ n.counter = s.counter
        /\ n.it = s.it /\ n.nodes = s.nodes /\ n.writing = FALSE
    BY <1>8 DEF IsSnapshot, Snapshot
  <2> QED BY <2>1, SnapshotFields, SnapshotUpdated
<1>9. ASSUME NEW n, n = [s EXCEPT !.nodes = nodes, !.counter = @ + 1, !.it = it,
                                  !.writing = writing]
      PROVE  n \in Snapshot(Keys, Value) /\ n.last_log_idx = s.last_log_idx
  <2>1. /\ IsSnapshot(n) /\ n.last_log_idx = s.last_log_idx
        /\ n.container_size = s.container_size /\ n.counter = s.counter + 1
        /\ n.it = it /\ n.nodes = nodes /\ n.writing = writing
    BY <1>9 DEF IsSnapshot, Snapshot
  <2>2. s.counter + 1 \in Nat
    BY SnapshotFields, SMT
  <2> QED BY <1>3, <1>5, <1>7, <2>1, <2>2, SnapshotUpdated
<1> QED BY <1>6, <1>8, <1>9

\* What AddFile makes of the files: the file is one of them, or was removed at
\* once, and the others are what they were.
Added(old, new, idx, file) ==
    /\ DOMAIN new \subseteq DOMAIN old \cup {idx}
    /\ \A i \in DOMAIN new : new[i] = IF i = idx THEN file ELSE old[i]
    /\ Cardinality(DOMAIN new) <= snapshots_to_keep
    /\ idx \in DOMAIN old => DOMAIN new = DOMAIN old

\* AddFile does so.
LEMMA AddFileOK ==
    ASSUME NEW old, NEW n \in Nat, DOMAIN old \subseteq 0 .. n,
           Cardinality(DOMAIN old) <= snapshots_to_keep,
           NEW idx \in 0 .. n, NEW file
    PROVE  Added(old, AddFile(old, idx, file), idx, file)
<1> DEFINE put == Put(old, idx, file)
           D == DOMAIN old
           P == D \cup {idx}
           new == AddFile(old, idx, file)
           least == Min(P)
<1>1. DOMAIN put = P /\ \A i \in P : put[i] = IF i = idx THEN file ELSE old[i]
  BY DEF Put
<1>2. IsFiniteSet(D) /\ IsFiniteSet(P) /\ P \in SUBSET Nat /\ P # {}
  <2>1. IsFiniteSet(0 .. n)
    BY FS_Interval, SMT
  <2>2. P \subseteq 0 .. n
    OBVIOUS
  <2>3. 0 .. n \subseteq Nat
    BY SMT
  <2> QED BY <2>1, <2>2, <2>3, FS_Subset
<1>3. /\ Cardinality(D) \in Nat /\ Cardinality(P) \in Nat
      /\ Cardinality(P) <= Cardinality(D) + 1
  <2>1. Cardinality(P) = IF idx \in D THEN Cardinality(D) ELSE Cardinality(D) + 1
    BY <1>2, FS_AddElement
  <2>2. Cardinality(D) \in Nat
    BY <1>2, FS_CardinalityType
  <2> QED BY <2>1, <2>2, SMT
<1>4. least \in P /\ \A i \in P : least <= i
  BY <1>2, MinOfNats
<1>5. snapshots_to_keep \in Nat \ {0}
  BY SnapshotsToKeepAssumption
<1> HIDE DEF put, least
<1>6. CASE Cardinality(P) <= snapshots_to_keep
  <2>1. new = put
    BY <1>1, <1>6 DEF AddFile, removeOutdatedSnapshotsIfNeeded, put
  <2> HIDE DEF new
  <2>2. idx \in D => P = D
    OBVIOUS
  <2> QED BY <1>1, <1>6, <2>1, <2>2 DEF Added, new
<1>7. CASE ~(Cardinality(P) <= snapshots_to_keep)
  <2>1. new = Drop(put, least)
    BY <1>1, <1>7 DEF AddFile, removeOutdatedSnapshotsIfNeeded, put, least
  <2> HIDE DEF new
  <2>2. DOMAIN new = P \ {least} /\ \A i \in DOMAIN new : new[i] = put[i]
    BY <1>1, <2>1 DEF Drop
  <2>3. Cardinality(P \ {least}) <= snapshots_to_keep
    <3>1. Cardinality(P \ {least}) = Cardinality(P) - 1
      BY <1>2, <1>4, FS_RemoveElement
    <3> QED BY <1>3, <1>5, <3>1, SMT
  <2>4. idx \notin D
    <3>1. idx \in D => P = D
      OBVIOUS
    <3> QED BY <1>7, <3>1
  <2> QED BY <1>1, <2>2, <2>3, <2>4 DEF Added, new
<1> QED BY <1>6, <1>7

\* A file stays when a file is added, if all that are newer, apart from the
\* one added, are in a set with room for two more: at most one is removed, the
\* one with the least index.
LEMMA FileStays ==
    ASSUME NEW old, NEW n \in Nat, DOMAIN old \subseteq 0 .. n,
           NEW idx \in 0 .. n, NEW file,
           NEW B, IsFiniteSet(B), Cardinality(B) + 2 <= snapshots_to_keep,
           NEW i \in DOMAIN old \cup {idx},
           \A j \in DOMAIN old : j < i \/ j \in B \cup {i, idx}
    PROVE  i \in DOMAIN AddFile(old, idx, file)
<1> DEFINE put == Put(old, idx, file)
           P == DOMAIN old \cup {idx}
           C == (B \cup {i}) \cup {idx}
           least == Min(P)
<1>1. DOMAIN put = P
  BY DEF Put
<1>2. P \in SUBSET Nat /\ P # {}
  <2>1. 0 .. n \subseteq Nat
    BY SMT
  <2> QED BY <2>1
<1>3. least \in P /\ \A j \in P : least <= j
  BY <1>2, MinOfNats
<1> HIDE DEF put, least
<1>4. CASE Cardinality(P) <= snapshots_to_keep
  <2>1. AddFile(old, idx, file) = put
    BY <1>1, <1>4 DEF AddFile, removeOutdatedSnapshotsIfNeeded, put
  <2> QED BY <1>1, <2>1
<1>5. CASE ~(Cardinality(P) <= snapshots_to_keep)
  <2>1. AddFile(old, idx, file) = Drop(put, least)
    BY <1>1, <1>5 DEF AddFile, removeOutdatedSnapshotsIfNeeded, put, least
  <2>2. DOMAIN AddFile(old, idx, file) = P \ {least}
    BY <1>1, <2>1 DEF Drop
  <2>3. i # least
    <3> SUFFICES ASSUME i = least PROVE FALSE
      OBVIOUS
    <3>1. ASSUME NEW j \in DOMAIN old, j < i PROVE FALSE
      <4>1. i <= j /\ i \in Nat /\ j \in Nat
        BY <1>2, <1>3
      <4> QED BY <3>1, <4>1, SMT
    <3>2. P \subseteq C
      BY <3>1
    <3>3. /\ IsFiniteSet(B \cup {i}) /\ IsFiniteSet(C)
          /\ Cardinality(B \cup {i}) <= Cardinality(B) + 1
          /\ Cardinality(C) <= Cardinality(B \cup {i}) + 1
          /\ Cardinality(B) \in Nat /\ Cardinality(B \cup {i}) \in Nat
          /\ Cardinality(C) \in Nat
      <4>1. /\ IsFiniteSet(B \cup {i})
            /\ Cardinality(B \cup {i}) = IF i \in B THEN Cardinality(B)
                                         ELSE Cardinality(B) + 1
        BY FS_AddElement
      <4>2. /\ IsFiniteSet(C)
            /\ Cardinality(C) = IF idx \in B \cup {i}
                                THEN Cardinality(B \cup {i})
                                ELSE Cardinality(B \cup {i}) + 1
        BY <4>1, FS_AddElement
      <4>3. /\ Cardinality(B) \in Nat /\ Cardinality(B \cup {i}) \in Nat
            /\ Cardinality(C) \in Nat
        BY <4>1, <4>2, FS_CardinalityType
      <4> HIDE DEF C
      <4> QED BY <4>1, <4>2, <4>3, SMT
    <3> HIDE DEF P, C
    <3>4. Cardinality(P) <= Cardinality(C) /\ Cardinality(P) \in Nat
      BY <3>2, <3>3, FS_Subset, FS_CardinalityType
    <3> QED BY <1>5, <3>3, <3>4, SnapshotsToKeepAssumption, SMT
  <2> QED BY <2>2, <2>3
<1> QED BY <1>4, <1>5

-----------------------------------------------------------------------------
(***************************************************************************)
(* What holds whatever has failed, lagged or overlapped: types, and that a *)
(* file received whole is the one of the leader.                           *)
(***************************************************************************)

\* A snapshot of the first entries of the log, at most n of them.
IsTask(s, n) == s \in Snapshot(Keys, Value) /\ s.last_log_idx \in 1 .. n

LogOK ==
    /\ log \in Seq(Request)
    /\ Len(log) \in 0 .. MaxLog
    /\ last_committed_idx \in 0 .. Len(log)
    /\ log_start \in 1 .. Len(log) + 1
    /\ latest_snapshot_meta \in 0 .. Len(log)
    /\ abandoned \subseteq 1 .. Len(log)

StorageOK == Listed(container, Keys, Value) /\ Root \in DOMAIN container.map

TaskOK ==
    /\ queued # None => IsTask(queued, last_committed_idx)
    /\ snapshot # None => IsTask(snapshot, last_committed_idx)
    /\ stage \in {"idle", "writing", "written", "failed"}
    /\ (stage = "idle") <=> (snapshot = None)
    /\ freed \subseteq PendingTasks

\* The entries up to the snapshot are not committed before it is applied.
InstallOK ==
    installing # None =>
        /\ installing \in [last_log_idx : Nat, saved : 0 .. 2]
        /\ installing.last_log_idx \in last_committed_idx + 1 .. Len(log)

\* The files of snapshots of the first n entries.
AreFiles(files, n) ==
    /\ DOMAIN files \subseteq 1 .. n
    /\ \A i \in DOMAIN files : files[i] \in File
    /\ Cardinality(DOMAIN files) <= snapshots_to_keep

FilesOK ==
    /\ AreFiles(existing_snapshots, Len(log))
    /\ installing # None =>
           (installing.saved = 2
              /\ installing.last_log_idx \in DOMAIN existing_snapshots =>
                existing_snapshots[installing.last_log_idx]
                    = MapFile(StateOf(log, installing.last_log_idx)))

FlagsOK ==
    /\ snapshot_running \in BOOLEAN
    /\ spoiled \in BOOLEAN
    /\ stray \in BOOLEAN
    /\ crashes \in Nat

TypedInv ==
    LogOK /\ StorageOK /\ TaskOK /\ InstallOK /\ FilesOK /\ FlagsOK

\* More of the log may be committed.
LEMMA IsTaskMonotone ==
    ASSUME NEW s, NEW n \in Nat, NEW k \in Nat, n <= k, IsTask(s, n)
    PROVE  IsTask(s, k)
<1>1. ASSUME NEW i \in 1 .. n PROVE i \in 1 .. k
  BY SMT
<1> QED BY <1>1 DEF IsTask

\* The numbers of TypedInv are numbers.
LEMMA Numbers ==
    ASSUME TypedInv
    PROVE  /\ Len(log) \in Nat /\ MaxLog \in Nat /\ Len(log) <= MaxLog
           /\ last_committed_idx \in Nat /\ last_committed_idx <= Len(log)
           /\ log_start \in Nat /\ latest_snapshot_meta \in Nat
<1>1. LogOK /\ MaxLog \in Nat
  BY ValueAssumption DEF TypedInv
<1> QED BY <1>1, SMT DEF LogOK

\* What the log makes up to an index it has.
LEMMA PrefixOK ==
    ASSUME TypedInv, NEW n \in 0 .. Len(log)
    PROVE  StateOK(StateOf(log, n), n)
<1>1. log \in Seq(Request) /\ Len(log) <= MaxLog
  BY Numbers DEF TypedInv, LogOK
<1> QED BY <1>1, StateOfOK

\* A new process.
LEMMA InitTyped ==
    ASSUME Init
    PROVE  TypedInv
<1>1. LogOK
  <2>1. <<>> \in Seq(Request) /\ Len(<<>>) = 0
    BY SMT
  <2>2. 0 \in 0 .. MaxLog /\ 0 \in 0 .. 0 /\ 1 \in 1 .. 0 + 1
    BY ValueAssumption, SMT
  <2> QED BY <2>1, <2>2 DEF Init, LogOK
<1>2. StorageOK
  BY NewStorageOK DEF Init, StorageOK
<1>3. TaskOK /\ InstallOK
  BY DEF Init, TaskOK, InstallOK
<1>4. FilesOK
  <2>1. DOMAIN existing_snapshots = {}
    <3>1. DOMAIN << >> = {}
      BY SMT
    <3> QED BY <3>1 DEF Init
  <2>2. Cardinality({}) <= snapshots_to_keep
    BY FS_EmptySet, SnapshotsToKeepAssumption, SMT
  <2> QED BY <2>1, <2>2 DEF Init, FilesOK, AreFiles
<1>5. FlagsOK
  <2>1. 0 \in Nat
    BY SMT
  <2> QED BY <2>1 DEF Init, FlagsOK
<1> QED BY <1>1, <1>2, <1>3, <1>4, <1>5 DEF TypedInv

\* The leader appends an entry: what the log makes up to an index it had
\* stays as it is.
LEMMA ProposeLog ==
    ASSUME TypedInv, NEW request \in Request, Propose(request)
    PROVE  /\ log' \in Seq(Request) /\ Len(log') = Len(log) + 1
           /\ \A n \in 0 .. Len(log) : StateOf(log', n) = StateOf(log, n)
<1>1. log \in Seq(Request)
  BY DEF TypedInv, LogOK
<1>2. log' = Append(log, request)
  BY DEF Propose
<1>3. /\ log' \in Seq(Request) /\ Len(log') = Len(log) + 1
      /\ \A n \in 1 .. Len(log) : log'[n] = log[n]
  <2>1. /\ Append(log, request) \in Seq(Request)
        /\ Len(Append(log, request)) = Len(log) + 1
        /\ \A n \in 1 .. Len(log) : Append(log, request)[n] = log[n]
    BY <1>1, SMT
  <2> QED BY <1>2, <2>1
<1>4. ASSUME NEW n \in 0 .. Len(log) PROVE StateOf(log', n) = StateOf(log, n)
  <2>1. n \in Nat /\ \A i \in 1 .. n : i \in 1 .. Len(log)
    BY Numbers, SMT
  <2>2. Agree(log', log, n)
    BY <1>3, <2>1 DEF Agree
  <2> QED BY <2>1, <2>2, StateOfSame
<1> QED BY <1>3, <1>4

\* A request is appended to the log: nothing else moves.
LEMMA ProposeTyped ==
    ASSUME TypedInv, NEW request \in Request, Propose(request)
    PROVE  TypedInv'
<1>1. /\ UNCHANGED <<log_start, snapshot_running, installing, container,
                     last_committed_idx>>
      /\ UNCHANGED <<queued, snapshot, stage, freed>>
      /\ UNCHANGED <<existing_snapshots, latest_snapshot_meta>>
      /\ UNCHANGED <<spoiled, stray, abandoned, crashes>> /\ Len(log) < MaxLog
  BY SMT DEF Propose, task, disk, faults
<1>2. /\ log' \in Seq(Request) /\ Len(log') = Len(log) + 1
      /\ \A n \in 0 .. Len(log) : StateOf(log', n) = StateOf(log, n)
  BY ProposeLog
<1>3. LogOK'
  BY <1>1, <1>2, Numbers, SMT DEF TypedInv, LogOK
<1>4. StorageOK' /\ TaskOK' /\ FlagsOK'
  BY <1>1 DEF TypedInv, StorageOK, TaskOK, FlagsOK, PendingTasks
<1>5. InstallOK'
  <2>1. ASSUME NEW i \in last_committed_idx + 1 .. Len(log)
        PROVE  i \in last_committed_idx + 1 .. Len(log) + 1
    BY Numbers, SMT
  <2> QED BY <1>1, <1>2, <2>1 DEF TypedInv, InstallOK
<1>6. FilesOK'
  <2>1. \A i \in 1 .. Len(log) : i \in 1 .. Len(log')
    BY <1>2, Numbers, SMT
  <2>2. \A i \in last_committed_idx + 1 .. Len(log) : i \in 0 .. Len(log)
    BY Numbers, SMT
  <2>3. AreFiles(existing_snapshots, Len(log'))
    BY <2>1 DEF TypedInv, FilesOK, AreFiles
  <2> QED BY <1>1, <1>2, <2>2, <2>3 DEF TypedInv, FilesOK, InstallOK
<1> QED BY <1>3, <1>4, <1>5, <1>6 DEF TypedInv

\* The next entry is one of the log, and not one of those that are replaced
\* by the snapshot being received.
LEMMA CommitLog ==
    ASSUME TypedInv, commit
    PROVE  /\ last_committed_idx' = last_committed_idx + 1
           /\ last_committed_idx + 1 \in 1 .. Len(log)
           /\ installing # None => last_committed_idx + 1 < installing.last_log_idx
           /\ log[last_committed_idx + 1] \in Request
           /\ container' = processRequest(container,
                                          log[last_committed_idx + 1],
                                          last_committed_idx + 1)
<1>1. /\ last_committed_idx' = last_committed_idx + 1
      /\ last_committed_idx + 1 \in Committable
      /\ container' = processRequest(container, log[last_committed_idx + 1],
                                     last_committed_idx + 1)
  BY DEF commit
<1>2. log_start \in Nat \ {0}
  BY Numbers, SMT DEF TypedInv, LogOK
<1>3. /\ last_committed_idx + 1 \in 1 .. Len(log)
      /\ installing # None => last_committed_idx + 1 < installing.last_log_idx
  <2>1. CASE installing = None
    <3>1. last_committed_idx + 1 \in log_start .. Len(log)
      BY <1>1, <2>1 DEF Committable
    <3>2. last_committed_idx + 1 \in 1 .. Len(log)
      BY <1>2, <3>1, Numbers, SMT
    <3> QED BY <2>1, <3>2
  <2>2. CASE installing # None
    <3> DEFINE idx == installing.last_log_idx
    <3>1. last_committed_idx + 1 \in log_start .. idx - 1
      BY <1>1, <2>2 DEF Committable
    <3>2. idx \in last_committed_idx + 1 .. Len(log)
      BY <2>2 DEF TypedInv, InstallOK
    <3> HIDE DEF idx
    <3>3. last_committed_idx + 1 \in 1 .. Len(log) /\ last_committed_idx + 1 < idx
      BY <1>2, <3>1, <3>2, Numbers, SMT
    <3> QED BY <3>3 DEF idx
  <2> QED BY <2>1, <2>2
<1>4. log[last_committed_idx + 1] \in Request
  BY <1>3, SeqElements DEF TypedInv, LogOK
<1> QED BY <1>1, <1>3, <1>4

\* The storage after a commit, and what the snapshot thread sees of it.
LEMMA CommitStorage ==
    ASSUME TypedInv, commit
    PROVE  Processed(container, container',
                     Applied(Contents(container), log[last_committed_idx + 1],
                             last_committed_idx + 1))
<1> DEFINE request == log[last_committed_idx + 1]
           n == last_committed_idx + 1
<1>1. request \in Request /\ container' = processRequest(container, request, n)
  BY CommitLog
<1>2. n \in 0 .. MaxLog
  <2>1. n \in 1 .. Len(log)
    BY CommitLog
  <2> QED BY <2>1, Numbers, SMT
<1>3. Listed(container, Keys, Value) /\ Root \in DOMAIN container.map
  BY DEF TypedInv, StorageOK
<1> HIDE DEF request, n
<1>4. Processed(container, processRequest(container, request, n),
                Applied(Contents(container), request, n))
  BY <1>1, <1>2, <1>3, ProcessRequestOK
<1> QED BY <1>1, <1>4 DEF request, n

\* commit() applies the next entry to the container.
LEMMA CommitTyped ==
    ASSUME TypedInv, commit
    PROVE  TypedInv'
<1>1. /\ UNCHANGED <<log, log_start, snapshot_running, installing>>
      /\ UNCHANGED <<queued, snapshot, stage, freed>>
      /\ UNCHANGED <<existing_snapshots, latest_snapshot_meta>>
      /\ UNCHANGED <<spoiled, stray, abandoned, crashes>>
  BY SMT DEF commit, raft, task, disk, faults
<1>2. /\ last_committed_idx' = last_committed_idx + 1
      /\ last_committed_idx + 1 \in 1 .. Len(log)
      /\ installing # None => last_committed_idx + 1 < installing.last_log_idx
  BY CommitLog
<1>3. LogOK'
  <2>1. last_committed_idx + 1 \in 0 .. Len(log)
    BY <1>2, Numbers, SMT
  <2> QED BY <1>1, <1>2, <2>1 DEF TypedInv, LogOK
<1>4. StorageOK'
  BY CommitStorage DEF Processed, StorageOK
<1>5. TaskOK'
  <2>1. last_committed_idx + 1 \in Nat /\ last_committed_idx <= last_committed_idx + 1
    BY Numbers, SMT
  <2>2. ASSUME NEW s, IsTask(s, last_committed_idx)
        PROVE  IsTask(s, last_committed_idx')
    BY <1>2, <2>1, <2>2, Numbers, IsTaskMonotone
  <2> QED BY <1>1, <2>2 DEF TypedInv, TaskOK, PendingTasks
<1>6. InstallOK'
  <2>1. ASSUME NEW i \in last_committed_idx + 1 .. Len(log),
               last_committed_idx + 1 < i
        PROVE  i \in (last_committed_idx + 1) + 1 .. Len(log)
    BY <2>1, Numbers, SMT
  <2> QED BY <1>1, <1>2, <2>1 DEF TypedInv, InstallOK
<1>7. FilesOK' /\ FlagsOK'
  BY <1>1 DEF TypedInv, FilesOK, FlagsOK
<1> QED BY <1>3, <1>4, <1>5, <1>6, <1>7 DEF TypedInv

\* A set of numbers up to n has a greatest.
LEMMA MaxUpTo ==
    ASSUME NEW n \in Nat, NEW S, S \subseteq 0 .. n, S # {}
    PROVE  Max(S) \in S /\ \A i \in S : i <= Max(S)
<1> DEFINE U == {k \in Nat : \A i \in S : i <= k}
           b == Min(U)
<1>1. U \in SUBSET Nat /\ U # {}
  <2>1. n \in U
    BY SMT
  <2> QED BY <2>1
<1>2. b \in U /\ \A k \in U : b <= k
  BY <1>1, MinOfNats
<1> HIDE DEF b
<1>3. b \in Nat /\ \A i \in S : i <= b
  BY <1>2
<1>4. b \in S
  <2> SUFFICES ASSUME b \notin S PROVE FALSE
    OBVIOUS
  <2>1. \A i \in S : i < b /\ i \in Nat
    BY <1>3, SMT
  <2>2. PICK i \in S : TRUE
    OBVIOUS
  <2>3. b - 1 \in Nat /\ \A j \in S : j <= b - 1
    BY <1>3, <2>1, <2>2, SMT
  <2>4. b <= b - 1
    BY <1>2, <2>3
  <2> QED BY <1>3, <2>4, SMT
<1>5. \A i \in S : b >= i
  BY <1>3, SMT
<1>6. Max(S) \in S /\ \A i \in S : Max(S) >= i
  BY <1>4, <1>5 DEF Max
<1>7. \A i \in S : i \in Nat
  BY SMT
<1> QED BY <1>6, <1>7, SMT

\* The newest readable file is one of the files.
LEMMA LatestReadableOK ==
    ASSUME TypedInv
    PROVE  /\ LatestReadable \in {0} \cup ReadableSnapshots
           /\ \A i \in ReadableSnapshots : i <= LatestReadable
           /\ LatestReadable \in 0 .. Len(log)
           /\ LatestReadable # 0 => LatestReadable \in DOMAIN existing_snapshots
<1> DEFINE S == {0} \cup ReadableSnapshots
<1>1. ReadableSnapshots \subseteq DOMAIN existing_snapshots
  BY DEF ReadableSnapshots
<1>2. S \subseteq 0 .. Len(log) /\ S # {}
  <2>1. 0 \in 0 .. Len(log) /\ \A i \in 1 .. Len(log) : i \in 0 .. Len(log)
    BY Numbers, SMT
  <2> QED BY <1>1, <2>1 DEF TypedInv, FilesOK, AreFiles
<1> HIDE DEF S
<1>3. Max(S) \in S /\ \A i \in S : i <= Max(S)
  BY <1>2, Numbers, MaxUpTo
<1> QED BY <1>1, <1>2, <1>3 DEF LatestReadable, S

\* NuRaft's last snapshot is one of the log.
LEMMA LastSnapshotOK ==
    ASSUME TypedInv
    PROVE  /\ LastSnapshot \in 0 .. Len(log)
           /\ LatestReadable <= LastSnapshot
           /\ log_start - 1 <= LastSnapshot
<1> DEFINE S == {LatestReadable, log_start - 1}
<1>1. log_start - 1 \in 0 .. Len(log)
  BY Numbers, SMT DEF TypedInv, LogOK
<1>2. S \subseteq 0 .. Len(log) /\ S # {}
  BY <1>1, LatestReadableOK
<1> HIDE DEF S
<1>3. Max(S) \in S /\ \A i \in S : i <= Max(S)
  BY <1>2, Numbers, MaxUpTo
<1> QED BY <1>2, <1>3 DEF LastSnapshot, S

\* The in-memory snapshot.
LEMMA CreateTyped ==
    ASSUME TypedInv, create_snapshot
    PROVE  TypedInv'
<1>1. /\ UNCHANGED <<log, log_start, installing, last_committed_idx, snapshot>>
      /\ UNCHANGED <<stage, freed>>
      /\ UNCHANGED <<existing_snapshots, latest_snapshot_meta>>
      /\ UNCHANGED <<stray, abandoned, crashes>>
      /\ container' = TurnOn(container)
      /\ snapshot_running' = TRUE
  BY SMT DEF create_snapshot, disk
<1>2. PICK last_log_idx \in LastSnapshot + 1 .. last_committed_idx :
          /\ queued' = NewSnapshot(container, last_log_idx)
          /\ spoiled' = (spoiled \/ last_log_idx < last_committed_idx
                           \/ installing # None)
  BY DEF create_snapshot
<1>3. /\ Listed(container, Keys, Value) /\ Root \in DOMAIN container.map
      /\ TaskOK /\ spoiled \in BOOLEAN
  BY DEF TypedInv, StorageOK, FlagsOK
<1>4. last_log_idx \in Nat /\ last_log_idx \in 1 .. last_committed_idx
  BY Numbers, LastSnapshotOK, SMT
<1>5. StorageOK'
  BY <1>1, <1>3, TurnOnOK DEF StorageOK
<1>6. IsTask(queued', last_committed_idx)
  <2>1. /\ Cursor(NewSnapshot(container, last_log_idx), container, Keys, Value)
        /\ NewSnapshot(container, last_log_idx).last_log_idx = last_log_idx
    <3>1. Listed(container, Keys, Value) /\ last_log_idx \in Nat
      BY <1>3, <1>4
    <3> QED BY <3>1, CursorBegin, SMT
  <2> QED BY <1>2, <1>4, <2>1 DEF Cursor, IsTask
<1>7. TaskOK'
  <2>1. queued' # None
    BY <1>6, NoneAssumption DEF IsTask
  <2>2. PendingTasks \subseteq PendingTasks'
    BY <1>1, <2>1 DEF PendingTasks
  <2> QED BY <1>1, <1>3, <1>6, <2>2 DEF TaskOK
<1>8. FlagsOK'
  BY <1>1, <1>2, <1>3 DEF TypedInv, FlagsOK
<1>9. LogOK' /\ InstallOK' /\ FilesOK'
  BY <1>1 DEF TypedInv, LogOK, InstallOK, FilesOK
<1> QED BY <1>5, <1>7, <1>8, <1>9 DEF TypedInv

\* Steps that change neither the log, the commit index nor the files.
LEMMA TaskTyped ==
    ASSUME TypedInv,
           UNCHANGED <<log, log_start, installing>>,
           UNCHANGED <<last_committed_idx, existing_snapshots>>,
           UNCHANGED <<latest_snapshot_meta, abandoned, crashes>>,
           StorageOK', TaskOK', FlagsOK'
    PROVE  TypedInv'
  BY DEF TypedInv, LogOK, InstallOK, FilesOK

\* The snapshot thread takes the task and fixes what it will write.
LEMMA BeginWritingTyped ==
    ASSUME TypedInv, BeginWriting
    PROVE  TypedInv'
<1>1. /\ UNCHANGED <<log, log_start, installing>>
      /\ UNCHANGED <<last_committed_idx, existing_snapshots>>
      /\ UNCHANGED <<latest_snapshot_meta, abandoned, crashes>>
      /\ UNCHANGED <<container, snapshot_running, spoiled, stray>>
      /\ queued # None /\ stage' = "writing" /\ snapshot' = queued
      /\ queued' = None
      /\ freed' = IF "queued" \in freed THEN {"snapshot"} ELSE {}
  BY SMT DEF BeginWriting, raft, disk, faults
<1>2. "snapshot" \in PendingTasks'
  BY <1>1 DEF PendingTasks
<1>3. StorageOK' /\ FlagsOK' /\ TaskOK'
  BY <1>1, <1>2 DEF TypedInv, StorageOK, FlagsOK, TaskOK
<1> QED BY <1>1, <1>3, TaskTyped

\* A dangling iterator gives a node of any key.
LEMMA DanglingTyped ==
    ASSUME NEW s \in Snapshot(Keys, Value), NEW key \in Key, NEW n,
           n = [s EXCEPT
                    !.nodes = Append(@, [key |-> key, value |-> Stamp(0)]),
                    !.counter = @ + 1,
                    !.writing = s.counter + 1 < s.container_size]
    PROVE  n \in Snapshot(Keys, Value) /\ n.last_log_idx = s.last_log_idx
<1> DEFINE node == [key |-> key, value |-> Stamp(0)]
           nodes == Append(s.nodes, node)
           writing == s.counter + 1 < s.container_size
<1>1. node \in [key : Keys, value : Value]
  <2>1. 0 \in 0 .. MaxLog
    BY ValueAssumption, SMT
  <2>2. Stamp(0) \in Value
    BY <2>1, Values
  <2> QED BY <2>2 DEF Keys
<1>2. nodes \in Seq([key : Keys, value : Value])
  BY <1>1, SnapshotFields, AppendElements
<1>3. writing \in BOOLEAN
  BY SMT
<1>4. n = [s EXCEPT !.nodes = nodes, !.counter = @ + 1, !.writing = writing]
  OBVIOUS
<1> HIDE DEF nodes, writing
<1>5. /\ IsSnapshot(n) /\ n.last_log_idx = s.last_log_idx
      /\ n.container_size = s.container_size /\ n.counter = s.counter + 1
      /\ n.it = s.it /\ n.nodes = nodes /\ n.writing = writing
  BY <1>4 DEF IsSnapshot, Snapshot
<1>6. s.counter + 1 \in Nat /\ s.it \in Nat
  BY SnapshotFields, SMT
<1> QED BY <1>2, <1>3, <1>5, <1>6, SnapshotUpdated

\* The snapshot thread writes the next node of the file.
LEMMA WriteNodeTyped ==
    ASSUME TypedInv, WriteNode
    PROVE  TypedInv'
<1>1. /\ UNCHANGED <<log, log_start, installing>>
      /\ UNCHANGED <<last_committed_idx, existing_snapshots>>
      /\ UNCHANGED <<latest_snapshot_meta, abandoned, crashes>>
      /\ UNCHANGED <<container, snapshot_running, spoiled, stray>>
      /\ UNCHANGED <<queued, stage, freed>> /\ stage = "writing"
  <2>1. /\ UNCHANGED <<raft, queued, stage, freed, container,
                       last_committed_idx, disk, faults>>
        /\ stage = "writing"
    BY DEF WriteNode
  <2> QED BY <2>1, SMT DEF raft, disk, faults
<1>2. StorageOK' /\ FlagsOK'
  BY <1>1 DEF TypedInv, StorageOK, FlagsOK
<1>3. TaskOK /\ snapshot # None /\ IsTask(snapshot, last_committed_idx)
  BY <1>1 DEF TypedInv, TaskOK
<1>4. snapshot \in Snapshot(Keys, Value) /\ Listed(container, Keys, Value)
  BY <1>3 DEF IsTask, TypedInv, StorageOK
<1>5. /\ snapshot' \in Snapshot(Keys, Value)
      /\ snapshot'.last_log_idx = snapshot.last_log_idx
  <2>1. CASE Dangling
    <3>1. PICK key \in Key :
              snapshot' = [snapshot EXCEPT
                              !.nodes = Append(@, [key |-> key, value |-> Stamp(0)]),
                              !.counter = @ + 1,
                              !.writing = snapshot.counter + 1
                                              < snapshot.container_size]
      BY <2>1 DEF WriteNode
    <3> QED BY <1>4, <3>1, DanglingTyped
  <2>2. CASE ~Dangling
    <3>1. snapshot' = SerializeNode(snapshot, container)
      BY <2>2 DEF WriteNode
    <3>2. snapshot.it \in DOMAIN container.list
      BY <2>2 DEF Dangling
    <3> QED BY <1>4, <3>1, <3>2, SerializeTyped
  <2> QED BY <2>1, <2>2
<1>6. IsTask(snapshot', last_committed_idx)
  BY <1>3, <1>5 DEF IsTask
<1>7. snapshot' # None
  BY <1>5, NoneAssumption
<1>8. TaskOK'
  BY <1>1, <1>3, <1>6, <1>7 DEF TaskOK, PendingTasks
<1> QED BY <1>1, <1>2, <1>8, TaskTyped

\* A file with a typed index is added.
LEMMA AddTyped ==
    ASSUME TypedInv, NEW idx \in 1 .. Len(log), NEW file \in File
    PROVE  LET new == AddFile(existing_snapshots, idx, file)
           IN  /\ Added(existing_snapshots, new, idx, file)
               /\ AreFiles(new, Len(log))
<1> DEFINE old == existing_snapshots
           new == AddFile(old, idx, file)
<1>1. AreFiles(old, Len(log)) /\ Len(log) \in Nat
  BY Numbers DEF TypedInv, FilesOK
<1>2. idx \in 0 .. Len(log) /\ \A i \in 1 .. Len(log) : i \in 0 .. Len(log)
  BY <1>1, SMT
<1>3. /\ DOMAIN old \subseteq 0 .. Len(log)
      /\ Cardinality(DOMAIN old) <= snapshots_to_keep
  BY <1>1, <1>2 DEF AreFiles
<1> HIDE DEF old
<1>4. Added(old, new, idx, file)
  BY <1>1, <1>2, <1>3, AddFileOK
<1> HIDE DEF new
<1>5. AreFiles(new, Len(log))
  <2>1. DOMAIN new \subseteq 1 .. Len(log)
    BY <1>1, <1>4 DEF Added, AreFiles
  <2>2. ASSUME NEW i \in DOMAIN new PROVE new[i] \in File
    BY <1>1, <1>4 DEF Added, AreFiles
  <2>3. Cardinality(DOMAIN new) <= snapshots_to_keep
    BY <1>4 DEF Added
  <2> QED BY <2>1, <2>2, <2>3 DEF AreFiles
<1> QED BY <1>4, <1>5 DEF old, new

\* The file of the snapshot is added under an index that is committed.
LEMMA PublishFiles ==
    ASSUME TypedInv, Publish
    PROVE  /\ snapshot.last_log_idx \in 1 .. last_committed_idx
           /\ snapshot.last_log_idx \in 1 .. Len(log)
           /\ FileOf(snapshot) \in File
           /\ existing_snapshots' = AddFile(existing_snapshots,
                                            snapshot.last_log_idx,
                                            FileOf(snapshot))
           /\ Added(existing_snapshots, existing_snapshots',
                    snapshot.last_log_idx, FileOf(snapshot))
           /\ AreFiles(existing_snapshots', Len(log))
<1> DEFINE idx == snapshot.last_log_idx
           file == FileOf(snapshot)
<1>1. /\ existing_snapshots' = AddFile(existing_snapshots, idx, file)
      /\ stage = "writing"
  BY DEF Publish
<1>2. IsTask(snapshot, last_committed_idx)
  BY <1>1 DEF TypedInv, TaskOK
<1>3. idx \in 1 .. last_committed_idx
  BY <1>2 DEF IsTask
<1>4. idx \in 1 .. Len(log)
  BY <1>3, Numbers, SMT
<1>5. file \in File
  BY <1>2, SnapshotFields DEF IsTask, FileOf, File
<1> HIDE DEF idx, file
<1>6. /\ Added(existing_snapshots, existing_snapshots', idx, file)
      /\ AreFiles(existing_snapshots', Len(log))
  BY <1>1, <1>4, <1>5, AddTyped
<1> QED BY <1>1, <1>3, <1>4, <1>5, <1>6 DEF idx, file

\* The finished file joins the others and old files are removed.
LEMMA PublishTyped ==
    ASSUME TypedInv, Publish
    PROVE  TypedInv'
<1>1. /\ UNCHANGED <<log, log_start, snapshot_running, installing>>
      /\ UNCHANGED <<queued, snapshot, freed, container, last_committed_idx>>
      /\ UNCHANGED <<spoiled, stray, abandoned, crashes>>
      /\ stage = "writing" /\ stage' = "written"
      /\ latest_snapshot_meta' = snapshot.last_log_idx
  BY SMT DEF Publish, raft, faults
<1>2. /\ snapshot.last_log_idx \in 1 .. last_committed_idx
      /\ snapshot.last_log_idx \in 1 .. Len(log)
      /\ Added(existing_snapshots, existing_snapshots',
               snapshot.last_log_idx, FileOf(snapshot))
      /\ AreFiles(existing_snapshots', Len(log))
  BY PublishFiles
<1>3. LogOK'
  <2>1. snapshot.last_log_idx \in 0 .. Len(log)
    BY <1>2, Numbers, SMT
  <2> QED BY <1>1, <2>1 DEF TypedInv, LogOK
<1>4. StorageOK' /\ TaskOK' /\ InstallOK' /\ FlagsOK'
  BY <1>1 DEF TypedInv, StorageOK, TaskOK, InstallOK, FlagsOK, PendingTasks
<1>5. FilesOK'
  <2>1. ASSUME installing # None, installing.saved = 2,
               installing.last_log_idx \in DOMAIN existing_snapshots'
        PROVE  existing_snapshots'[installing.last_log_idx]
                   = MapFile(StateOf(log, installing.last_log_idx))
    <3> DEFINE idx == installing.last_log_idx
    <3>1. idx \in last_committed_idx + 1 .. Len(log)
      BY <2>1 DEF TypedInv, InstallOK
    <3>2. idx # snapshot.last_log_idx
      BY <1>2, <3>1, Numbers, SMT
    <3>3. idx \in DOMAIN existing_snapshots /\ existing_snapshots'[idx] = existing_snapshots[idx]
      BY <1>2, <2>1, <3>2 DEF Added
    <3> QED BY <2>1, <3>3 DEF TypedInv, FilesOK
  <2> QED BY <1>1, <1>2, <2>1 DEF FilesOK
<1> QED BY <1>3, <1>4, <1>5 DEF TypedInv

\* Clearing the garbage of the storage that is there now keeps its nodes.
LEMMA ClearedStorage ==
    ASSUME TypedInv
    PROVE  LET t == clearOutdatedNodes(container)
           IN  /\ Listed(t, Keys, Value) /\ Root \in DOMAIN t.map
               /\ Reads(t, Contents(container))
<1> DEFINE t == clearOutdatedNodes(container)
<1>1. Listed(container, Keys, Value) /\ Root \in DOMAIN container.map
  BY DEF TypedInv, StorageOK
<1>2. Listed(t, Keys, Value) /\ Reads(t, Contents(container))
  BY <1>1, ClearOK
<1> HIDE DEF t
<1>3. DOMAIN t.map = DOMAIN container.map
  BY <1>2, SameKeys
<1> QED BY <1>1, <1>2, <1>3 DEF t

\* A write to freed memory leaves a storage, though not of the same nodes.
LEMMA StrayTyped ==
    ASSUME NEW t, Listed(t, Keys, Value), Root \in DOMAIN t.map,
           stray \in BOOLEAN, StrayWrite(t)
    PROVE  /\ StorageOK' /\ stray' \in BOOLEAN
           /\ stray' \/ (container' = t /\ stray' = stray)
<1>1. CASE container' = t /\ UNCHANGED stray
  BY <1>1 DEF StorageOK
<1>2. ASSUME NEW key \in DOMAIN t.map,
             container' = [t EXCEPT !.list[t.map[key]].value = Stamp(0)],
             stray' = TRUE
      PROVE  StorageOK' /\ stray' \in BOOLEAN /\ stray'
  <2> DEFINE itr == t.map[key]
             u == [t EXCEPT !.list[itr].value = Stamp(0)]
  <2>1. itr \in DOMAIN t.list
    BY DEF Listed, ListConsistent
  <2>2. Stamp(0) \in Value
    <3>1. 0 \in 0 .. MaxLog
      BY ValueAssumption, SMT
    <3> QED BY <3>1, Values
  <2>3. container' = u
    BY <1>2
  <2>4. u = [t EXCEPT !.list[itr].value = Stamp(0)]
    OBVIOUS
  <2> HIDE DEF itr, u
  <2>5. Listed(u, Keys, Value) /\ u.map = t.map
    <3>1. Listed(t, Keys, Value)
      OBVIOUS
    <3> QED BY <2>1, <2>2, <2>4, <3>1, OverwrittenOK, SMT
  <2> QED BY <1>2, <2>3, <2>5 DEF StorageOK
<1> QED BY <1>1, <1>2 DEF StrayWrite

\* The storage after the snapshot thread is done with a snapshot.
LEMMA ClearGarbageStorage ==
    ASSUME TypedInv, ClearGarbage
    PROVE  /\ StorageOK' /\ stray' \in BOOLEAN
           /\ \/ stray' /\ "snapshot" \in freed
              \/ stray' = stray /\ Reads(container', Contents(container))
<1>1. stray \in BOOLEAN
  BY DEF TypedInv, FlagsOK
<1>2. CASE "snapshot" \in freed
  <2> DEFINE t == clearOutdatedNodes(container)
  <2>1. /\ Listed(t, Keys, Value) /\ Root \in DOMAIN t.map
        /\ Reads(t, Contents(container))
    BY ClearedStorage
  <2>2. StrayWrite(t)
    BY <1>2 DEF ClearGarbage
  <2> HIDE DEF t
  <2>3. /\ StorageOK' /\ stray' \in BOOLEAN
        /\ stray' \/ (container' = t /\ stray' = stray)
    BY <1>1, <2>1, <2>2, StrayTyped
  <2> QED BY <1>2, <2>1, <2>3
<1>3. CASE "snapshot" \notin freed
  <2> DEFINE u == DestroySnapshot(container)
  <2>1. container' = u /\ stray' = stray
    BY <1>3 DEF ClearGarbage
  <2>2. Listed(container, Keys, Value) /\ Root \in DOMAIN container.map
    BY DEF TypedInv, StorageOK
  <2>3. Listed(u, Keys, Value) /\ Reads(u, Contents(container))
    BY <2>2, DestroyOK
  <2> HIDE DEF u
  <2>4. DOMAIN u.map = DOMAIN container.map
    BY <2>3, SameKeys
  <2> QED BY <1>1, <2>1, <2>2, <2>3, <2>4 DEF StorageOK
<1> QED BY <1>2, <1>3

\* The snapshot is destroyed under the lock and NuRaft drops the old entries.
LEMMA ClearGarbageTyped ==
    ASSUME TypedInv, ClearGarbage
    PROVE  TypedInv'
<1>1. /\ UNCHANGED <<log, installing, queued, last_committed_idx>>
      /\ UNCHANGED <<existing_snapshots, latest_snapshot_meta>>
      /\ UNCHANGED <<spoiled, abandoned, crashes>>
      /\ stage = "written" /\ stage' = "idle" /\ snapshot' = None
      /\ freed' = freed \ {"snapshot"}
      /\ snapshot_running' = FALSE
      /\ log_start' = Max({log_start, snapshot.last_log_idx + 1})
  <2>1. /\ UNCHANGED <<log, installing, queued, last_committed_idx, disk,
                       spoiled, abandoned, crashes>>
        /\ stage = "written" /\ stage' = "idle" /\ snapshot' = None
        /\ freed' = freed \ {"snapshot"}
        /\ snapshot_running' = FALSE
        /\ log_start' = Max({log_start, snapshot.last_log_idx + 1})
    BY DEF ClearGarbage
  <2> QED BY <2>1, SMT DEF disk
<1>2. snapshot.last_log_idx \in 1 .. last_committed_idx
  BY <1>1 DEF TypedInv, TaskOK, IsTask
<1>3. log_start' \in 1 .. Len(log) + 1
  <2> DEFINE S == {log_start, snapshot.last_log_idx + 1}
  <2>1. log_start \in 1 .. Len(log) + 1
    BY DEF TypedInv, LogOK
  <2>2. snapshot.last_log_idx + 1 \in 1 .. Len(log) + 1
    BY <1>2, Numbers, SMT
  <2>3. Len(log) + 1 \in Nat /\ 1 .. Len(log) + 1 \subseteq 0 .. Len(log) + 1
    BY Numbers, SMT
  <2>4. S \subseteq 1 .. Len(log) + 1 /\ S # {}
    BY <2>1, <2>2
  <2> HIDE DEF S
  <2>5. Max(S) \in S
    BY <2>3, <2>4, MaxUpTo
  <2> QED BY <1>1, <2>4, <2>5 DEF S
<1>4. LogOK'
  BY <1>1, <1>3 DEF TypedInv, LogOK
<1>5. StorageOK' /\ stray' \in BOOLEAN
  BY ClearGarbageStorage
<1>6. TaskOK'
  <2>1. \A t \in PendingTasks : t # "snapshot" => t \in PendingTasks'
    BY <1>1 DEF PendingTasks
  <2> QED BY <1>1, <2>1 DEF TypedInv, TaskOK
<1>7. InstallOK' /\ FilesOK' /\ FlagsOK'
  BY <1>1, <1>5 DEF TypedInv, InstallOK, FilesOK, FlagsOK
<1> QED BY <1>4, <1>5, <1>6, <1>7 DEF TypedInv

\* The file cannot be written: the files there are stay as they were.
LEMMA FailWritingTyped ==
    ASSUME TypedInv, FailWriting
    PROVE  TypedInv'
<1>1. /\ UNCHANGED <<log, log_start, installing>>
      /\ UNCHANGED <<last_committed_idx, existing_snapshots>>
      /\ UNCHANGED <<latest_snapshot_meta, abandoned, crashes>>
      /\ UNCHANGED <<queued, snapshot, freed, container, stray>>
      /\ stage = "writing" /\ stage' = "failed"
      /\ snapshot_running' = FALSE /\ spoiled' = TRUE
  BY SMT DEF FailWriting, disk
<1>2. StorageOK' /\ TaskOK' /\ FlagsOK'
  BY <1>1 DEF TypedInv, StorageOK, TaskOK, FlagsOK, PendingTasks
<1> QED BY <1>1, <1>2, TaskTyped

\* The storage after a failed snapshot was destroyed.
LEMMA DestroyFailedStorage ==
    ASSUME TypedInv, DestroyFailed
    PROVE  /\ StorageOK' /\ stray' \in BOOLEAN
           /\ \/ stray' /\ "snapshot" \in freed
              \/ stray' = stray /\ Reads(container', Contents(container))
<1>1. /\ stray \in BOOLEAN /\ Listed(container, Keys, Value)
      /\ Root \in DOMAIN container.map
  BY DEF TypedInv, FlagsOK, StorageOK
<1>2. CASE "snapshot" \in freed
  <2>1. StrayWrite(container)
    BY <1>2 DEF DestroyFailed
  <2>2. /\ StorageOK' /\ stray' \in BOOLEAN
        /\ stray' \/ (container' = container /\ stray' = stray)
    BY <1>1, <2>1, StrayTyped
  <2> QED BY <1>2, <2>2 DEF Reads
<1>3. CASE "snapshot" \notin freed
  <2> DEFINE u == disableSnapshotMode(container)
  <2>1. container' = u /\ stray' = stray
    BY <1>3 DEF DestroyFailed
  <2>2. Listed(u, Keys, Value) /\ Reads(u, Contents(container))
        /\ u.map = container.map
    BY <1>1, DisableOK
  <2> HIDE DEF u
  <2> QED BY <1>1, <2>1, <2>2 DEF StorageOK
<1> QED BY <1>2, <1>3

\* The task of a failed snapshot is destroyed.
LEMMA DestroyFailedTyped ==
    ASSUME TypedInv, DestroyFailed
    PROVE  TypedInv'
<1>1. /\ UNCHANGED <<log, log_start, installing>>
      /\ UNCHANGED <<last_committed_idx, existing_snapshots>>
      /\ UNCHANGED <<latest_snapshot_meta, abandoned, crashes>>
      /\ UNCHANGED <<queued, snapshot_running, spoiled>>
      /\ stage' = "idle" /\ snapshot' = None
      /\ freed' = freed \ {"snapshot"}
  <2>1. /\ UNCHANGED <<raft, queued, last_committed_idx, disk, spoiled,
                       abandoned, crashes>>
        /\ stage' = "idle" /\ snapshot' = None
        /\ freed' = freed \ {"snapshot"}
    BY DEF DestroyFailed
  <2> QED BY <2>1, SMT DEF raft, disk
<1>2. StorageOK' /\ stray' \in BOOLEAN
  BY DestroyFailedStorage
<1>3. TaskOK'
  <2>1. \A t \in PendingTasks : t # "snapshot" => t \in PendingTasks'
    BY <1>1 DEF PendingTasks
  <2> QED BY <1>1, <2>1 DEF TypedInv, TaskOK
<1>4. FlagsOK'
  BY <1>1, <1>2 DEF TypedInv, FlagsOK
<1> QED BY <1>1, <1>2, <1>3, <1>4, TaskTyped

\* A snapshot of the storage is taken and destroyed at once: the storage keeps
\* its nodes.
LEMMA RetakenStorage ==
    ASSUME TypedInv, container' = disableSnapshotMode(TurnOn(container))
    PROVE  StorageOK' /\ Reads(container', Contents(container))
<1> DEFINE t == TurnOn(container)
           u == disableSnapshotMode(t)
<1>1. Listed(container, Keys, Value) /\ Root \in DOMAIN container.map
  BY DEF TypedInv, StorageOK
<1>2. Listed(t, Keys, Value) /\ t.map = container.map
      /\ Reads(t, Contents(container))
  BY <1>1, TurnOnOK
<1> HIDE DEF t
<1>3. Listed(u, Keys, Value) /\ u.map = t.map /\ Reads(u, Contents(t))
  <2>1. Listed(t, Keys, Value)
    BY <1>2
  <2> QED BY <2>1, DisableOK, SMT
<1> HIDE DEF u
<1> QED BY <1>1, <1>2, <1>3 DEF t, u, StorageOK, Reads

\* A follower begins to receive a snapshot of the leader.
LEMMA ReceiveFirstTyped ==
    ASSUME TypedInv, ReceiveFirst
    PROVE  TypedInv'
<1>1. /\ UNCHANGED <<log, log_start, snapshot_running, last_committed_idx>>
      /\ UNCHANGED <<queued, snapshot, stage, freed>>
      /\ UNCHANGED <<existing_snapshots, latest_snapshot_meta>>
      /\ UNCHANGED <<stray, abandoned, crashes>>
      /\ container' = disableSnapshotMode(TurnOn(container))
      /\ spoiled' = (spoiled \/ snapshot_running)
  BY SMT DEF ReceiveFirst, task, disk
<1>2. PICK idx \in last_committed_idx + 1 .. Len(log) :
          installing' = [last_log_idx |-> idx, saved |-> 0]
  BY DEF ReceiveFirst
<1>3. StorageOK'
  BY <1>1, RetakenStorage
<1>4. LogOK' /\ TaskOK' /\ FlagsOK'
  BY <1>1 DEF TypedInv, LogOK, TaskOK, FlagsOK, PendingTasks
<1>5. idx \in Nat /\ 0 \in 0 .. 2 /\ 0 # 2
  BY Numbers, SMT
<1>6. InstallOK' /\ FilesOK'
  BY <1>1, <1>2, <1>5 DEF TypedInv, InstallOK, FilesOK
<1> QED BY <1>3, <1>4, <1>6 DEF TypedInv

\* The first object cannot be saved: nothing but a snapshot of the storage has
\* come and gone.
LEMMA FailSavingTyped ==
    ASSUME TypedInv, FailSaving
    PROVE  TypedInv'
<1>1. /\ UNCHANGED <<log, log_start, snapshot_running, installing>>
      /\ UNCHANGED <<last_committed_idx, queued, snapshot, stage, freed>>
      /\ UNCHANGED <<existing_snapshots, latest_snapshot_meta>>
      /\ UNCHANGED <<spoiled, stray, abandoned, crashes>>
      /\ container' = disableSnapshotMode(TurnOn(container))
  BY SMT DEF FailSaving, raft, task, disk, faults
<1>2. StorageOK'
  BY <1>1, RetakenStorage
<1>3. TaskOK' /\ FlagsOK'
  BY <1>1 DEF TypedInv, TaskOK, FlagsOK, PendingTasks
<1> QED BY <1>1, <1>2, <1>3, TaskTyped

\* The transfer is given up: its index is remembered.
LEMMA AbandonTyped ==
    ASSUME TypedInv, AbandonTransfer
    PROVE  TypedInv'
<1>1. /\ UNCHANGED <<log, log_start, snapshot_running, container>>
      /\ UNCHANGED <<last_committed_idx, queued, snapshot, stage, freed>>
      /\ UNCHANGED <<existing_snapshots, latest_snapshot_meta>>
      /\ UNCHANGED <<spoiled, stray, crashes>>
      /\ installing # None /\ installing' = None
      /\ abandoned' = abandoned \cup {installing.last_log_idx}
  BY SMT DEF AbandonTransfer, task, disk
<1>2. installing.last_log_idx \in 1 .. Len(log)
  <2>1. installing.last_log_idx \in last_committed_idx + 1 .. Len(log)
    BY <1>1 DEF TypedInv, InstallOK
  <2> QED BY <2>1, Numbers, SMT
<1>3. LogOK'
  BY <1>1, <1>2 DEF TypedInv, LogOK
<1>4. StorageOK' /\ TaskOK' /\ FlagsOK'
  BY <1>1 DEF TypedInv, StorageOK, TaskOK, FlagsOK, PendingTasks
<1>5. InstallOK' /\ FilesOK'
  BY <1>1 DEF TypedInv, InstallOK, FilesOK
<1> QED BY <1>3, <1>4, <1>5 DEF TypedInv

\* The object that is saved.
Object(saved, m) == IF saved = 0 THEN FakeFile ELSE MapFile(m)

\* It is added under an index that is not committed.
LEMMA SaveFiles ==
    ASSUME TypedInv, save_logical_snp_obj
    PROVE  LET idx == installing.last_log_idx
               file == Object(installing.saved, StateOf(log, idx))
           IN  /\ installing # None
               /\ idx \in last_committed_idx + 1 .. Len(log)
               /\ idx \in 1 .. Len(log)
               /\ installing.saved \in 0 .. 1
               /\ installing' = [last_log_idx |-> idx, saved |-> installing.saved + 1]
               /\ existing_snapshots' = AddFile(existing_snapshots, idx, file)
               /\ Added(existing_snapshots, existing_snapshots', idx, file)
               /\ AreFiles(existing_snapshots', Len(log))
<1> DEFINE idx == installing.last_log_idx
           m == StateOf(log, idx)
           file == Object(installing.saved, m)
<1>1. /\ installing # None /\ installing.saved < 2
      /\ existing_snapshots' = AddFile(existing_snapshots, idx, file)
      /\ installing' = [installing EXCEPT !.saved = @ + 1]
  <2>1. SentObjects = {file}
    BY DEF SentObjects, Object, StateAt
  <2> QED BY <2>1 DEF save_logical_snp_obj
<1>2. /\ idx \in last_committed_idx + 1 .. Len(log)
      /\ installing \in [last_log_idx : Nat, saved : 0 .. 2]
      /\ installing.saved \in 0 .. 2
  BY <1>1 DEF TypedInv, InstallOK
<1>3. idx \in 1 .. Len(log) /\ idx \in 0 .. Len(log)
  BY <1>2, Numbers, SMT
<1>4. installing.saved \in 0 .. 1
  BY <1>1, <1>2, SMT
<1>5. installing' = [last_log_idx |-> idx, saved |-> installing.saved + 1]
  BY <1>1, <1>2
<1>6. file \in File
  <2>1. StateOK(m, idx)
    BY <1>3, PrefixOK
  <2> HIDE DEF m, idx
  <2>2. MapFile(m) \in File
    BY <2>1, MapFileOK
  <2>3. FakeFile \in File
    <3>1. << >> \in Seq([key : Keys, value : Value]) /\ 1 \in Nat
      BY SMT
    <3> QED BY <3>1 DEF FakeFile, File
  <2> QED BY <2>2, <2>3 DEF Object
<1> HIDE DEF idx, file
<1>7. /\ Added(existing_snapshots, existing_snapshots', idx, file)
      /\ AreFiles(existing_snapshots', Len(log))
  BY <1>1, <1>3, <1>6, AddTyped
<1> QED BY <1>1, <1>2, <1>3, <1>4, <1>5, <1>7 DEF idx, file, m

\* save_logical_snp_obj() stores an object of an arriving snapshot.
LEMMA SaveTyped ==
    ASSUME TypedInv, save_logical_snp_obj
    PROVE  TypedInv'
<1> DEFINE idx == installing.last_log_idx
           file == Object(installing.saved, StateOf(log, idx))
<1>1. /\ UNCHANGED <<log, log_start, snapshot_running, container>>
      /\ UNCHANGED <<last_committed_idx, queued, snapshot, stage, freed>>
      /\ UNCHANGED <<spoiled, stray, abandoned, crashes>>
      /\ latest_snapshot_meta' = idx
  BY SMT DEF save_logical_snp_obj, task, faults
<1>2. /\ installing # None
      /\ idx \in last_committed_idx + 1 .. Len(log)
      /\ idx \in 1 .. Len(log)
      /\ installing.saved \in 0 .. 1
      /\ installing' = [last_log_idx |-> idx, saved |-> installing.saved + 1]
      /\ Added(existing_snapshots, existing_snapshots', idx, file)
      /\ AreFiles(existing_snapshots', Len(log))
  BY SaveFiles
<1>3. idx \in 0 .. Len(log) /\ idx \in Nat /\ installing.saved + 1 \in 0 .. 2
  BY <1>2, Numbers, SMT
<1>4. LogOK'
  BY <1>1, <1>3 DEF TypedInv, LogOK
<1>5. StorageOK' /\ TaskOK' /\ FlagsOK'
  BY <1>1 DEF TypedInv, StorageOK, TaskOK, FlagsOK, PendingTasks
<1>6. /\ installing'.last_log_idx = idx
      /\ installing'.saved = installing.saved + 1
      /\ installing' \in [last_log_idx : Nat, saved : 0 .. 2]
  BY <1>2, <1>3
<1>7. InstallOK'
  BY <1>1, <1>2, <1>6 DEF InstallOK
<1>8. FilesOK'
  <2>1. ASSUME installing.saved + 1 = 2, idx \in DOMAIN existing_snapshots'
        PROVE  existing_snapshots'[idx] = MapFile(StateOf(log, idx))
    <3>1. installing.saved # 0
      BY <2>1, SMT
    <3> QED BY <1>2, <2>1, <3>1 DEF Added, Object
  <2> HIDE DEF idx, file
  <2> QED BY <1>1, <1>2, <1>6, <2>1 DEF FilesOK
<1> QED BY <1>4, <1>5, <1>7, <1>8 DEF TypedInv

\* The storage is replaced, or the call throws.
LEMMA ApplyTyped ==
    ASSUME TypedInv, apply_snapshot
    PROVE  TypedInv'
<1> DEFINE idx == installing.last_log_idx
<1>1. /\ UNCHANGED <<log, snapshot_running, queued, snapshot, stage>>
      /\ UNCHANGED <<existing_snapshots, latest_snapshot_meta>>
      /\ UNCHANGED <<spoiled, abandoned, crashes>>
      /\ installing # None /\ installing' = None
  <2>1. /\ UNCHANGED <<log, snapshot_running, queued, snapshot, stage, disk,
                       spoiled, abandoned, crashes>>
        /\ installing # None /\ installing' = None
    BY DEF apply_snapshot
  <2> QED BY <2>1, SMT DEF disk
<1>2. idx \in last_committed_idx + 1 .. Len(log)
  BY <1>1 DEF TypedInv, InstallOK
<1>3. InstallOK' /\ FilesOK'
  BY <1>1 DEF TypedInv, InstallOK, FilesOK
<1>4. CASE idx = latest_snapshot_meta /\ idx \in DOMAIN existing_snapshots
  <2>1. /\ container' = deserialize(NewStorage, existing_snapshots[idx])
        /\ last_committed_idx' = idx /\ log_start' = idx + 1
        /\ freed' = PendingTasks /\ stray' = FALSE
    BY <1>4 DEF apply_snapshot
  <2>2. idx \in 0 .. Len(log) /\ idx + 1 \in 1 .. Len(log) + 1
        /\ idx \in Nat /\ last_committed_idx <= idx
    BY <1>2, Numbers, SMT
  <2>3. LogOK'
    BY <1>1, <2>1, <2>2 DEF TypedInv, LogOK
  <2>4. existing_snapshots[idx] \in File
    BY <1>4 DEF TypedInv, FilesOK, AreFiles
  <2>5. StorageOK'
    BY <2>1, <2>4, DeserializeLoaded DEF StorageOK, Loaded
  <2>6. TaskOK'
    <3>1. ASSUME NEW s, IsTask(s, last_committed_idx)
          PROVE  IsTask(s, last_committed_idx')
      BY <2>1, <2>2, <3>1, Numbers, IsTaskMonotone
    <3> QED BY <1>1, <2>1, <3>1 DEF TypedInv, TaskOK, PendingTasks
  <2>7. FlagsOK'
    BY <1>1, <2>1 DEF TypedInv, FlagsOK
  <2> QED BY <1>3, <2>3, <2>5, <2>6, <2>7 DEF TypedInv
<1>5. CASE ~(idx = latest_snapshot_meta /\ idx \in DOMAIN existing_snapshots)
  <2>1. UNCHANGED <<container, last_committed_idx, log_start, freed, stray>>
    BY <1>5 DEF apply_snapshot
  <2>2. LogOK' /\ StorageOK' /\ TaskOK' /\ FlagsOK'
    BY <1>1, <2>1 DEF TypedInv, LogOK, StorageOK, TaskOK, FlagsOK, PendingTasks
  <2> QED BY <1>3, <2>2 DEF TypedInv
<1> QED BY <1>4, <1>5

\* The files that init() leaves.
LEMMA RestartFiles ==
    ASSUME TypedInv, Restart
    PROVE  /\ DOMAIN existing_snapshots' =
                  {i \in DOMAIN existing_snapshots : i <= LatestReadable}
           /\ \A i \in DOMAIN existing_snapshots' :
                  existing_snapshots'[i] = existing_snapshots[i]
           /\ AreFiles(existing_snapshots', Len(log))
<1> DEFINE D == DOMAIN existing_snapshots
           new == {i \in D : i <= LatestReadable}
<1>1. existing_snapshots' = [i \in new |-> existing_snapshots[i]]
  BY DEF Restart
<1>2. AreFiles(existing_snapshots, Len(log))
  BY DEF TypedInv, FilesOK
<1>3. Cardinality(new) <= snapshots_to_keep
  <2>1. IsFiniteSet(D)
    <3>1. IsFiniteSet(1 .. Len(log))
      BY Numbers, FS_Interval, SMT
    <3> QED BY <1>2, <3>1, FS_Subset DEF AreFiles
  <2>2. new \subseteq D
    OBVIOUS
  <2>3. /\ Cardinality(new) \in Nat /\ Cardinality(D) \in Nat
        /\ Cardinality(new) <= Cardinality(D)
    BY <2>1, <2>2, FS_Subset, FS_CardinalityType
  <2>4. Cardinality(D) <= snapshots_to_keep
    BY <1>2 DEF AreFiles
  <2> HIDE DEF new, D
  <2> QED BY <2>3, <2>4, SnapshotsToKeepAssumption, SMT
<1>4. AreFiles(existing_snapshots', Len(log))
  BY <1>1, <1>2, <1>3 DEF AreFiles
<1> QED BY <1>1, <1>4

\* init() starts a process from the files: whatever was in memory is gone.
LEMMA RestartTyped ==
    ASSUME TypedInv, Restart
    PROVE  TypedInv' /\ Loaded(container')
<1>1. /\ UNCHANGED <<log, log_start, spoiled, abandoned>>
      /\ crashes' = crashes + 1 /\ stray' = FALSE
      /\ latest_snapshot_meta' = LatestReadable
      /\ last_committed_idx' = LatestReadable
      /\ container' =
             IF LatestReadable = 0
             THEN NewStorage
             ELSE deserialize(NewStorage, existing_snapshots[LatestReadable])
      /\ queued' = None /\ snapshot' = None /\ stage' = "idle"
      /\ freed' = {} /\ snapshot_running' = FALSE /\ installing' = None
  BY DEF Restart
<1>2. LogOK'
  BY <1>1, LatestReadableOK DEF TypedInv, LogOK
<1>3. Loaded(container')
  <2>1. CASE LatestReadable = 0
    BY <1>1, <2>1, NewStorageOK DEF Loaded
  <2>2. CASE LatestReadable # 0
    <3>1. existing_snapshots[LatestReadable] \in File
      BY <2>2, LatestReadableOK DEF TypedInv, FilesOK, AreFiles
    <3> QED BY <1>1, <2>2, <3>1, DeserializeLoaded
  <2> QED BY <2>1, <2>2
<1>4. StorageOK'
  BY <1>3 DEF StorageOK, Loaded
<1>5. TaskOK' /\ InstallOK'
  BY <1>1 DEF TaskOK, InstallOK
<1>6. FilesOK'
  BY <1>1, RestartFiles DEF FilesOK
<1>7. FlagsOK'
  <2>1. crashes + 1 \in Nat
    BY SMT DEF TypedInv, FlagsOK
  <2> QED BY <1>1, <2>1 DEF TypedInv, FlagsOK
<1> QED BY <1>2, <1>3, <1>4, <1>5, <1>6, <1>7 DEF TypedInv

\* Nothing happens.
LEMMA StutterTyped ==
    ASSUME TypedInv, UNCHANGED vars
    PROVE  TypedInv'
<1>1. /\ UNCHANGED <<log, log_start, snapshot_running, installing>>
      /\ UNCHANGED <<container, last_committed_idx>>
      /\ UNCHANGED <<queued, snapshot, stage, freed>>
      /\ UNCHANGED <<existing_snapshots, latest_snapshot_meta>>
      /\ UNCHANGED <<spoiled, stray, abandoned, crashes>>
  BY SMT DEF vars, raft, task, disk, faults
<1> QED BY <1>1 DEF TypedInv, LogOK, StorageOK, TaskOK, InstallOK, FilesOK,
                    FlagsOK, PendingTasks

\* Every step keeps the types.
LEMMA NextTyped ==
    ASSUME TypedInv, [Next]_vars
    PROVE  TypedInv'
<1>1. ASSUME NEW request \in Request, Propose(request) PROVE TypedInv'
  BY <1>1, ProposeTyped
<1>2. CASE commit
  BY <1>2, CommitTyped
<1>3. CASE create_snapshot
  BY <1>3, CreateTyped
<1>4. CASE SnapshotThread
  BY <1>4, BeginWritingTyped, WriteNodeTyped, PublishTyped, ClearGarbageTyped,
     FailWritingTyped, DestroyFailedTyped DEF SnapshotThread
<1>5. CASE ReceiveFirst
  BY <1>5, ReceiveFirstTyped
<1>6. CASE NetworkThread
  BY <1>6, SaveTyped, ApplyTyped DEF NetworkThread
<1>7. CASE Restart
  BY <1>7, RestartTyped
<1>8. CASE FailSaving
  BY <1>8, FailSavingTyped
<1>9. CASE AbandonTransfer
  BY <1>9, AbandonTyped
<1>10. CASE UNCHANGED vars
  BY <1>10, StutterTyped
<1> QED BY <1>1, <1>2, <1>3, <1>4, <1>5, <1>6, <1>7, <1>8, <1>9, <1>10 DEF Next

\* The types always hold.
LEMMA TypedAlways == Spec => []TypedInv
<1>1. Init => TypedInv
  BY InitTyped
<1>2. TypedInv /\ [Next]_vars => TypedInv'
  BY NextTyped
<1> QED BY <1>1, <1>2, PTL DEF Spec

\* Every variable of KeeperStateMachine has its type in every state: the log
\* and its indices, the fields of the container, the tasks of the snapshot
\* thread, the files and the transfer.  No file and no index is ahead of the
\* log, the snapshot being received is ahead of the commits, and no more files
\* are kept than snapshots_to_keep.
THEOREM TypesCorrect == Spec => []TypeOK
<1>1. ASSUME TypedInv PROVE TypeOK
  <2>1. /\ log \in Seq(Request)
        /\ last_committed_idx \in 0 .. Len(log)
        /\ log_start \in 1 .. Len(log) + 1
        /\ latest_snapshot_meta \in 0 .. Len(log)
        /\ abandoned \subseteq 1 .. Len(log)
    BY <1>1 DEF TypedInv, LogOK
  <2>2. FieldsOK(container, Keys, Value)
    BY <1>1 DEF TypedInv, StorageOK, Listed
  <2>3. /\ \A s \in {queued, snapshot} : s # None => s \in Snapshot(Keys, Value)
        /\ stage \in {"idle", "writing", "written", "failed"}
        /\ (stage = "idle") <=> (snapshot = None)
        /\ freed \subseteq PendingTasks
    BY <1>1 DEF TypedInv, TaskOK, IsTask
  <2>4. /\ DOMAIN existing_snapshots \subseteq 1 .. Len(log)
        /\ \A i \in DOMAIN existing_snapshots : existing_snapshots[i] \in File
        /\ Cardinality(DOMAIN existing_snapshots) <= snapshots_to_keep
    BY <1>1 DEF TypedInv, FilesOK, AreFiles
  <2>5. installing # None =>
            installing \in [last_log_idx : last_committed_idx + 1 .. Len(log),
                            saved : 0 .. 2]
    <3> SUFFICES ASSUME installing # None
                 PROVE  installing \in
                            [last_log_idx : last_committed_idx + 1 .. Len(log),
                             saved : 0 .. 2]
      OBVIOUS
    <3>1. /\ installing \in [last_log_idx : Nat, saved : 0 .. 2]
          /\ installing.last_log_idx \in last_committed_idx + 1 .. Len(log)
      BY <1>1 DEF TypedInv, InstallOK
    <3> QED BY <3>1
  <2>6. /\ snapshot_running \in BOOLEAN /\ spoiled \in BOOLEAN
        /\ stray \in BOOLEAN /\ crashes \in Nat
    BY <1>1 DEF TypedInv, FlagsOK
  <2> QED BY <2>1, <2>2, <2>3, <2>4, <2>5, <2>6 DEF TypeOK
<1>2. TypedInv => TypeOK
  BY <1>1
<1> QED BY <1>2, TypedAlways, PTL

=============================================================================
