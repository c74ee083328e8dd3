-------------------------- MODULE KeeperTreeProofs ---------------------------
(***************************************************************************)
(* Lemmas about the tree of KeeperStorage.tla: Create, Remove, Set and     *)
(* Close take a consistent tree to a consistent tree, the undo closures of *)
(* the first three give back the tree they were made for, the ACL table    *)
(* keeps its type and counts the users of every number, the counters of a  *)
(* node only go up, and a request changes the tree only at the paths whose *)
(* watches it triggers.  Every lemma is about an arbitrary tree t, so that *)
(* KeeperStorageProofs can use it for single requests and for the steps of *)
(* a multi alike.                                                          *)
(***************************************************************************)
EXTENDS KeeperStorage, FiniteSetTheorems, TLAPS

\* Most steps are about sets and functions; those with arithmetic, sequences
\* or records say which other prover they need.
USE Zenon

\* Appending a name to a path and taking it off again (pathUtils.cpp).
LEMMA AppendPath ==
    ASSUME NEW p \in Path, NEW c \in Component
    PROVE  /\ Append(p, c) \in Path
           /\ Append(p, c) # Root
           /\ parentPath(Append(p, c)) = p
           /\ getBaseName(Append(p, c)) = c
<1> DEFINE q == Append(p, c)
<1>1. /\ q \in Seq(Component) /\ q # <<>> /\ Len(q) = Len(p) + 1
      /\ \A i \in 1 .. Len(p) : q[i] = p[i]
      /\ q[Len(p) + 1] = c
  BY SMT DEF Path
<1>2. SubSeq(q, 1, Len(p)) = p
  BY SMT DEF Path
<1>3. Len(q) - 1 = Len(p)
  BY <1>1, SMT DEF Path
<1> QED BY <1>1, <1>2, <1>3 DEF Path, Root, parentPath, getBaseName

\* A path other than "/" is the name at its end below its parent.
LEMMA ParentPath ==
    ASSUME NEW p \in Path, p # Root
    PROVE  /\ parentPath(p) \in Path
           /\ parentPath(p) # p
           /\ getBaseName(p) \in Component
           /\ Append(parentPath(p), getBaseName(p)) = p
BY SMT DEF Path, Root, parentPath, getBaseName

\* A new name makes the set of children one larger.
LEMMA AddName ==
    ASSUME NEW S, IsFiniteSet(S), NEW n, n \notin S
    PROVE  /\ IsFiniteSet(S \cup {n})
           /\ Cardinality(S \cup {n}) = Cardinality(S) + 1
BY FS_AddElement

\* A name taken off makes it one smaller.
LEMMA DropName ==
    ASSUME NEW S, IsFiniteSet(S), NEW n \in S
    PROVE  /\ IsFiniteSet(S \ {n})
           /\ Cardinality(S \ {n}) = Cardinality(S) - 1
BY FS_RemoveElement

\* Several names taken off.
LEMMA DropNames ==
    ASSUME NEW S, IsFiniteSet(S), NEW T \in SUBSET S
    PROVE  /\ IsFiniteSet(S \ T)
           /\ Cardinality(T) \in Nat
           /\ Cardinality(S \ T) = Cardinality(S) - Cardinality(T)
<1>1. IsFiniteSet(T) /\ IsFiniteSet(S \ T)
  BY FS_Subset
<1>2. (S \ T) \cup T = S /\ (S \ T) \cap T = {}
  OBVIOUS
<1>3. Cardinality(S) = Cardinality(S \ T) + Cardinality(T) - Cardinality({})
  BY <1>1, <1>2, FS_Union
<1>4. Cardinality(S \ T) \in Nat /\ Cardinality(T) \in Nat
  BY <1>1, FS_CardinalityType
<1> QED BY <1>1, <1>3, <1>4, FS_EmptySet, SMT

\* Cardinality means something.
FiniteChildren(c) == \A p \in DOMAIN c : IsFiniteSet(c[p].children)

\* The type of a container.
IsContainer(c) ==
    /\ DOMAIN c \subseteq Path
    /\ c \in [DOMAIN c -> Node]

\* A container whose nodes hang together.
ContainerOK(c) == IsContainer(c) /\ WellLinked(c) /\ FiniteChildren(c)

\* A consistent tree: "/" is no ephemeral node.
IsTree(t) ==
    /\ ContainerOK(t.container)
    /\ t.ephemerals \subseteq (Nat \ {0}) \X (Path \ {Root})
    /\ WellIndexed(t)

\* A leaf is added below an existing node.
LEMMA AddLeaf ==
    ASSUME NEW c, ContainerOK(c),
           NEW path \in Path, path \notin DOMAIN c, path # Root,
           parentPath(path) \in DOMAIN c,
           NEW node \in Node, node.children = {}, node.numChildren = 0,
           NEW parent \in Node,
           parent.children = c[parentPath(path)].children \cup {getBaseName(path)},
           parent.numChildren = c[parentPath(path)].numChildren + 1
    PROVE  ContainerOK(Put(Put(c, path, node), parentPath(path), parent))
<1> DEFINE d == Put(Put(c, path, node), parentPath(path), parent)
           pp == parentPath(path)
           bn == getBaseName(path)
<1>1. /\ DOMAIN d = DOMAIN c \cup {path}
      /\ d[path] = node
      /\ d[pp] = parent
      /\ \A p \in DOMAIN c \ {pp} : d[p] = c[p]
      /\ pp # path
  BY DEF Put
<1>2. IsContainer(d)
  BY <1>1 DEF ContainerOK, IsContainer, Put
<1>3. /\ bn \in Component /\ Append(pp, bn) = path
  BY ParentPath
<1>4. bn \notin c[pp].children
  BY <1>3 DEF ContainerOK, WellLinked
<1>5. /\ IsFiniteSet(parent.children)
      /\ parent.numChildren = Cardinality(parent.children)
  BY <1>4, AddName, SMT DEF ContainerOK, WellLinked, FiniteChildren
<1>6. FiniteChildren(d)
  BY <1>1, <1>5, FS_EmptySet DEF ContainerOK, FiniteChildren
<1>7. ASSUME NEW p \in DOMAIN d
      PROVE  /\ p # Root => /\ parentPath(p) \in DOMAIN d
                            /\ getBaseName(p) \in d[parentPath(p)].children
             /\ \A name \in d[p].children : Append(p, name) \in DOMAIN d
             /\ d[p].numChildren = Cardinality(d[p].children)
  <2> HIDE DEF d
  <2>1. CASE p = path
    BY <2>1, <1>1, FS_EmptySet
  <2>2. CASE p = pp
    BY <2>2, <1>1, <1>3, <1>5 DEF ContainerOK, WellLinked
  <2>3. CASE p \notin {path, pp}
    BY <2>3, <1>1 DEF ContainerOK, WellLinked
  <2> QED BY <2>1, <2>2, <2>3
<1> HIDE DEF d
<1>8. WellLinked(d)
  BY <1>7 DEF WellLinked
<1>9. ContainerOK(d)
  BY <1>2, <1>6, <1>8 DEF ContainerOK
<1> QED BY <1>9 DEF d

\* A leaf is taken away.
LEMMA DropLeaf ==
    ASSUME NEW c, ContainerOK(c),
           NEW path \in DOMAIN c, path # Root,
           c[path].children = {},
           NEW parent \in Node,
           parent.children = c[parentPath(path)].children \ {getBaseName(path)},
           parent.numChildren = c[parentPath(path)].numChildren - 1
    PROVE  ContainerOK(Drop(Put(c, parentPath(path), parent), path))
<1> DEFINE d == Drop(Put(c, parentPath(path), parent), path)
           pp == parentPath(path)
           bn == getBaseName(path)
<1>0. path \in Path /\ pp \in Path /\ pp # path /\ pp \in DOMAIN c /\ bn \in c[pp].children
  BY ParentPath DEF ContainerOK, IsContainer, WellLinked
<1>1. /\ DOMAIN d = DOMAIN c \ {path}
      /\ d[pp] = parent
      /\ \A p \in DOMAIN c \ {pp, path} : d[p] = c[p]
  BY <1>0 DEF Put, Drop
<1>2. IsContainer(d)
  BY <1>0, <1>1 DEF ContainerOK, IsContainer, Put, Drop
<1>5. /\ IsFiniteSet(parent.children)
      /\ parent.numChildren = Cardinality(parent.children)
  BY <1>0, DropName, SMT DEF ContainerOK, WellLinked, FiniteChildren
<1>6. FiniteChildren(d)
  BY <1>1, <1>5 DEF ContainerOK, FiniteChildren
<1>7. ASSUME NEW p \in DOMAIN d
      PROVE  /\ p # Root => /\ parentPath(p) \in DOMAIN d
                            /\ getBaseName(p) \in d[parentPath(p)].children
             /\ \A name \in d[p].children : Append(p, name) \in DOMAIN d
             /\ d[p].numChildren = Cardinality(d[p].children)
  <2> HIDE DEF d
  <2>0. p \in DOMAIN c /\ p # path /\ p \in Path
    BY <1>1 DEF ContainerOK, IsContainer
  <2>1. ASSUME p # Root
        PROVE  /\ parentPath(p) \in DOMAIN d
               /\ getBaseName(p) \in d[parentPath(p)].children
    <3>1. /\ parentPath(p) \in DOMAIN c
          /\ getBaseName(p) \in c[parentPath(p)].children
      BY <2>0, <2>1 DEF ContainerOK, WellLinked
    <3>2. parentPath(p) # path
      BY <3>1
    <3>3. CASE parentPath(p) = pp
      <4>1. getBaseName(p) # bn
        BY <2>0, <2>1, <1>0, <3>3, ParentPath
      <4> QED BY <3>1, <3>3, <4>1, <1>1, <1>0
    <3>4. CASE parentPath(p) # pp
      BY <3>1, <3>2, <3>4, <1>1
    <3> QED BY <3>3, <3>4
  <2>2. ASSUME NEW name \in d[p].children
        PROVE  Append(p, name) \in DOMAIN d
    <3>1. name \in c[p].children /\ (p = pp => name # bn)
      BY <1>1, <2>0
    <3>2. Append(p, name) \in DOMAIN c /\ name \in Component
      BY <3>1, <2>0 DEF ContainerOK, WellLinked, IsContainer, Node
    <3>3. Append(p, name) # path
      BY <3>1, <3>2, <2>0, <1>0, AppendPath
    <3> QED BY <3>2, <3>3, <1>1
  <2>3. d[p].numChildren = Cardinality(d[p].children)
    BY <1>1, <1>5, <2>0 DEF ContainerOK, WellLinked
  <2> QED BY <2>1, <2>2, <2>3
<1> HIDE DEF d
<1>8. WellLinked(d)
  BY <1>7 DEF WellLinked
<1>9. ContainerOK(d)
  BY <1>2, <1>6, <1>8 DEF ContainerOK
<1> QED BY <1>9 DEF d

\* Names and counts stay the same.
LEMMA Relabel ==
    ASSUME NEW c, ContainerOK(c), NEW d, IsContainer(d),
           DOMAIN d = DOMAIN c,
           \A p \in DOMAIN c : /\ d[p].children = c[p].children
                               /\ d[p].numChildren = c[p].numChildren
    PROVE  ContainerOK(d)
BY DEF ContainerOK, WellLinked, FiniteChildren, IsContainer

\* The types of the fields of a node.
LEMMA NodeFields ==
    ASSUME NEW node \in Node
    PROVE  /\ node.acl_id \in Nat /\ node.ephemeralOwner \in Nat
           /\ node.czxid \in Nat /\ node.mzxid \in Nat /\ node.pzxid \in Nat
           /\ node.version \in Int /\ node.cversion \in Int
           /\ node.aversion \in Int /\ node.numChildren \in Int
           /\ node.seq_num \in Int /\ node.children \subseteq Component
BY DEF Node

\* A node as Create makes it.
LEMMA NewNodeType ==
    ASSUME NEW acl_id \in Nat, NEW owner \in Nat, NEW z \in Nat
    PROVE  NewNode(acl_id, owner, z) \in Node
BY SMT DEF NewNode, Node

\* addChild with the new count keeps a node a node.
LEMMA WithChild ==
    ASSUME NEW node \in Node, NEW name \in Component
    PROVE  /\ withChild(node, name) \in Node
           /\ withoutChild(node, name) \in Node
<1>1. /\ node.children \cup {name} \in SUBSET Component
      /\ node.children \ {name} \in SUBSET Component
      /\ node.numChildren + 1 \in Int
      /\ node.numChildren - 1 \in Int
  BY SMT DEF Node
<1>2. withChild(node, name) \in Node
  BY <1>1 DEF Node, withChild
<1>3. withoutChild(node, name) \in Node
  BY <1>1 DEF Node, withoutChild
<1> QED BY <1>2, <1>3

\* What Create does to the parent.
LEMMA ParentOfCreated ==
    ASSUME NEW node \in Node, NEW name \in Component, NEW z \in Nat
    PROVE  LET new == gainChild(node, name, z)
           IN  /\ new \in Node
               /\ new.children = node.children \cup {name}
               /\ new.numChildren = node.numChildren + 1
               /\ new.ephemeralOwner = node.ephemeralOwner
               /\ new.seq_num = node.seq_num + 1
<1> DEFINE w == withChild(node, name)
<1>1. /\ w \in Node
      /\ w.children = node.children \cup {name}
      /\ w.numChildren = node.numChildren + 1
      /\ w.ephemeralOwner = node.ephemeralOwner
      /\ w.seq_num = node.seq_num
  <2>1. w \in Node
    BY WithChild
  <2> QED BY <2>1 DEF withChild, Node
<1> HIDE DEF w
<1>2. w.seq_num + 1 \in Int /\ w.cversion + 1 \in Int /\ (IF z > w.pzxid THEN z ELSE w.pzxid) \in Nat
  BY <1>1, SMT DEF Node
<1>3. gainChild(node, name, z) = [w EXCEPT
                           !.seq_num = w.seq_num + 1,
                           !.cversion = w.cversion + 1,
                           !.pzxid = IF z > w.pzxid THEN z ELSE w.pzxid]
  BY DEF gainChild, w
<1> QED BY <1>1, <1>2, <1>3, ZenonT(30) DEF Node

\* What the undo closure of Create does to the parent gives it back.
LEMMA ParentUndone ==
    ASSUME NEW node \in Node, NEW name \in Component, NEW z \in Nat, name \notin node.children
    PROVE  disownChild(gainChild(node, name, z), name,
                       node.cversion, node.pzxid) = node
<1> DEFINE v == gainChild(node, name, z)
   x == withoutChild(v, name)
   y == [x EXCEPT  !.seq_num = @ - 1,
                       !.cversion = node.cversion,
                       !.pzxid = node.pzxid]
<1>1. /\ v \in Node
      /\ v.children = node.children \cup {name}
      /\ v.numChildren = node.numChildren + 1
      /\ v.seq_num = node.seq_num + 1
      /\ v.acl_id = node.acl_id /\ v.ephemeralOwner = node.ephemeralOwner /\ v.czxid = node.czxid /\ v.mzxid = node.mzxid
      /\ v.version = node.version /\ v.aversion = node.aversion
  <2>1. v \in Node /\ v.seq_num = node.seq_num + 1 /\ v.children = node.children \cup {name} /\ v.numChildren = node.numChildren + 1
    BY ParentOfCreated
  <2>2. /\ v.acl_id = node.acl_id /\ v.ephemeralOwner = node.ephemeralOwner /\ v.czxid = node.czxid /\ v.mzxid = node.mzxid
      /\ v.version = node.version /\ v.aversion = node.aversion
    BY DEF gainChild, withChild, Node
  <2> QED BY <2>1, <2>2
<1> HIDE DEF v
<1>2. /\ x.children = node.children
      /\ x.numChildren = node.numChildren
      /\ x.seq_num = node.seq_num + 1
      /\ x.acl_id = node.acl_id /\ x.ephemeralOwner = node.ephemeralOwner /\ x.czxid = node.czxid /\ x.mzxid = node.mzxid
      /\ x.version = node.version /\ x.aversion = node.aversion
  <2>1. (node.children \cup {name}) \ {name} = node.children
     OBVIOUS
  <2>2. (node.numChildren + 1) - 1 = node.numChildren 
     BY SMT DEF Node
  <2>3. x = [v EXCEPT !.children = (node.children \cup {name}) \ {name}, !.numChildren = (node.numChildren + 1) - 1]
     BY <1>1 DEF withoutChild
  <2> QED BY <1>1, <2>1, <2>2, <2>3, SMT DEF Node
<1>3. x \in Node
  BY WithChild, <1>1
<1> HIDE DEF x
<1>4. y \in Node
  <2>1. x.seq_num - 1 \in Int /\ node.cversion \in Int /\ node.pzxid \in Nat
    BY <1>3, SMT DEF Node
  <2> QED BY <2>1, <1>3 DEF Node
<1>5. y.seq_num = node.seq_num
  BY <1>2, <1>3, SMT DEF Node
<1>6. /\ y.children = node.children
      /\ y.numChildren = node.numChildren
      /\ y.cversion = node.cversion /\ y.pzxid = node.pzxid
      /\ y.acl_id = node.acl_id /\ y.ephemeralOwner = node.ephemeralOwner /\ y.czxid = node.czxid /\ y.mzxid = node.mzxid
      /\ y.version = node.version /\ y.aversion = node.aversion
  BY <1>2, <1>3 DEF Node
<1> HIDE DEF y
<1>7. y = node
  BY <1>4, <1>5, <1>6, SMT DEF Node
<1> QED BY <1>7 DEF y, x, v, disownChild

\* A Create that passes its checks leaves a tree.
LEMMA CreatedIsTree ==
    ASSUME NEW t, IsTree(t), NEW s \in Nat \ {0}, NEW r \in CreateRequest,
           NEW path \in Path, path \notin DOMAIN t.container, path # Root,
           parentPath(r.path) = parentPath(path),
           parentPath(path) \in DOMAIN t.container,
           t.container[parentPath(path)].ephemeralOwner = 0,
           NEW acl_id \in Nat, NEW z \in Nat
    PROVE  IsTree(Created(t, s, r, path, acl_id, z))
<1> DEFINE c  == t.container
           pp == parentPath(path)
           node == NewNode(acl_id, IF r.is_ephemeral THEN s ELSE 0, z)
           par == gainChild(c[pp], getBaseName(path), z)
           d  == Put(Put(c, path, node), pp, par)
           e  == IF r.is_ephemeral THEN t.ephemerals \cup {<<s, path>>}
                                   ELSE t.ephemerals
<1>1. Created(t, s, r, path, acl_id, z) = [container |-> d, ephemerals |-> e]
  BY DEF Created
<1>2. c[pp] \in Node /\ getBaseName(path) \in Component /\ r.is_ephemeral \in BOOLEAN
  BY ParentPath DEF IsTree, ContainerOK, IsContainer, CreateRequest
<1>3. /\ par \in Node
      /\ par.children = c[pp].children \cup {getBaseName(path)}
      /\ par.numChildren = c[pp].numChildren + 1
      /\ par.ephemeralOwner = 0
  BY <1>2, ParentOfCreated, SMTT(30)
<1>4. /\ node \in Node /\ node.children = {} /\ node.numChildren = 0
      /\ node.ephemeralOwner = IF r.is_ephemeral THEN s ELSE 0
  <2>1. (IF r.is_ephemeral THEN s ELSE 0) \in Nat
    BY <1>2
  <2> QED BY <2>1, NewNodeType, SMTT(30) DEF NewNode
<1> HIDE DEF par, node
<1>5. ContainerOK(d)
  BY <1>3, <1>4, AddLeaf DEF IsTree
<1>6. /\ DOMAIN d = DOMAIN c \cup {path}
      /\ d[path] = node
      /\ d[pp] = par
      /\ \A p \in DOMAIN c \ {pp} : d[p] = c[p]
  BY DEF Put
<1> HIDE DEF d
<1>7. e \subseteq (Nat \ {0}) \X (Path \ {Root})
  BY SMT DEF IsTree
<1>8. WellIndexed([container |-> d, ephemerals |-> e])
  <2>1. ASSUME NEW x \in e
        PROVE  x[2] \in DOMAIN d /\ d[x[2]].ephemeralOwner = x[1]
    <3>1. CASE x = <<s, path>> /\ r.is_ephemeral
      BY <3>1, <1>4, <1>6
    <3>2. CASE x \in t.ephemerals
      <4>1. x[2] \in DOMAIN c /\ c[x[2]].ephemeralOwner = x[1]
        BY <3>2 DEF IsTree, WellIndexed
      <4> QED BY <4>1, <1>3, <1>6
    <3> QED BY <2>1, <3>1, <3>2, <1>2
  <2>2. ASSUME NEW p \in DOMAIN d, d[p].ephemeralOwner # 0
        PROVE  <<d[p].ephemeralOwner, p>> \in e /\ d[p].children = {}
    <3>1. CASE p = path
      BY <3>1, <2>2, <1>2, <1>4, <1>6
    <3>2. CASE p = pp
      BY <3>2, <2>2, <1>3, <1>6
    <3>3. CASE p \in DOMAIN c \ {pp}
      <4>1. <<c[p].ephemeralOwner, p>> \in t.ephemerals /\ c[p].children = {}
        BY <3>3, <2>2, <1>6 DEF IsTree, WellIndexed
      <4> QED BY <3>3, <4>1, <1>6, <1>2
    <3> QED BY <2>2, <3>1, <3>2, <3>3, <1>6
  <2> QED BY <2>1, <2>2 DEF WellIndexed
<1> QED BY <1>1, <1>5, <1>7, <1>8, SMTT(30) DEF IsTree

\* Undoing the creation gives the tree back.
LEMMA CreatedUndone ==
    ASSUME NEW t, IsTree(t),
           t = [container |-> t.container, ephemerals |-> t.ephemerals],
           NEW s \in Nat \ {0}, NEW r \in CreateRequest,
           NEW path \in Path, path \notin DOMAIN t.container, path # Root,
           parentPath(r.path) = parentPath(path),
           parentPath(path) \in DOMAIN t.container,
           NEW acl_id \in Nat, NEW z \in Nat,
           NEW u,
           u.path_created = path, u.parent_path = parentPath(path),
           u.session = s, u.is_ephemeral = r.is_ephemeral,
           u.prev_parent_cversion = t.container[parentPath(path)].cversion,
           u.prev_parent_zxid = t.container[parentPath(path)].pzxid
    PROVE  UndoCreate(Created(t, s, r, path, acl_id, z), u) = t
<1> DEFINE c  == t.container
           pp == parentPath(path)
           bn == getBaseName(path)
           node == NewNode(acl_id, IF r.is_ephemeral THEN s ELSE 0, z)
           par == gainChild(c[pp], bn, z)
           d  == Put(Put(c, path, node), pp, par)
           e  == IF r.is_ephemeral THEN t.ephemerals \cup {<<s, path>>}
                                   ELSE t.ephemerals
           old == disownChild(d[pp], bn, u.prev_parent_cversion,
                              u.prev_parent_zxid)
           g  == Drop(Put(d, pp, old), path)
           f  == IF u.is_ephemeral THEN e \ {<<s, path>>} ELSE e
<1>1. Created(t, s, r, path, acl_id, z) = [container |-> d, ephemerals |-> e]
  BY DEF Created
<1>2. UndoCreate([container |-> d, ephemerals |-> e], u)
          = [container |-> g, ephemerals |-> f]
  BY SMTT(30) DEF UndoCreate
<1>3. c[pp] \in Node /\ bn \in Component /\ Append(pp, bn) = path
  BY ParentPath DEF IsTree, ContainerOK, IsContainer
<1>4. bn \notin c[pp].children
  BY <1>3 DEF IsTree, ContainerOK, WellLinked
<1>5. d[pp] = par
  BY DEF Put
<1>6. old = c[pp]
  BY <1>3, <1>4, <1>5, ParentUndone, SMTT(30)
<1>7. f = t.ephemerals
  <2>1. <<s, path>> \notin t.ephemerals
    BY DEF IsTree, WellIndexed
  <2> QED BY <2>1
<1>8. g = c
  <2>1. /\ DOMAIN d = DOMAIN c \cup {path}
        /\ \A p \in DOMAIN c \ {pp} : d[p] = c[p]
    BY DEF Put
  <2> HIDE DEF d, old
  <2>2. DOMAIN g = DOMAIN c /\ \A p \in DOMAIN c : g[p] = c[p]
    BY <2>1, <1>6, SMTT(30) DEF Put, Drop
  <2>3. c = [p \in DOMAIN c |-> c[p]]
    BY DEF IsTree, ContainerOK, IsContainer
  <2>4. g = [p \in DOMAIN g |-> g[p]]
    BY DEF Drop
  <2> HIDE DEF g
  <2> QED BY <2>2, <2>3, <2>4
<1> QED BY <1>1, <1>2, <1>7, <1>8

\* What Remove does to the parent, and what its undo closure gives back.
LEMMA ParentOfRemoved ==
    ASSUME NEW node \in Node, NEW name \in Component
    PROVE  LET new == loseChild(node, name)
           IN  /\ new \in Node
               /\ new.children = node.children \ {name}
               /\ new.numChildren = node.numChildren - 1
               /\ new.ephemeralOwner = node.ephemeralOwner
               /\ name \in node.children => regainChild(new, name) = node
<1> DEFINE w == withoutChild(node, name)
           new == loseChild(node, name)
           x == withChild(new, name)
           y == regainChild(new, name)
<1>1. /\ w \in Node
      /\ w.children = node.children \ {name}
      /\ w.numChildren = node.numChildren - 1
      /\ w.cversion = node.cversion
      /\ w.ephemeralOwner = node.ephemeralOwner
      /\ w.acl_id = node.acl_id /\ w.czxid = node.czxid
      /\ w.mzxid = node.mzxid /\ w.pzxid = node.pzxid
      /\ w.version = node.version /\ w.aversion = node.aversion
      /\ w.seq_num = node.seq_num
  <2>1. w \in Node
    BY WithChild
  <2> QED BY <2>1 DEF withoutChild, Node
<1>2. new = [w EXCEPT !.cversion = w.cversion + 1]
  BY DEF loseChild
<1> HIDE DEF w
<1>3. /\ new \in Node
      /\ new.children = node.children \ {name}
      /\ new.numChildren = node.numChildren - 1
      /\ new.cversion = node.cversion + 1
      /\ new.ephemeralOwner = node.ephemeralOwner
      /\ new.acl_id = node.acl_id /\ new.czxid = node.czxid
      /\ new.mzxid = node.mzxid /\ new.pzxid = node.pzxid
      /\ new.version = node.version /\ new.aversion = node.aversion
      /\ new.seq_num = node.seq_num
  <2>1. w.cversion + 1 \in Int
    BY <1>1, SMT DEF Node
  <2> QED BY <1>1, <1>2, <2>1 DEF Node
<1> HIDE DEF new
<1>4. ASSUME name \in node.children
      PROVE  y = node
  <2>1. /\ (node.children \ {name}) \cup {name} = node.children
        /\ (node.numChildren - 1) + 1 = node.numChildren
        /\ (node.cversion + 1) - 1 = node.cversion
        /\ node.numChildren \in Int /\ node.cversion \in Int
    BY <1>4, SMT DEF Node
  <2>2. x = [new EXCEPT !.children = node.children,
                        !.numChildren = node.numChildren]
    BY <1>3, <2>1 DEF withChild
  <2>3. y = [x EXCEPT !.cversion = x.cversion - 1]
    BY DEF regainChild
  <2>4. x \in Node /\ x.cversion = node.cversion + 1
    <3>1. x \in Node
      BY <1>3, WithChild
    <3> QED BY <3>1, <1>3, <2>2 DEF Node
  <2>5. x.children = node.children /\ x.numChildren = node.numChildren
    BY <1>3, <2>2 DEF Node
  <2>6. /\ x.ephemeralOwner = node.ephemeralOwner
        /\ x.acl_id = node.acl_id /\ x.czxid = node.czxid
        /\ x.mzxid = node.mzxid /\ x.pzxid = node.pzxid
        /\ x.version = node.version /\ x.aversion = node.aversion
        /\ x.seq_num = node.seq_num
    BY <1>3, <2>2 DEF Node
  <2> HIDE DEF x
  <2>7. y = [x EXCEPT !.cversion = node.cversion]
    BY <2>1, <2>3, <2>4
  <2> HIDE DEF y
  <2> QED BY <2>1, <2>4, <2>5, <2>6, <2>7 DEF Node
<1> QED BY <1>3, <1>4 DEF new, y

\* A Remove of a node without children leaves a tree.
LEMMA RemovedIsTree ==
    ASSUME NEW t, IsTree(t), NEW r \in VersionedRequest,
           r.path \in DOMAIN t.container, r.path # Root,
           t.container[r.path].numChildren = 0
    PROVE  IsTree(Removed(t, r))
<1> DEFINE c  == t.container
           path == r.path
           pp == parentPath(path)
           par == loseChild(c[pp], getBaseName(path))
           d  == Drop(Put(c, pp, par), path)
           o  == c[path].ephemeralOwner
           e  == IF o # 0 THEN t.ephemerals \ {<<o, path>>} ELSE t.ephemerals
<1>1. Removed(t, r) = [container |-> d, ephemerals |-> e]
  BY DEF Removed
<1>2. /\ path \in Path /\ pp \in DOMAIN c /\ pp # path /\ c[pp] \in Node
      /\ getBaseName(path) \in Component
      /\ getBaseName(path) \in c[pp].children
  BY ParentPath DEF IsTree, ContainerOK, IsContainer, WellLinked
<1>3. /\ par \in Node
      /\ par.children = c[pp].children \ {getBaseName(path)}
      /\ par.numChildren = c[pp].numChildren - 1
      /\ par.ephemeralOwner = c[pp].ephemeralOwner
  BY <1>2, ParentOfRemoved
<1>4. c[path].children = {}
  BY FS_EmptySet DEF IsTree, ContainerOK, WellLinked, FiniteChildren
<1> HIDE DEF par
<1>5. ContainerOK(d)
  BY <1>3, <1>4, DropLeaf DEF IsTree
<1>6. /\ DOMAIN d = DOMAIN c \ {path}
      /\ d[pp] = par
      /\ \A p \in DOMAIN c \ {pp, path} : d[p] = c[p]
  BY <1>2, SMTT(30) DEF Put, Drop
<1> HIDE DEF d
<1>7. e \subseteq (Nat \ {0}) \X (Path \ {Root})
  BY DEF IsTree
<1>8. c[pp].ephemeralOwner = 0
  BY <1>2 DEF IsTree, WellIndexed
<1>9. WellIndexed([container |-> d, ephemerals |-> e])
  <2>1. ASSUME NEW x \in e
        PROVE  x[2] \in DOMAIN d /\ d[x[2]].ephemeralOwner = x[1]
    <3>1. x \in t.ephemerals /\ x[2] \in DOMAIN c /\ c[x[2]].ephemeralOwner = x[1]
      BY DEF IsTree, WellIndexed
    <3>2. x = <<x[1], x[2]>>
      BY <3>1, SMT DEF IsTree
    <3>3. x[2] = path => x = <<o, path>>
      BY <3>1, <3>2
    <3>4. x[2] # path
      <4>1. CASE o # 0
        BY <3>3, <4>1
      <4>2. CASE o = 0
        <5>1. SUFFICES ASSUME x[2] = path PROVE FALSE
          OBVIOUS
        <5>2. x[1] = 0
          BY <3>1, <4>2, <5>1
        <5> QED BY <5>2, <3>1, <3>2 DEF IsTree
      <4> QED BY <4>1, <4>2
    <3> QED BY <3>1, <3>4, <1>3, <1>6
  <2>2. ASSUME NEW p \in DOMAIN d, d[p].ephemeralOwner # 0
        PROVE  <<d[p].ephemeralOwner, p>> \in e /\ d[p].children = {}
    <3>1. p # pp
      BY <2>2, <1>3, <1>6, <1>8
    <3>2. d[p] = c[p] /\ p \in DOMAIN c /\ p # path
      BY <3>1, <1>6
    <3>3. <<c[p].ephemeralOwner, p>> \in t.ephemerals /\ c[p].children = {}
      BY <3>2, <2>2 DEF IsTree, WellIndexed
    <3> QED BY <3>2, <3>3
  <2> QED BY <2>1, <2>2 DEF WellIndexed
<1> QED BY <1>1, <1>5, <1>7, <1>9, SMTT(30) DEF IsTree

\* Remove "/" leaves nothing that hangs below it.
LEMMA RemovedRootIsTree ==
    ASSUME NEW t, IsTree(t), NEW r \in VersionedRequest,
           r.path = Root, Root \in DOMAIN t.container,
           t.container[Root].numChildren = 0
    PROVE  IsTree(Removed(t, r))
<1> DEFINE c == t.container
           d == Drop(c, Root)
           o == c[Root].ephemeralOwner
           e == IF o # 0 THEN t.ephemerals \ {<<o, Root>>} ELSE t.ephemerals
<1>1. Removed(t, r) = [container |-> d, ephemerals |-> e]
  <2>1. parentPath(Root) = Root
    BY DEF parentPath
  <2>2. ASSUME NEW v
        PROVE  Drop(Put(c, Root, v), Root) = d
    BY DEF Put, Drop
  <2> QED BY <2>1, <2>2 DEF Removed
<1>2. c[Root].children = {}
  BY FS_EmptySet DEF IsTree, ContainerOK, WellLinked, FiniteChildren
<1>3. DOMAIN d = DOMAIN c \ {Root} /\ \A p \in DOMAIN d : d[p] = c[p]
  BY DEF Drop
<1>4. IsContainer(d) /\ FiniteChildren(d)
  BY <1>3 DEF Drop, IsTree, ContainerOK, IsContainer, FiniteChildren
<1>5. WellLinked(d)
  <2>1. ASSUME NEW p \in DOMAIN d
        PROVE  /\ parentPath(p) \in DOMAIN d
               /\ getBaseName(p) \in d[parentPath(p)].children
               /\ \A name \in d[p].children : Append(p, name) \in DOMAIN d
               /\ d[p].numChildren = Cardinality(d[p].children)
    <3>1. p \in DOMAIN c /\ p # Root /\ p \in Path
      BY <1>3 DEF IsTree, ContainerOK, IsContainer
    <3>2. /\ parentPath(p) \in DOMAIN c
          /\ getBaseName(p) \in c[parentPath(p)].children
          /\ \A name \in c[p].children : Append(p, name) \in DOMAIN c
          /\ c[p].numChildren = Cardinality(c[p].children)
          /\ c[p].children \subseteq Component
      BY <3>1 DEF IsTree, ContainerOK, WellLinked, IsContainer, Node
    <3>3. parentPath(p) # Root
      BY <1>2, <3>2
    <3>4. \A name \in c[p].children : Append(p, name) # Root
      BY <3>1, <3>2, AppendPath
    <3> QED BY <1>3, <3>1, <3>2, <3>3, <3>4
  <2> HIDE DEF d
  <2> QED BY <2>1 DEF WellLinked
<1>6. e \subseteq (Nat \ {0}) \X (Path \ {Root})
  BY DEF IsTree
<1>7. WellIndexed([container |-> d, ephemerals |-> e])
  <2>1. ASSUME NEW x \in e
        PROVE  x[2] \in DOMAIN d /\ d[x[2]].ephemeralOwner = x[1]
    <3>1. /\ x \in t.ephemerals /\ x[2] \in DOMAIN c
          /\ c[x[2]].ephemeralOwner = x[1]
          /\ x = <<x[1], x[2]>> /\ x[1] # 0
      BY SMT DEF IsTree, WellIndexed
    <3>2. x[2] # Root
      BY <3>1
    <3> QED BY <3>1, <3>2, <1>3
  <2>2. ASSUME NEW p \in DOMAIN d, d[p].ephemeralOwner # 0
        PROVE  <<d[p].ephemeralOwner, p>> \in e /\ d[p].children = {}
    BY <2>2, <1>3 DEF IsTree, WellIndexed
  <2> HIDE DEF d, e
  <2> QED BY <2>1, <2>2 DEF WellIndexed
<1> HIDE DEF d, e
<1> QED BY <1>1, <1>4, <1>5, <1>6, <1>7, SMTT(30) DEF IsTree, ContainerOK

\* Undoing the removal gives the tree back.
LEMMA RemovedUndone ==
    ASSUME NEW t, IsTree(t),
           t = [container |-> t.container, ephemerals |-> t.ephemerals],
           NEW r \in VersionedRequest,
           r.path \in DOMAIN t.container, r.path # Root,
           NEW u, u.path = r.path, u.prev_node = t.container[r.path]
    PROVE  UndoRemove(Removed(t, r), u) = t
<1> DEFINE c  == t.container
           path == r.path
           pp == parentPath(path)
           bn == getBaseName(path)
           par == loseChild(c[pp], bn)
           d  == Drop(Put(c, pp, par), path)
           o  == c[path].ephemeralOwner
           e  == IF o # 0 THEN t.ephemerals \ {<<o, path>>} ELSE t.ephemerals
           i  == Put(d, path, u.prev_node)
           g  == Put(i, pp, regainChild(i[pp], bn))
           f  == IF u.prev_node.ephemeralOwner # 0
                 THEN e \cup {<<u.prev_node.ephemeralOwner, path>>} ELSE e
<1>1. Removed(t, r) = [container |-> d, ephemerals |-> e]
  BY DEF Removed
<1>2. UndoRemove([container |-> d, ephemerals |-> e], u)
          = [container |-> g, ephemerals |-> f]
  BY DEF UndoRemove
<1>3. /\ path \in Path /\ pp \in DOMAIN c /\ pp # path /\ c[pp] \in Node
      /\ bn \in Component /\ bn \in c[pp].children
  BY ParentPath DEF IsTree, ContainerOK, IsContainer, WellLinked
<1>4. regainChild(par, bn) = c[pp]
  BY <1>3, ParentOfRemoved
<1>5. f = t.ephemerals
  BY DEF IsTree, WellIndexed
<1>6. /\ DOMAIN d = DOMAIN c \ {path}
      /\ d[pp] = par
      /\ \A p \in DOMAIN c \ {pp, path} : d[p] = c[p]
  BY <1>3 DEF Put, Drop
<1> HIDE DEF par, d
<1>7. /\ DOMAIN i = DOMAIN c
      /\ i[pp] = par
      /\ i[path] = c[path]
      /\ \A p \in DOMAIN c \ {pp, path} : i[p] = c[p]
  BY <1>3, <1>6 DEF Put
<1> HIDE DEF i
<1>8. DOMAIN g = DOMAIN c /\ \A p \in DOMAIN c : g[p] = c[p]
  BY <1>3, <1>4, <1>7 DEF Put
<1>9. g = c
  <2>1. c = [p \in DOMAIN c |-> c[p]]
    BY DEF IsTree, ContainerOK, IsContainer
  <2>2. g = [p \in DOMAIN g |-> g[p]]
    BY DEF Put
  <2> HIDE DEF g
  <2> QED BY <2>1, <2>2, <1>8
<1> HIDE DEF g, f
<1> QED BY <1>1, <1>2, <1>5, <1>9

\* A Set changes no links.
LEMMA ChangedIsTree ==
    ASSUME NEW t, IsTree(t), NEW r \in VersionedRequest,
           r.path \in DOMAIN t.container, NEW z \in Nat
    PROVE  IsTree(Changed(t, r, z))
<1> DEFINE c  == t.container
           path == r.path
           pp == parentPath(path)
           new == [c[path] EXCEPT !.version = @ + 1, !.mzxid = z]
           m  == Put(c, path, new)
           par == [m[pp] EXCEPT !.cversion = @ + 1]
           d  == Put(m, pp, par)
<1>1. Changed(t, r, z) = [container |-> d, ephemerals |-> t.ephemerals]
  BY DEF Changed
<1>2. pp \in DOMAIN c
  BY DEF IsTree, ContainerOK, WellLinked, parentPath
<1>3. /\ new \in Node /\ new.children = c[path].children
      /\ new.numChildren = c[path].numChildren
      /\ new.ephemeralOwner = c[path].ephemeralOwner
  <2>1. c[path] \in Node /\ c[path].version + 1 \in Int
    BY SMTT(30) DEF IsTree, ContainerOK, IsContainer, Node
  <2> QED BY <2>1 DEF Node
<1> HIDE DEF new
<1>4. /\ DOMAIN m = DOMAIN c
      /\ m \in [DOMAIN c -> Node]
      /\ \A p \in DOMAIN c : /\ m[p].children = c[p].children
                             /\ m[p].numChildren = c[p].numChildren
                             /\ m[p].ephemeralOwner = c[p].ephemeralOwner
  BY <1>3 DEF Put, IsTree, ContainerOK, IsContainer
<1> HIDE DEF m
<1>5. /\ par \in Node /\ par.children = m[pp].children
      /\ par.numChildren = m[pp].numChildren
      /\ par.ephemeralOwner = m[pp].ephemeralOwner
  <2>1. m[pp] \in Node /\ m[pp].cversion + 1 \in Int
    BY <1>2, <1>4, SMTT(30) DEF Node
  <2> QED BY <2>1 DEF Node
<1> HIDE DEF par
<1>6. /\ DOMAIN d = DOMAIN c
      /\ d \in [DOMAIN c -> Node]
      /\ \A p \in DOMAIN c : /\ d[p].children = c[p].children
                             /\ d[p].numChildren = c[p].numChildren
                             /\ d[p].ephemeralOwner = c[p].ephemeralOwner
  BY <1>2, <1>4, <1>5 DEF Put
<1> HIDE DEF d
<1>7. ContainerOK(d)
  <2>1. IsContainer(d)
    BY <1>6 DEF IsTree, ContainerOK, IsContainer
  <2> QED BY <1>6, <2>1, Relabel DEF IsTree
<1>8. WellIndexed([container |-> d, ephemerals |-> t.ephemerals])
  BY <1>6 DEF IsTree, WellIndexed
<1> QED BY <1>1, <1>7, <1>8, SMTT(30) DEF IsTree

\* The undo closure of a Set gives the tree back.
LEMMA ChangedUndone ==
    ASSUME NEW t, IsTree(t),
           t = [container |-> t.container, ephemerals |-> t.ephemerals],
           NEW r \in VersionedRequest,
           r.path \in DOMAIN t.container, r.path # Root, NEW z \in Nat,
           NEW u, u.path = r.path, u.prev_node = t.container[r.path]
    PROVE  UndoSet(Changed(t, r, z), u) = t
<1> DEFINE c  == t.container
           path == r.path
           pp == parentPath(path)
           new == [c[path] EXCEPT !.version = @ + 1, !.mzxid = z]
           m  == Put(c, path, new)
           par == [m[pp] EXCEPT !.cversion = @ + 1]
           d  == Put(m, pp, par)
           i  == Put(d, path, u.prev_node)
           g  == Put(i, pp, [i[pp] EXCEPT !.cversion = @ - 1])
<1>1. Changed(t, r, z) = [container |-> d, ephemerals |-> t.ephemerals]
  BY DEF Changed
<1>2. UndoSet([container |-> d, ephemerals |-> t.ephemerals], u)
          = [container |-> g, ephemerals |-> t.ephemerals]
  BY DEF UndoSet
<1>3. /\ path \in Path /\ pp \in DOMAIN c /\ pp # path /\ c[pp] \in Node
  BY ParentPath DEF IsTree, ContainerOK, IsContainer, WellLinked
<1>4. m[pp] = c[pp]
  BY <1>3 DEF Put
<1>5. [par EXCEPT !.cversion = @ - 1] = c[pp]
  <2>1. c[pp].cversion \in Int
    BY <1>3 DEF Node
  <2>2. par = [c[pp] EXCEPT !.cversion = c[pp].cversion + 1]
    BY <1>4
  <2>3. par.cversion = c[pp].cversion + 1
    BY <2>2, <1>3 DEF Node
  <2>4. par.cversion - 1 = c[pp].cversion
    BY <2>1, <2>3, SMT
  <2> HIDE DEF par
  <2> QED BY <2>2, <2>4, <1>3 DEF Node
<1>6. /\ DOMAIN i = DOMAIN c
      /\ i[pp] = par
      /\ i[path] = c[path]
      /\ \A p \in DOMAIN c \ {pp, path} : i[p] = c[p]
  <2> HIDE DEF new, par
  <2> QED BY <1>3 DEF Put
<1> HIDE DEF i, par
<1>8. DOMAIN g = DOMAIN c /\ \A p \in DOMAIN c : g[p] = c[p]
  BY <1>3, <1>5, <1>6 DEF Put
<1>9. g = c
  <2>1. c = [p \in DOMAIN c |-> c[p]]
    BY DEF IsTree, ContainerOK, IsContainer
  <2>2. g = [p \in DOMAIN g |-> g[p]]
    BY DEF Put
  <2> HIDE DEF g
  <2> QED BY <2>1, <2>2, <1>8
<1> HIDE DEF g
<1> QED BY <1>1, <1>2, <1>9

-----------------------------------------------------------------------------
\* What Close takes away from the node p.
LEMMA OwnedFacts ==
    ASSUME NEW t, IsTree(t), NEW s
    PROVE  /\ \A q \in owned(t, s) :
                  /\ q \in DOMAIN t.container /\ q \in Path /\ q # Root
                  /\ <<s, q>> \in t.ephemerals
                  /\ t.container[q].ephemeralOwner = s /\ s # 0
                  /\ t.container[q].children = {}
           /\ \A p \in DOMAIN t.container :
                  ownedBelow(t, s, p) \subseteq t.container[p].children
<1> DEFINE c == t.container
<1>1. ASSUME NEW q \in owned(t, s)
      PROVE  /\ q \in DOMAIN c /\ q \in Path /\ q # Root
             /\ <<s, q>> \in t.ephemerals
             /\ c[q].ephemeralOwner = s /\ s # 0 /\ c[q].children = {}
  <2>1. PICK x \in t.ephemerals : x[1] = s /\ x[2] = q
    BY DEF owned
  <2>2. x = <<s, q>> /\ s # 0 /\ q \in DOMAIN c /\ c[q].ephemeralOwner = s
    BY <2>1, SMTT(30) DEF IsTree, WellIndexed
  <2>3. q # Root
    BY <2>2 DEF IsTree
  <2>4. q \in Path
    BY <2>2 DEF IsTree
  <2> QED BY <2>2, <2>3, <2>4 DEF IsTree, WellIndexed
<1>2. ASSUME NEW p \in DOMAIN c, NEW n \in ownedBelow(t, s, p)
      PROVE  n \in c[p].children
  <2>1. PICK q \in owned(t, s) : parentPath(q) = p /\ n = getBaseName(q)
    BY DEF ownedBelow
  <2> QED BY <2>1, <1>1 DEF IsTree, ContainerOK, WellLinked
<1> QED BY <1>1, <1>2

\* Close leaves a tree.
LEMMA ClosedIsTree ==
    ASSUME NEW t, IsTree(t), NEW s
    PROVE  IsTree(Closed(t, s))
<1> DEFINE c == t.container
           own == owned(t, s)
           names(p) == ownedBelow(t, s, p)
           d == [p \in DOMAIN c \ own |->
                    [c[p] EXCEPT
                        !.children = @ \ names(p),
                        !.numChildren = @ - Cardinality(names(p)),
                        !.cversion = @ + Cardinality(names(p))]]
           f == {e \in t.ephemerals : e[1] # s}
<1>1. Closed(t, s) = [container |-> d, ephemerals |-> f]
  BY DEF Closed
<1>2. DOMAIN d = DOMAIN c \ own
  OBVIOUS
<1>3. ASSUME NEW p \in DOMAIN d
      PROVE  /\ d[p] \in Node
             /\ d[p].children = c[p].children \ names(p)
             /\ IsFiniteSet(d[p].children)
             /\ d[p].numChildren = Cardinality(d[p].children)
             /\ d[p].ephemeralOwner = c[p].ephemeralOwner
  <2>1. /\ c[p] \in Node /\ IsFiniteSet(c[p].children)
        /\ c[p].numChildren = Cardinality(c[p].children)
    BY DEF IsTree, ContainerOK, IsContainer, WellLinked, FiniteChildren
  <2>2. names(p) \in SUBSET c[p].children
    BY OwnedFacts
  <2>3. /\ IsFiniteSet(c[p].children \ names(p))
        /\ Cardinality(names(p)) \in Nat
        /\ Cardinality(c[p].children \ names(p))
               = Cardinality(c[p].children) - Cardinality(names(p))
    BY <2>1, <2>2, DropNames
  <2> DEFINE ch == c[p].children \ names(p)
             nu == c[p].numChildren - Cardinality(names(p))
             cv == c[p].cversion + Cardinality(names(p))
  <2>4. ch \in SUBSET Component /\ nu \in Int /\ cv \in Int
    BY <2>1, <2>3, SMT DEF Node
  <2>5. d[p] = [c[p] EXCEPT !.children = ch, !.numChildren = nu, !.cversion = cv]
    OBVIOUS
  <2>6. nu = Cardinality(ch)
    BY <2>1, <2>3
  <2>7. IsFiniteSet(ch)
    BY <2>3
  <2> HIDE DEF ch, nu, cv, d
  <2>8. /\ d[p] \in Node /\ d[p].children = ch /\ d[p].numChildren = nu
        /\ d[p].ephemeralOwner = c[p].ephemeralOwner
    BY <2>1, <2>4, <2>5, ZenonT(30) DEF Node
  <2> QED BY <2>6, <2>7, <2>8 DEF ch
<1>4. d = [p \in DOMAIN d |-> d[p]]
  OBVIOUS
<1> HIDE DEF d
<1>5. IsContainer(d)
  BY <1>2, <1>3, <1>4 DEF IsTree, ContainerOK, IsContainer
<1>6. FiniteChildren(d)
  BY <1>3 DEF FiniteChildren
<1>7. WellLinked(d)
  <2>1. ASSUME NEW p \in DOMAIN d
        PROVE  /\ p # Root => /\ parentPath(p) \in DOMAIN d
                              /\ getBaseName(p) \in d[parentPath(p)].children
               /\ \A name \in d[p].children : Append(p, name) \in DOMAIN d
    <3>1. p \in DOMAIN c /\ p \notin own /\ p \in Path /\ c[p].children \subseteq Component
      BY <1>2 DEF IsTree, ContainerOK, IsContainer, Node
    <3>2. ASSUME p # Root
          PROVE  /\ parentPath(p) \in DOMAIN d
                 /\ getBaseName(p) \in d[parentPath(p)].children
      <4>1. /\ parentPath(p) \in DOMAIN c
            /\ getBaseName(p) \in c[parentPath(p)].children
        BY <3>1, <3>2 DEF IsTree, ContainerOK, WellLinked
      <4>2. parentPath(p) \notin own
        BY <4>1, OwnedFacts
      <4>3. getBaseName(p) \notin names(parentPath(p))
        <5>1. SUFFICES ASSUME NEW q \in own, parentPath(q) = parentPath(p),
                              getBaseName(q) = getBaseName(p)
                       PROVE  FALSE
          BY DEF ownedBelow
        <5>2. q \in Path /\ q # Root
          BY OwnedFacts, ZenonT(30)
        <5>3. q = p
          BY <3>1, <3>2, <5>1, <5>2, ParentPath
        <5> QED BY <5>3, <3>1
      <4> QED BY <4>1, <4>2, <4>3, <1>2, <1>3
    <3>3. ASSUME NEW name \in d[p].children
          PROVE  Append(p, name) \in DOMAIN d
      <4>1. name \in c[p].children /\ name \notin names(p)
        BY <1>3
      <4>2. Append(p, name) \in DOMAIN c
        BY <3>1, <4>1 DEF IsTree, ContainerOK, WellLinked
      <4>3. Append(p, name) \notin own
        <5>1. SUFFICES ASSUME Append(p, name) \in own
                       PROVE  FALSE
          OBVIOUS
        <5>2. parentPath(Append(p, name)) = p /\ getBaseName(Append(p, name)) = name
          BY <3>1, <4>1, AppendPath
        <5>3. name \in names(p)
          BY <5>1, <5>2 DEF ownedBelow
        <5> QED BY <5>3, <4>1
      <4> QED BY <4>2, <4>3, <1>2
    <3> QED BY <3>2, <3>3
  <2> QED BY <2>1, <1>3 DEF WellLinked
<1>8. WellIndexed([container |-> d, ephemerals |-> f])
  <2>1. ASSUME NEW x \in f
        PROVE  x[2] \in DOMAIN d /\ d[x[2]].ephemeralOwner = x[1]
    <3>1. /\ x \in t.ephemerals /\ x[1] # s /\ x[2] \in DOMAIN c
          /\ c[x[2]].ephemeralOwner = x[1]
      BY DEF IsTree, WellIndexed
    <3>2. x[2] \notin own
      <4>1. \A q \in own : c[q].ephemeralOwner = s
        BY OwnedFacts
      <4> QED BY <3>1, <4>1
    <3> QED BY <3>1, <3>2, <1>2, <1>3
  <2>2. ASSUME NEW p \in DOMAIN d, d[p].ephemeralOwner # 0
        PROVE  <<d[p].ephemeralOwner, p>> \in f /\ d[p].children = {}
    <3>1. /\ p \in DOMAIN c /\ p \notin own
          /\ d[p].ephemeralOwner = c[p].ephemeralOwner
          /\ d[p].children \subseteq c[p].children
      BY <1>2, <1>3
    <3>2. <<c[p].ephemeralOwner, p>> \in t.ephemerals /\ c[p].children = {}
      BY <2>2, <3>1 DEF IsTree, WellIndexed
    <3>3. c[p].ephemeralOwner # s
      <4>1. SUFFICES ASSUME <<s, p>> \in t.ephemerals
                     PROVE  p \in own
        BY <3>1, <3>2
      <4>2. <<s, p>>[1] = s /\ <<s, p>>[2] = p
        OBVIOUS
      <4> QED BY <4>1, <4>2 DEF owned
    <3> QED BY <3>1, <3>2, <3>3
  <2> QED BY <2>1, <2>2 DEF WellIndexed
<1>9. f \subseteq (Nat \ {0}) \X (Path \ {Root})
  BY DEF IsTree
<1> QED BY <1>1, <1>5, <1>6, <1>7, <1>8, <1>9, SMTT(30) DEF IsTree, ContainerOK

-----------------------------------------------------------------------------
\* The type of the ACL table.
AclOK(m) ==
    /\ m = [num_to_acl |-> m.num_to_acl, acl_to_num |-> m.acl_to_num,
            usage_counter |-> m.usage_counter, max_acl_id |-> m.max_acl_id]
    /\ DOMAIN m.usage_counter \subseteq Nat
    /\ m.usage_counter \in [DOMAIN m.usage_counter -> Nat \ {0}]
    /\ m.acl_to_num \in [DOMAIN m.acl_to_num -> Nat]
    /\ DOMAIN m.num_to_acl \subseteq Nat
    /\ m.max_acl_id \in Nat \ {0}

\* ACLMap::convertACLs keeps the table well-typed.
LEMMA ConvertType ==
    ASSUME NEW m, AclOK(m), NEW acls
    PROVE  ACLNumber(m, acls) \in Nat /\ AclOK(convertACLs(m, acls))
<1>1. ACLNumber(m, acls) \in Nat
  BY DEF AclOK, ACLNumber, Get
<1>2. CASE acls = NoACL \/ acls \in DOMAIN m.acl_to_num
  BY <1>1, <1>2 DEF convertACLs
<1>3. CASE ~(acls = NoACL \/ acls \in DOMAIN m.acl_to_num)
  <2> DEFINE a == Put(m.acl_to_num, acls, m.max_acl_id)
             n == Put(m.num_to_acl, m.max_acl_id, acls)
  <2>1. convertACLs(m, acls) =
            [num_to_acl |-> n, acl_to_num |-> a,
             usage_counter |-> m.usage_counter,
             max_acl_id |-> m.max_acl_id + 1]
    BY <1>3 DEF convertACLs, AclOK
  <2>2. a \in [DOMAIN a -> Nat]
    BY DEF Put, AclOK
  <2>3. DOMAIN n \subseteq Nat
    BY DEF Put, AclOK
  <2>4. m.max_acl_id + 1 \in Nat \ {0}
    BY SMT DEF AclOK
  <2> HIDE DEF a, n
  <2> QED BY <1>1, <2>1, <2>2, <2>3, <2>4, SMT DEF AclOK
<1> QED BY <1>2, <1>3

\* ACLMap::addUsage keeps the table well-typed.
LEMMA AddUsageType ==
    ASSUME NEW m, AclOK(m), NEW id \in Nat
    PROVE  AclOK(addUsage(m, id))
<1> DEFINE u == Put(m.usage_counter, id, Get(m.usage_counter, id, 0) + 1)
<1>1. addUsage(m, id) =
          [num_to_acl |-> m.num_to_acl, acl_to_num |-> m.acl_to_num,
           usage_counter |-> u, max_acl_id |-> m.max_acl_id]
  BY SMT DEF addUsage, AclOK
<1>2. Get(m.usage_counter, id, 0) + 1 \in Nat \ {0}
  BY SMT DEF AclOK, Get
<1>3. DOMAIN u \subseteq Nat /\ u \in [DOMAIN u -> Nat \ {0}]
  BY <1>2 DEF AclOK, Put
<1> HIDE DEF u
<1> QED BY <1>1, <1>3, SMT DEF AclOK

\* ACLMap::removeUsage keeps the table well-typed: no counter stays at zero.
LEMMA RemoveUsageType ==
    ASSUME NEW m, AclOK(m), NEW id
    PROVE  AclOK(removeUsage(m, id))
<1>1. CASE id \notin DOMAIN m.usage_counter
  BY <1>1 DEF removeUsage
<1>2. CASE id \in DOMAIN m.usage_counter /\ m.usage_counter[id] # 1
  <2> DEFINE u == [m.usage_counter EXCEPT ![id] = @ - 1]
  <2>1. removeUsage(m, id) =
          [num_to_acl |-> m.num_to_acl, acl_to_num |-> m.acl_to_num,
           usage_counter |-> u, max_acl_id |-> m.max_acl_id]
    BY <1>2 DEF removeUsage, AclOK
  <2>2. m.usage_counter[id] - 1 \in Nat \ {0}
    BY <1>2, SMT DEF AclOK
  <2>3. DOMAIN u = DOMAIN m.usage_counter /\ u \in [DOMAIN u -> Nat \ {0}]
    BY <1>2, <2>2 DEF AclOK
  <2> HIDE DEF u
  <2> QED BY <2>1, <2>3, SMT DEF AclOK
<1>3. CASE id \in DOMAIN m.usage_counter /\ m.usage_counter[id] = 1
  <2> DEFINE u == Drop(m.usage_counter, id)
             n == Drop(m.num_to_acl, id)
             a == Drop(m.acl_to_num, Get(m.num_to_acl, id, NoACL))
  <2>1. removeUsage(m, id) =
          [num_to_acl |-> n, acl_to_num |-> a,
           usage_counter |-> u, max_acl_id |-> m.max_acl_id]
    BY <1>3 DEF removeUsage, AclOK
  <2>2. DOMAIN u \subseteq Nat /\ u \in [DOMAIN u -> Nat \ {0}]
    BY DEF Drop, AclOK
  <2>3. a \in [DOMAIN a -> Nat]
    BY DEF Drop, AclOK
  <2>4. DOMAIN n \subseteq Nat
    BY DEF Drop, AclOK
  <2> HIDE DEF u, n, a
  <2> QED BY <2>1, <2>2, <2>3, <2>4, SMT DEF AclOK
<1> QED BY <1>1, <1>2, <1>3

-----------------------------------------------------------------------------
\* The kinds of sub-requests.
LEMMA SubRequestKinds ==
    ASSUME NEW r \in SubRequest
    PROVE  /\ r.op \in {"Create", "Remove", "Set", "Check"}
           /\ r.op = "Create" <=> r \in CreateRequest
           /\ r.op # "Create" <=> r \in VersionedRequest
           /\ r.path \in Path
BY DEF SubRequest, CreateRequest, VersionedRequest

\* The kinds of requests.
LEMMA RequestKinds ==
    ASSUME NEW r \in Requests
    PROVE  /\ r.op \in {"Create", "Remove", "Set", "Check"} => r \in SubRequest
           /\ r.op = "SetACL" => r \in SetACLRequest
           /\ r.op \in {"Get", "Exists", "List", "GetACL"} => r \in ReadRequest
           /\ r.op = "Auth" => r \in AuthRequest
           /\ r.op = "Multi" => r \in MultiRequest
           /\ r.op \in {"Create", "Remove", "Set", "Check", "SetACL", "Get",
                        "Exists", "List", "GetACL", "Auth", "Multi"}
<1>1. r \in Request
  BY RequestsAssumption
<1> QED BY <1>1 DEF Request, SubRequest, CreateRequest, VersionedRequest,
               SetACLRequest, ReadRequest, AuthRequest, MultiRequest

\* The path of a successful create is new, below an existing node.
LEMMA PathCreated ==
    ASSUME IsTree(tree), NEW r \in CreateRequest, WellFormed(r), NEW s,
           CreateError(s, r) = "ZOK"
    PROVE  /\ path_created(r) \in Path
           /\ path_created(r) \notin DOMAIN container
           /\ path_created(r) # Root
           /\ parentPath(path_created(r)) = parentPath(r.path)
           /\ parentPath(r.path) \in DOMAIN container
           /\ container[parentPath(r.path)].ephemeralOwner = 0
<1> DEFINE pp == parentPath(r.path)
<1>1. /\ pp \in DOMAIN container
      /\ container[pp].ephemeralOwner = 0
      /\ path_created(r) \notin DOMAIN container
  BY DEF CreateError, exists
<1>2. r.path \in Path /\ r.is_sequential \in BOOLEAN /\ r.op = "Create"
  BY DEF CreateRequest
<1>3. CASE ~r.is_sequential
  <2>1. path_created(r) = r.path
    BY <1>3 DEF path_created
  <2>2. r.path # Root
    BY <1>1, <2>1 DEF parentPath
  <2> QED BY <1>1, <1>2, <2>1, <2>2
<1>4. CASE r.is_sequential
  <2> DEFINE name == SeqName(getBaseName(r.path), container[pp].seq_num)
  <2>1. path_created(r) = Append(pp, name)
    BY <1>4 DEF path_created
  <2>2. r.path # Root /\ getBaseName(r.path) \in BaseName
    BY <1>2, <1>4 DEF WellFormed
  <2>3. pp \in Path
    BY <1>2, <2>2, ParentPath
  <2>4. container[pp].seq_num \in Int
    BY <1>1 DEF IsTree, ContainerOK, IsContainer, tree, Node
  <2>5. name \in Component
    BY <2>2, <2>4 DEF SeqName, Component
  <2> HIDE DEF name, pp
  <2>6. Append(pp, name) \in Path /\ Append(pp, name) # Root /\ parentPath(Append(pp, name)) = pp
    BY <2>3, <2>5, AppendPath
  <2> QED BY <1>1, <2>1, <2>6 DEF pp
<1> QED BY <1>2, <1>3, <1>4

\* A sub-request that succeeds leaves a tree.
LEMMA EffectIsTree ==
    ASSUME IsTree(tree), AclOK(acl_map),
           NEW s \in Nat \ {0}, NEW r \in SubRequest, WellFormed(r),
           SubRequestError(s, r) = "ZOK", NEW z \in Nat
    PROVE  IsTree(Effect(s, r, z))
<1>1. CASE r.op = "Create"
  <2>1. Effect(s, r, z) = Created(tree, s, r, path_created(r),
                                  ACLNumber(acl_map, node_acls(s, r)), z)
    BY <1>1 DEF Effect
  <2>2. CreateError(s, r) = "ZOK" /\ r \in CreateRequest
    BY <1>1, SubRequestKinds DEF SubRequestError
  <2>3. ACLNumber(acl_map, node_acls(s, r)) \in Nat
    BY ConvertType
  <2>4. tree.container = container
    BY DEF tree
  <2>5. /\ path_created(r) \in Path /\ path_created(r) # Root
        /\ path_created(r) \notin DOMAIN tree.container
        /\ parentPath(r.path) = parentPath(path_created(r))
        /\ parentPath(path_created(r)) \in DOMAIN tree.container
        /\ tree.container[parentPath(path_created(r))].ephemeralOwner = 0
    BY <2>2, <2>4, PathCreated
  <2> HIDE DEF tree
  <2>6. IsTree(Created(tree, s, r, path_created(r),
                       ACLNumber(acl_map, node_acls(s, r)), z))
    BY <2>2, <2>3, <2>5, CreatedIsTree
  <2> QED BY <2>1, <2>6
<1>2. CASE r.op = "Remove"
  <2>1. Effect(s, r, z) = Removed(tree, r)
    BY <1>2 DEF Effect
  <2>2. RemoveError(r) = "ZOK" /\ r \in VersionedRequest
    BY <1>2, SubRequestKinds DEF SubRequestError
  <2>3. r.path \in DOMAIN tree.container /\ tree.container[r.path].numChildren = 0
    BY <2>2 DEF RemoveError, exists, tree
  <2>4. CASE r.path = Root
    BY <2>1, <2>2, <2>3, <2>4, RemovedRootIsTree
  <2>5. CASE r.path # Root
    BY <2>1, <2>2, <2>3, <2>5, RemovedIsTree
  <2> QED BY <2>4, <2>5
<1>3. CASE r.op = "Set"
  <2>1. Effect(s, r, z) = Changed(tree, r, z)
    BY <1>3 DEF Effect
  <2>2. SetError(r) = "ZOK" /\ r \in VersionedRequest
    BY <1>3, SubRequestKinds DEF SubRequestError
  <2>3. r.path \in DOMAIN tree.container
    BY <2>2 DEF SetError, exists, tree
  <2> QED BY <2>1, <2>2, <2>3, ChangedIsTree
<1>4. CASE r.op = "Check"
  BY <1>4 DEF Effect
<1> QED BY <1>1, <1>2, <1>3, <1>4, SubRequestKinds

\* Its undo closure restores the tree it found.
LEMMA EffectUndone ==
    ASSUME IsTree(tree), AclOK(acl_map),
           NEW s \in Nat \ {0}, NEW r \in SubRequest, WellFormed(r),
           SubRequestError(s, r) = "ZOK", NEW z \in Nat,
           r.op \in {"Remove", "Set"} => r.path # Root
    PROVE  Undone(Effect(s, r, z), UndoRecord(s, r)) = tree
<1> DEFINE u == UndoRecord(s, r)
<1>0. tree = [container |-> tree.container, ephemerals |-> tree.ephemerals]
      /\ tree.container = container
  BY DEF tree
<1>1. CASE r.op = "Create"
  <2>1. Effect(s, r, z) = Created(tree, s, r, path_created(r),
                                  ACLNumber(acl_map, node_acls(s, r)), z)
    BY <1>1 DEF Effect
  <2>2. CreateError(s, r) = "ZOK" /\ r \in CreateRequest
    BY <1>1, SubRequestKinds DEF SubRequestError
  <2>3. ACLNumber(acl_map, node_acls(s, r)) \in Nat
    BY ConvertType
  <2>4. /\ path_created(r) \in Path
        /\ path_created(r) \notin DOMAIN container
        /\ path_created(r) # Root
        /\ parentPath(path_created(r)) = parentPath(r.path)
        /\ parentPath(r.path) \in DOMAIN container
    BY <2>2, PathCreated
  <2>5. /\ u.op = "Create" /\ u.path_created = path_created(r)
        /\ u.parent_path = parentPath(r.path)
        /\ u.session = s /\ u.is_ephemeral = r.is_ephemeral
        /\ u.prev_parent_cversion = container[parentPath(r.path)].cversion
        /\ u.prev_parent_zxid = container[parentPath(r.path)].pzxid
    BY <1>1 DEF UndoRecord
  <2>6. Undone(Effect(s, r, z), u) = UndoCreate(Effect(s, r, z), u)
    BY <2>5 DEF Undone
  <2> HIDE DEF tree, u
  <2> QED BY <1>0, <2>1, <2>2, <2>3, <2>4, <2>5, <2>6, CreatedUndone, SMT DEF u
<1>2. CASE r.op = "Remove"
  <2>1. Effect(s, r, z) = Removed(tree, r)
    BY <1>2 DEF Effect
  <2>2. RemoveError(r) = "ZOK" /\ r \in VersionedRequest
    BY <1>2, SubRequestKinds DEF SubRequestError
  <2>3. r.path \in DOMAIN container
    BY <2>2 DEF RemoveError, exists
  <2>4. u.op = "Remove" /\ u.path = r.path /\ u.prev_node = container[r.path]
    BY <1>2 DEF UndoRecord
  <2>5. Undone(Effect(s, r, z), u) = UndoRemove(Effect(s, r, z), u)
    BY <2>4 DEF Undone
  <2> HIDE DEF tree, u
  <2> QED BY <1>0, <1>2, <2>1, <2>2, <2>3, <2>4, <2>5, RemovedUndone DEF u
<1>3. CASE r.op = "Set"
  <2>1. Effect(s, r, z) = Changed(tree, r, z)
    BY <1>3 DEF Effect
  <2>2. SetError(r) = "ZOK" /\ r \in VersionedRequest
    BY <1>3, SubRequestKinds DEF SubRequestError
  <2>3. r.path \in DOMAIN container
    BY <2>2 DEF SetError, exists
  <2>4. u.op = "Set" /\ u.path = r.path /\ u.prev_node = container[r.path]
    BY <1>3 DEF UndoRecord
  <2>5. Undone(Effect(s, r, z), u) = UndoSet(Effect(s, r, z), u)
    BY <2>4 DEF Undone
  <2> HIDE DEF tree, u
  <2> QED BY <1>0, <1>3, <2>1, <2>2, <2>3, <2>4, <2>5, ChangedUndone, SMT DEF u
<1>4. CASE r.op = "Check"
  BY <1>4 DEF Effect, Undone, UndoRecord
<1> QED BY <1>1, <1>2, <1>3, <1>4, SubRequestKinds


-----------------------------------------------------------------------------
\* The zxids in c do not exceed z; they are smaller.
Stamped(c, z) == \A p \in DOMAIN c : c[p].czxid <= z /\ c[p].mzxid <= z

Older(c, z) == \A p \in DOMAIN c : c[p].czxid < z /\ c[p].mzxid < z

\* The container c is a later state of b.
Since(b, c) == \A p \in DOMAIN b \cap DOMAIN c : Advanced(b[p], c[p])

\* What a request with the zxid z may do to a node, and to a container.
NodeStep(old, new, z) ==
    /\ new.czxid = old.czxid
    /\ old.version <= new.version
    /\ old.cversion <= new.cversion
    /\ old.aversion <= new.aversion
    /\ old.seq_num <= new.seq_num
    /\ \/ new.version = old.version /\ new.mzxid = old.mzxid
       \/ old.version < new.version /\ new.mzxid = z

TreeStep(c, d, z) ==
    \A p \in DOMAIN d :
        \/ p \in DOMAIN c /\ NodeStep(c[p], d[p], z)
        \/ d[p].czxid = z /\ d[p].mzxid = z

\* A step keeps a node a later state of any older one.
LEMMA NodeAdvances ==
    ASSUME NEW b \in Node, NEW c \in Node, NEW d \in Node, NEW z \in Nat,
           b.mzxid < z, Advanced(b, c), NodeStep(c, d, z)
    PROVE  Advanced(b, d)
<1>1. /\ b.czxid \in Nat /\ b.mzxid \in Nat /\ b.version \in Int
      /\ b.cversion \in Int /\ b.aversion \in Int /\ b.seq_num \in Int
  BY NodeFields
<1>2. /\ c.czxid \in Nat /\ c.mzxid \in Nat /\ c.version \in Int
      /\ c.cversion \in Int /\ c.aversion \in Int /\ c.seq_num \in Int
  BY NodeFields
<1>3. /\ d.czxid \in Nat /\ d.mzxid \in Nat /\ d.version \in Int
      /\ d.cversion \in Int /\ d.aversion \in Int /\ d.seq_num \in Int
  BY NodeFields
<1>4. SUFFICES ASSUME b.czxid = d.czxid
               PROVE  /\ b.version <= d.version
                      /\ b.cversion <= d.cversion
                      /\ b.aversion <= d.aversion
                      /\ b.seq_num <= d.seq_num
                      /\ b.version = d.version <=> b.mzxid = d.mzxid
  BY DEF Advanced
<1>5. /\ b.version <= c.version
      /\ b.cversion <= c.cversion
      /\ b.aversion <= c.aversion
      /\ b.seq_num <= c.seq_num
      /\ b.version = c.version <=> b.mzxid = c.mzxid
  BY <1>4 DEF Advanced, NodeStep
<1> QED BY <1>1, <1>2, <1>3, <1>5, SMT DEF NodeStep

\* A node is a later state of itself.
LEMMA SinceItself ==
    ASSUME NEW c, IsContainer(c)
    PROVE  Since(c, c)
<1>1. SUFFICES ASSUME NEW p \in DOMAIN c PROVE Advanced(c[p], c[p])
  BY DEF Since
<1>2. /\ c[p].version \in Int /\ c[p].cversion \in Int
      /\ c[p].aversion \in Int /\ c[p].seq_num \in Int
  BY NodeFields DEF IsContainer
<1> QED BY <1>2, SMT DEF Advanced

\* A step keeps a container a later state of any older one.
LEMMA StepAdvances ==
    ASSUME NEW b, NEW c, NEW d, NEW z \in Nat,
           IsContainer(b), IsContainer(c), IsContainer(d),
           Older(b, z), Stamped(c, z), Since(b, c), TreeStep(c, d, z)
    PROVE  Since(b, d) /\ Stamped(d, z)
<1>1. ASSUME NEW p \in DOMAIN b \cap DOMAIN d
      PROVE  Advanced(b[p], d[p])
  <2>1. /\ b[p] \in Node /\ d[p] \in Node
        /\ b[p].czxid \in Nat /\ b[p].czxid < z /\ b[p].mzxid < z
    BY NodeFields DEF IsContainer, Older
  <2>2. CASE d[p].czxid = z
    BY <2>1, <2>2, SMT DEF Advanced
  <2>3. CASE p \in DOMAIN c /\ NodeStep(c[p], d[p], z)
    <3>1. c[p] \in Node /\ Advanced(b[p], c[p])
      BY <2>3 DEF IsContainer, Since
    <3> QED BY <2>1, <2>3, <3>1, NodeAdvances
  <2> QED BY <2>2, <2>3 DEF TreeStep
<1>2. ASSUME NEW p \in DOMAIN d
      PROVE  d[p].czxid <= z /\ d[p].mzxid <= z
  BY SMT DEF TreeStep, NodeStep, Stamped
<1> QED BY <1>1, <1>2 DEF Since, Stamped

-----------------------------------------------------------------------------
\* What a create and a remove do to the parent.
LEMMA ParentStep ==
    ASSUME NEW node \in Node, NEW name, NEW z \in Nat
    PROVE  /\ NodeStep(node, gainChild(node, name, z), z)
           /\ NodeStep(node, loseChild(node, name), z)
           /\ NodeStep(node, node, z)
<1>1. /\ node.version \in Int /\ node.cversion \in Int
      /\ node.aversion \in Int /\ node.seq_num \in Int
  BY NodeFields
<1>2. LET new == gainChild(node, name, z)
      IN  /\ new.czxid = node.czxid /\ new.mzxid = node.mzxid
          /\ new.version = node.version /\ new.aversion = node.aversion
          /\ new.cversion = node.cversion + 1
          /\ new.seq_num = node.seq_num + 1
  BY DEF gainChild, withChild, Node
<1>3. LET new == loseChild(node, name)
      IN  /\ new.czxid = node.czxid /\ new.mzxid = node.mzxid
          /\ new.version = node.version /\ new.aversion = node.aversion
          /\ new.cversion = node.cversion + 1
          /\ new.seq_num = node.seq_num
  BY DEF loseChild, withoutChild, Node
<1>4. NodeStep(node, gainChild(node, name, z), z)
  BY <1>1, <1>2, SMT DEF NodeStep
<1>5. NodeStep(node, loseChild(node, name), z)
  BY <1>1, <1>3, SMT DEF NodeStep
<1>6. NodeStep(node, node, z)
  BY <1>1, SMT DEF NodeStep
<1> QED BY <1>4, <1>5, <1>6

\* A Create makes one step.
LEMMA CreatedStep ==
    ASSUME NEW t, IsTree(t), NEW s, NEW r, NEW path, NEW acl_id, NEW z \in Nat,
           parentPath(r.path) \in DOMAIN t.container
    PROVE  TreeStep(t.container, Created(t, s, r, path, acl_id, z).container, z)
<1> DEFINE c == t.container
           pp == parentPath(r.path)
           node == NewNode(acl_id, IF r.is_ephemeral THEN s ELSE 0, z)
           par == gainChild(c[pp], getBaseName(path), z)
           d == Put(Put(c, path, node), pp, par)
<1>1. Created(t, s, r, path, acl_id, z).container = d
  BY DEF Created
<1>2. node.czxid = z /\ node.mzxid = z
  BY DEF NewNode
<1>3. c \in [DOMAIN c -> Node]
  BY DEF IsTree, ContainerOK, IsContainer
<1>4. NodeStep(c[pp], par, z) /\ \A p \in DOMAIN c : NodeStep(c[p], c[p], z)
  BY <1>3, ParentStep
<1> HIDE DEF node, par
<1>5. /\ DOMAIN d = DOMAIN c \cup {path, pp} /\ d[pp] = par
      /\ \A p \in DOMAIN d \ {pp} : d[p] = IF p = path THEN node ELSE c[p]
  BY DEF Put
<1> HIDE DEF d
<1> QED BY <1>1, <1>2, <1>4, <1>5 DEF TreeStep

\* A Remove makes one step.
LEMMA RemovedStep ==
    ASSUME NEW t, IsTree(t), NEW r, r.path \in DOMAIN t.container, NEW z \in Nat
    PROVE  TreeStep(t.container, Removed(t, r).container, z)
<1> DEFINE c == t.container
           pp == parentPath(r.path)
           par == loseChild(c[pp], getBaseName(r.path))
           d == Drop(Put(c, pp, par), r.path)
<1>1. Removed(t, r).container = d
  BY DEF Removed
<1>2. c \in [DOMAIN c -> Node] /\ pp \in DOMAIN c
  BY DEF IsTree, ContainerOK, IsContainer, WellLinked, parentPath
<1>3. NodeStep(c[pp], par, z) /\ \A p \in DOMAIN c : NodeStep(c[p], c[p], z)
  BY <1>2, ParentStep
<1> HIDE DEF par
<1>4. /\ DOMAIN d \subseteq DOMAIN c
      /\ \A p \in DOMAIN d : d[p] = IF p = pp THEN par ELSE c[p]
  BY <1>2 DEF Put, Drop
<1> HIDE DEF d
<1> QED BY <1>1, <1>2, <1>3, <1>4 DEF TreeStep

\* A Set makes one step, at "/" too, which counts as its own child.
LEMMA ChangedStep ==
    ASSUME NEW t, IsTree(t), NEW r, r.path \in DOMAIN t.container, NEW z \in Nat
    PROVE  TreeStep(t.container, Changed(t, r, z).container, z)
<1> DEFINE c == t.container
           path == r.path
           pp == parentPath(path)
           new == [c[path] EXCEPT !.version = @ + 1, !.mzxid = z]
           m == Put(c, path, new)
           par == [m[pp] EXCEPT !.cversion = @ + 1]
           d == Put(m, pp, par)
<1>1. Changed(t, r, z).container = d
  BY DEF Changed
<1>2. c \in [DOMAIN c -> Node] /\ pp \in DOMAIN c /\ c[path] \in Node
  BY SMT DEF IsTree, ContainerOK, IsContainer, WellLinked, parentPath
<1>3. new \in Node /\ NodeStep(c[path], new, z)
  <2>1. /\ c[path].version \in Int /\ c[path].cversion \in Int
        /\ c[path].aversion \in Int /\ c[path].seq_num \in Int
        /\ c[path].version + 1 \in Int
    BY <1>2, NodeFields, SMT
  <2>2. /\ new \in Node /\ new.czxid = c[path].czxid /\ new.mzxid = z
        /\ new.version = c[path].version + 1 /\ new.cversion = c[path].cversion
        /\ new.aversion = c[path].aversion /\ new.seq_num = c[path].seq_num
    BY <1>2, <2>1, Zenon DEF Node
  <2> HIDE DEF new
  <2> QED BY <2>1, <2>2, SMTT(30) DEF NodeStep
<1> HIDE DEF new
<1>4. /\ DOMAIN m = DOMAIN c /\ m \in [DOMAIN c -> Node]
      /\ \A p \in DOMAIN c : NodeStep(c[p], m[p], z)
  <2>1. \A p \in DOMAIN c : NodeStep(c[p], c[p], z)
    BY <1>2, ParentStep
  <2> QED BY <1>2, <1>3, <2>1 DEF Put
<1> HIDE DEF m
<1>5. NodeStep(c[pp], par, z)
  <2>1. m[pp] \in Node /\ c[pp] \in Node /\ m[pp].cversion \in Int
        /\ c[pp].cversion \in Int
    BY <1>2, <1>4, NodeFields
  <2>2. /\ par.czxid = m[pp].czxid /\ par.mzxid = m[pp].mzxid
        /\ par.version = m[pp].version /\ par.cversion = m[pp].cversion + 1
        /\ par.aversion = m[pp].aversion /\ par.seq_num = m[pp].seq_num
    BY <2>1 DEF Node
  <2> HIDE DEF par
  <2>3. NodeStep(c[pp], m[pp], z)
    BY <1>2, <1>4
  <2>4. c[pp].cversion <= par.cversion
    BY <2>1, <2>2, <2>3, SMT DEF NodeStep
  <2> QED BY <2>2, <2>3, <2>4, Zenon DEF NodeStep
<1> HIDE DEF par
<1>6. /\ DOMAIN d = DOMAIN c
      /\ \A p \in DOMAIN c : d[p] = IF p = pp THEN par ELSE m[p]
  BY <1>2, <1>4 DEF Put
<1> HIDE DEF d
<1> QED BY <1>1, <1>4, <1>5, <1>6 DEF TreeStep

\* A sub-request that succeeds makes one step.
LEMMA EffectStep ==
    ASSUME IsTree(tree), NEW s, NEW r \in SubRequest, WellFormed(r),
           SubRequestError(s, r) = "ZOK", NEW z \in Nat
    PROVE  TreeStep(container, Effect(s, r, z).container, z)
<1>0. tree.container = container
  BY DEF tree
<1>1. CASE r.op = "Create"
  <2>1. Effect(s, r, z) = Created(tree, s, r, path_created(r),
                                  ACLNumber(acl_map, node_acls(s, r)), z)
    BY <1>1 DEF Effect
  <2>2. CreateError(s, r) = "ZOK" /\ r \in CreateRequest
    BY <1>1, SubRequestKinds DEF SubRequestError
  <2>3. parentPath(r.path) \in DOMAIN container
    BY <2>2, PathCreated
  <2> QED BY <1>0, <2>1, <2>3, CreatedStep
<1>2. CASE r.op = "Remove"
  <2>1. Effect(s, r, z) = Removed(tree, r) /\ RemoveError(r) = "ZOK"
    BY <1>2 DEF Effect, SubRequestError
  <2>2. r.path \in DOMAIN container
    BY <2>1 DEF RemoveError, exists
  <2> QED BY <1>0, <2>1, <2>2, RemovedStep
<1>3. CASE r.op = "Set"
  <2>1. Effect(s, r, z) = Changed(tree, r, z) /\ SetError(r) = "ZOK"
    BY <1>3 DEF Effect, SubRequestError
  <2>2. r.path \in DOMAIN container
    BY <2>1 DEF SetError, exists
  <2> QED BY <1>0, <2>1, <2>2, ChangedStep
<1>4. CASE r.op = "Check"
  <2>1. Effect(s, r, z) = tree
    BY <1>4 DEF Effect
  <2>2. \A p \in DOMAIN container : NodeStep(container[p], container[p], z)
    BY <1>0, ParentStep, Zenon DEF IsTree, ContainerOK, IsContainer
  <2> QED BY <1>0, <2>1, <2>2 DEF TreeStep
<1> QED BY <1>1, <1>2, <1>3, <1>4, SubRequestKinds

\* Close makes one step: the cversion of a parent grows by the number of its
\* erased children.
LEMMA ClosedStep ==
    ASSUME NEW t, IsTree(t), NEW s, NEW z \in Nat
    PROVE  TreeStep(t.container, Closed(t, s).container, z)
<1> DEFINE c == t.container
           d == Closed(t, s).container
<1>1. SUFFICES ASSUME NEW p \in DOMAIN d
               PROVE  p \in DOMAIN c /\ NodeStep(c[p], d[p], z)
  BY DEF TreeStep
<1> DEFINE names == ownedBelow(t, s, p)
<1>2. /\ p \in DOMAIN c
      /\ d[p] = [c[p] EXCEPT !.children = @ \ names,
                             !.numChildren = @ - Cardinality(names),
                             !.cversion = @ + Cardinality(names)]
  BY Zenon DEF Closed
<1>3. c[p] \in Node /\ IsFiniteSet(c[p].children)
  BY <1>2 DEF IsTree, ContainerOK, IsContainer, FiniteChildren
<1>4. Cardinality(names) \in Nat
  <2>1. names \in SUBSET c[p].children
    BY <1>2, OwnedFacts
  <2> QED BY <1>3, <2>1, DropNames, Zenon
<1> HIDE DEF d, names
<1>5. /\ d[p].czxid = c[p].czxid /\ d[p].mzxid = c[p].mzxid
      /\ d[p].version = c[p].version /\ d[p].aversion = c[p].aversion
      /\ d[p].cversion = c[p].cversion + Cardinality(names)
      /\ d[p].seq_num = c[p].seq_num
  BY <1>2, <1>3 DEF Node
<1>6. /\ c[p].version \in Int /\ c[p].cversion \in Int
      /\ c[p].aversion \in Int /\ c[p].seq_num \in Int
  BY <1>3, NodeFields
<1> QED BY <1>2, <1>4, <1>5, <1>6, SMT DEF NodeStep

-----------------------------------------------------------------------------
\* The nodes with an ACL number.
Users(c, id) == {p \in DOMAIN c : c[p].acl_id = id}

\* The ACL table m counts the users of every number in the container c.
Counted(c, m) ==
    /\ IsFiniteSet(DOMAIN c)
    /\ \A id \in Nat \ {0} :
           Users(c, id) # {} =>
               /\ id \in DOMAIN m.usage_counter
               /\ m.usage_counter[id] >= Cardinality(Users(c, id))

\* The nodes of d are in c, with their ACL numbers.
Fewer(c, d) ==
    \A p \in DOMAIN d : p \in DOMAIN c /\ d[p].acl_id = c[p].acl_id

\* The container d is c with one more node, which has the number id.
Gained(c, d, id) ==
    \E p \in DOMAIN d :
        /\ p \notin DOMAIN c
        /\ DOMAIN d = DOMAIN c \cup {p}
        /\ d[p].acl_id = id
        /\ \A q \in DOMAIN c : d[q].acl_id = c[q].acl_id

\* At most one node of d has another number than in c: id.
Assigned(c, d, id) ==
    \E p : /\ DOMAIN d \subseteq DOMAIN c \cup {p}
           /\ \A q \in DOMAIN d :
                  \/ q \in DOMAIN c /\ d[q].acl_id = c[q].acl_id
                  \/ q = p /\ d[q].acl_id = id

\* Sets of users are finite.
LEMMA UsersFinite ==
    ASSUME NEW c, IsFiniteSet(DOMAIN c), NEW id
    PROVE  /\ IsFiniteSet(Users(c, id)) /\ Cardinality(Users(c, id)) \in Nat
           /\ Users(c, id) = {} \/ Cardinality(Users(c, id)) > 0
<1>1. Users(c, id) \in SUBSET DOMAIN c
  BY DEF Users
<1>2. IsFiniteSet(Users(c, id))
  BY <1>1, FS_Subset
<1>3. Cardinality(Users(c, id)) \in Nat
  BY <1>2, FS_CardinalityType
<1>4. Cardinality(Users(c, id)) = 0 <=> Users(c, id) = {}
  BY <1>2, FS_EmptySet
<1> QED BY <1>2, <1>3, <1>4, SMT

\* Nodes that go take nothing from the count of the others.
LEMMA FewerCounted ==
    ASSUME NEW c, NEW d, NEW m, AclOK(m), Counted(c, m), Fewer(c, d)
    PROVE  Counted(d, m)
<1>1. DOMAIN d \in SUBSET DOMAIN c
  BY DEF Fewer
<1>2. IsFiniteSet(DOMAIN c) /\ IsFiniteSet(DOMAIN d)
  BY <1>1, FS_Subset DEF Counted
<1>3. ASSUME NEW id \in Nat \ {0}, Users(d, id) # {}
      PROVE  /\ id \in DOMAIN m.usage_counter
             /\ m.usage_counter[id] >= Cardinality(Users(d, id))
  <2>1. Users(d, id) \in SUBSET Users(c, id)
    BY DEF Users, Fewer
  <2>2. /\ id \in DOMAIN m.usage_counter
        /\ m.usage_counter[id] >= Cardinality(Users(c, id))
    BY <1>3, <2>1 DEF Counted
  <2>3. Cardinality(Users(d, id)) <= Cardinality(Users(c, id))
    BY <1>2, <2>1, UsersFinite, FS_Subset
  <2>4. Cardinality(Users(c, id)) \in Nat /\ Cardinality(Users(d, id)) \in Nat
    BY <1>2, UsersFinite
  <2>5. m.usage_counter[id] \in Nat
    BY <2>2 DEF AclOK
  <2> QED BY <2>2, <2>3, <2>4, <2>5, SMT
<1> QED BY <1>2, <1>3 DEF Counted

\* convertACLs leaves the counters alone.
LEMMA ConvertCounted ==
    ASSUME NEW c, NEW m, AclOK(m), Counted(c, m), NEW acls
    PROVE  Counted(c, convertACLs(m, acls))
<1>1. convertACLs(m, acls).usage_counter = m.usage_counter
  BY DEF convertACLs, AclOK
<1> QED BY <1>1 DEF Counted

\* addUsage makes up for one more user.
LEMMA AddCounted ==
    ASSUME NEW c, NEW d, NEW m, AclOK(m), Counted(c, m), NEW id \in Nat,
           Assigned(c, d, id)
    PROVE  Counted(d, addUsage(m, id))
<1> DEFINE u == addUsage(m, id).usage_counter
           v == m.usage_counter
<1>1. /\ u = Put(v, id, Get(v, id, 0) + 1)
      /\ v \in [DOMAIN v -> Nat \ {0}]
  BY DEF addUsage, AclOK
<1>2. /\ id \in DOMAIN u /\ u[id] = Get(v, id, 0) + 1
      /\ \A j \in DOMAIN v \ {id} : j \in DOMAIN u /\ u[j] = v[j]
  BY <1>1 DEF Put
<1> HIDE DEF u
<1>3. PICK p : /\ DOMAIN d \subseteq DOMAIN c \cup {p}
               /\ \A q \in DOMAIN d :
                      \/ q \in DOMAIN c /\ d[q].acl_id = c[q].acl_id
                      \/ q = p /\ d[q].acl_id = id
  BY DEF Assigned
<1>4. IsFiniteSet(DOMAIN c) /\ IsFiniteSet(DOMAIN d)
  <2>1. IsFiniteSet(DOMAIN c \cup {p})
    BY FS_AddElement DEF Counted
  <2>2. DOMAIN d \in SUBSET (DOMAIN c \cup {p})
    BY <1>3
  <2> QED BY <2>1, <2>2, FS_Subset DEF Counted
<1>5. ASSUME NEW j \in Nat \ {0}, Users(d, j) # {}
      PROVE  j \in DOMAIN u /\ u[j] >= Cardinality(Users(d, j))
  <2>1. /\ IsFiniteSet(Users(c, j)) /\ Cardinality(Users(c, j)) \in Nat
        /\ IsFiniteSet(Users(d, j)) /\ Cardinality(Users(d, j)) \in Nat
    BY <1>4, UsersFinite
  <2>2. CASE j # id
    <3>1. Users(d, j) \in SUBSET Users(c, j)
      BY <1>3, <2>2 DEF Users
    <3>2. j \in DOMAIN v /\ v[j] >= Cardinality(Users(c, j))
      BY <1>5, <3>1 DEF Counted
    <3>3. Cardinality(Users(d, j)) <= Cardinality(Users(c, j))
      BY <2>1, <3>1, FS_Subset
    <3>4. u[j] = v[j] /\ v[j] \in Nat /\ j \in DOMAIN u
      BY <1>1, <1>2, <2>2, <3>2
    <3> QED BY <2>1, <3>2, <3>3, <3>4, SMT
  <2>3. CASE j = id
    <3>1. Users(d, j) \in SUBSET (Users(c, j) \cup {p})
      BY <1>3 DEF Users
    <3>2. /\ IsFiniteSet(Users(c, j) \cup {p})
          /\ Cardinality(Users(c, j) \cup {p}) =
                 IF p \in Users(c, j) THEN Cardinality(Users(c, j))
                 ELSE Cardinality(Users(c, j)) + 1
      BY <2>1, FS_AddElement
    <3>3. Cardinality(Users(d, j)) <= Cardinality(Users(c, j) \cup {p})
      BY <3>1, <3>2, FS_Subset
    <3>4. Get(v, j, 0) \in Nat /\ Get(v, j, 0) >= Cardinality(Users(c, j))
      <4>1. CASE Users(c, j) = {}
        <5>1. Cardinality(Users(c, j)) = 0
          BY <4>1, FS_EmptySet
        <5>2. Get(v, j, 0) \in Nat
          BY <1>1, SMT DEF Get
        <5> QED BY <5>1, <5>2, SMT
      <4>2. CASE Users(c, j) # {}
        <5>1. j \in DOMAIN v /\ v[j] >= Cardinality(Users(c, j))
          BY <4>2 DEF Counted
        <5> QED BY <1>1, <5>1 DEF Get
      <4> QED BY <4>1, <4>2
    <3>5. j \in DOMAIN u /\ u[j] = Get(v, j, 0) + 1
      BY <1>2, <2>3
    <3> HIDE DEF v
    <3> QED BY <2>1, <3>2, <3>3, <3>4, <3>5, SMT
  <2> QED BY <2>2, <2>3
<1> QED BY <1>4, <1>5 DEF Counted, u

\* removeUsage takes away one user, and the number with the last one.
LEMMA RemoveCounted ==
    ASSUME NEW c, NEW d, NEW m, AclOK(m), Counted(c, m), NEW id,
           Gained(d, c, id)
    PROVE  Counted(d, removeUsage(m, id))
<1> DEFINE u == removeUsage(m, id).usage_counter
           v == m.usage_counter
<1>1. v \in [DOMAIN v -> Nat \ {0}]
  BY DEF AclOK
<1>2. /\ \A j \in DOMAIN v \ {id} : j \in DOMAIN u /\ u[j] = v[j]
      /\ id \in DOMAIN v /\ v[id] # 1 => id \in DOMAIN u /\ u[id] = v[id] - 1
  <2>1. CASE id \notin DOMAIN v
    BY <2>1 DEF removeUsage
  <2>2. CASE id \in DOMAIN v /\ v[id] # 1
    <3>1. u = [v EXCEPT ![id] = @ - 1]
      BY <2>2 DEF removeUsage, AclOK
    <3> HIDE DEF u, v
    <3> QED BY <1>1, <2>2, <3>1
  <2>3. CASE id \in DOMAIN v /\ v[id] = 1
    <3>1. u = Drop(v, id)
      BY <2>3 DEF removeUsage, AclOK
    <3> HIDE DEF u, v
    <3> QED BY <2>3, <3>1 DEF Drop
  <2> QED BY <2>1, <2>2, <2>3
<1> HIDE DEF u
<1>3. PICK p \in DOMAIN c :
          /\ p \notin DOMAIN d /\ DOMAIN c = DOMAIN d \cup {p}
          /\ c[p].acl_id = id
          /\ \A q \in DOMAIN d : c[q].acl_id = d[q].acl_id
  BY DEF Gained
<1>4. IsFiniteSet(DOMAIN c) /\ IsFiniteSet(DOMAIN d)
  <2>1. DOMAIN d \in SUBSET DOMAIN c
    BY <1>3
  <2> QED BY <2>1, FS_Subset DEF Counted
<1>5. ASSUME NEW j \in Nat \ {0}, Users(d, j) # {}
      PROVE  j \in DOMAIN u /\ u[j] >= Cardinality(Users(d, j))
  <2>1. /\ IsFiniteSet(Users(c, j)) /\ Cardinality(Users(c, j)) \in Nat
        /\ IsFiniteSet(Users(d, j)) /\ Cardinality(Users(d, j)) \in Nat
        /\ Cardinality(Users(d, j)) > 0
    BY <1>4, <1>5, UsersFinite
  <2>2. Users(d, j) \in SUBSET Users(c, j)
    BY <1>3 DEF Users
  <2>3. j \in DOMAIN v /\ v[j] >= Cardinality(Users(c, j)) /\ v[j] \in Nat
    BY <1>1, <1>5, <2>2 DEF Counted
  <2>4. CASE j # id
    <3>1. Cardinality(Users(d, j)) <= Cardinality(Users(c, j))
      BY <2>1, <2>2, FS_Subset
    <3>2. j \in DOMAIN u /\ u[j] = v[j]
      BY <1>2, <2>3, <2>4
    <3> HIDE DEF v
    <3> QED BY <2>1, <2>3, <3>1, <3>2, SMT
  <2>5. CASE j = id
    <3>1. p \in Users(c, j) /\ Users(d, j) \in SUBSET (Users(c, j) \ {p})
      BY <1>3, <2>2, <2>5 DEF Users
    <3>2. /\ IsFiniteSet(Users(c, j) \ {p})
          /\ Cardinality(Users(c, j) \ {p}) = Cardinality(Users(c, j)) - 1
      BY <2>1, <3>1, FS_RemoveElement
    <3>3. Cardinality(Users(d, j)) <= Cardinality(Users(c, j) \ {p})
      BY <3>1, <3>2, FS_Subset
    <3> HIDE DEF v
    <3>4. v[j] # 1 /\ v[j] - 1 >= Cardinality(Users(d, j))
      BY <2>1, <2>3, <3>2, <3>3, SMT
    <3>5. j \in DOMAIN u /\ u[j] = v[j] - 1
      BY <1>2, <2>3, <2>5, <3>4
    <3> QED BY <3>4, <3>5
  <2> QED BY <2>4, <2>5
<1> QED BY <1>4, <1>5 DEF Counted, u

-----------------------------------------------------------------------------
\* The containers c and d have the same nodes with the same ACL numbers.
SameIds(c, d) == DOMAIN d = DOMAIN c /\ \A p \in DOMAIN c : d[p].acl_id = c[p].acl_id

\* The undo closure u belongs to a sub-request that took c to d: the ACL number
\* it captured is the one of the node that came or went.
Matched(u, c, d) ==
    /\ u.op = "Create" => Gained(c, d, u.acl_id)
    /\ u.op = "Remove" => Gained(d, c, u.prev_node.acl_id)
    /\ u.op \notin {"Create", "Remove"} => SameIds(c, d)

\* The updates of the parent leave its ACL number alone.
LEMMA ParentKeepsId ==
    ASSUME NEW node \in Node, NEW name, NEW z
    PROVE  /\ gainChild(node, name, z).acl_id = node.acl_id
           /\ loseChild(node, name).acl_id = node.acl_id
BY DEF gainChild, withChild, loseChild, withoutChild, Node

\* A Create adds one node, with the number it was given.
LEMMA CreatedGains ==
    ASSUME NEW t, IsTree(t), NEW s, NEW r, NEW path, NEW acl_id, NEW z,
           parentPath(r.path) \in DOMAIN t.container,
           path \notin DOMAIN t.container
    PROVE  Gained(t.container, Created(t, s, r, path, acl_id, z).container, acl_id)
<1> DEFINE c == t.container
           pp == parentPath(r.path)
           node == NewNode(acl_id, IF r.is_ephemeral THEN s ELSE 0, z)
           par == gainChild(c[pp], getBaseName(path), z)
           d == Put(Put(c, path, node), pp, par)
<1>1. Created(t, s, r, path, acl_id, z).container = d
  BY DEF Created
<1>2. node.acl_id = acl_id
  BY DEF NewNode
<1>3. par.acl_id = c[pp].acl_id
  <2>1. c[pp] \in Node
    BY DEF IsTree, ContainerOK, IsContainer
  <2> QED BY <2>1, ParentKeepsId
<1> HIDE DEF node, par
<1>4. /\ DOMAIN d = DOMAIN c \cup {path} /\ d[path] = node
      /\ \A p \in DOMAIN c : d[p] = IF p = pp THEN par ELSE c[p]
  BY DEF Put
<1> HIDE DEF d
<1>5. \A p \in DOMAIN c : d[p].acl_id = c[p].acl_id
  BY <1>3, <1>4
<1> QED BY <1>1, <1>2, <1>4, <1>5 DEF Gained

\* A Remove takes one node away, "/" included.
LEMMA RemovedLoses ==
    ASSUME NEW t, IsTree(t), NEW r, r.path \in DOMAIN t.container
    PROVE  Gained(Removed(t, r).container, t.container,
                  t.container[r.path].acl_id)
<1> DEFINE c == t.container
           path == r.path
           pp == parentPath(path)
           par == loseChild(c[pp], getBaseName(path))
           d == Drop(Put(c, pp, par), path)
<1>1. Removed(t, r).container = d
  BY DEF Removed
<1>2. c \in [DOMAIN c -> Node] /\ pp \in DOMAIN c
  BY DEF IsTree, ContainerOK, IsContainer, WellLinked, parentPath
<1>3. par.acl_id = c[pp].acl_id
  BY <1>2, ParentKeepsId
<1> HIDE DEF par
<1>4. /\ DOMAIN d = DOMAIN c \ {path}
      /\ \A p \in DOMAIN d : d[p] = IF p = pp THEN par ELSE c[p]
  BY <1>2 DEF Put, Drop
<1> HIDE DEF d
<1>5. /\ path \notin DOMAIN d /\ DOMAIN c = DOMAIN d \cup {path}
      /\ \A p \in DOMAIN d : c[p].acl_id = d[p].acl_id
  BY <1>3, <1>4
<1> QED BY <1>1, <1>5 DEF Gained

\* A Set changes no ACL number.
LEMMA ChangedSameIds ==
    ASSUME NEW t, IsTree(t), NEW r, r.path \in DOMAIN t.container, NEW z
    PROVE  SameIds(t.container, Changed(t, r, z).container)
<1> DEFINE c == t.container
           path == r.path
           pp == parentPath(path)
           new == [c[path] EXCEPT !.version = @ + 1, !.mzxid = z]
           m == Put(c, path, new)
           par == [m[pp] EXCEPT !.cversion = @ + 1]
           d == Put(m, pp, par)
<1>1. Changed(t, r, z).container = d
  BY DEF Changed
<1>2. c \in [DOMAIN c -> Node] /\ pp \in DOMAIN c /\ c[path] \in Node
  BY SMT DEF IsTree, ContainerOK, IsContainer, WellLinked, parentPath
<1>3. /\ new.acl_id = c[path].acl_id
      /\ [new EXCEPT !.cversion = @ + 1].acl_id = c[path].acl_id
      /\ \A p \in DOMAIN c : [c[p] EXCEPT !.cversion = @ + 1].acl_id = c[p].acl_id
  BY <1>2 DEF Node
<1> HIDE DEF new
<1>4. /\ DOMAIN m = DOMAIN c
      /\ \A p \in DOMAIN c : m[p] = IF p = path THEN new ELSE c[p]
  BY <1>2 DEF Put
<1> HIDE DEF m
<1>5. par.acl_id = c[pp].acl_id
  BY <1>2, <1>3, <1>4
<1> HIDE DEF par
<1>6. /\ DOMAIN d = DOMAIN c
      /\ \A p \in DOMAIN c : d[p] = IF p = pp THEN par ELSE m[p]
  BY <1>2, <1>4 DEF Put
<1> HIDE DEF d
<1>7. \A p \in DOMAIN c : d[p].acl_id = c[p].acl_id
  BY <1>3, <1>4, <1>5, <1>6
<1> QED BY <1>1, <1>6, <1>7 DEF SameIds

\* Close takes nodes away.
LEMMA ClosedFewer ==
    ASSUME NEW t, IsTree(t), NEW s
    PROVE  Fewer(t.container, Closed(t, s).container)
<1> DEFINE c == t.container
           d == Closed(t, s).container
<1>1. SUFFICES ASSUME NEW p \in DOMAIN d
               PROVE  p \in DOMAIN c /\ d[p].acl_id = c[p].acl_id
  BY DEF Fewer
<1> DEFINE names == ownedBelow(t, s, p)
<1>2. /\ p \in DOMAIN c
      /\ d[p] = [c[p] EXCEPT !.children = @ \ names,
                             !.numChildren = @ - Cardinality(names),
                             !.cversion = @ + Cardinality(names)]
  BY Zenon DEF Closed
<1>3. c[p] \in Node
  BY <1>2 DEF IsTree, ContainerOK, IsContainer
<1> HIDE DEF d, names
<1> QED BY <1>2, <1>3 DEF Node

\* The undo closure of a sub-request that succeeds captures the right number.
LEMMA EffectMatched ==
    ASSUME IsTree(tree), NEW s, NEW r \in SubRequest, WellFormed(r),
           SubRequestError(s, r) = "ZOK", NEW z
    PROVE  Matched(UndoRecord(s, r), container, Effect(s, r, z).container)
<1> DEFINE u == UndoRecord(s, r)
<1>0. tree.container = container
  BY DEF tree
<1>1. CASE r.op = "Create"
  <2> DEFINE id == ACLNumber(acl_map, node_acls(s, r))
  <2>1. Effect(s, r, z) = Created(tree, s, r, path_created(r), id, z)
    BY <1>1 DEF Effect
  <2>2. CreateError(s, r) = "ZOK" /\ r \in CreateRequest
    BY <1>1, SubRequestKinds DEF SubRequestError
  <2>3. /\ parentPath(r.path) \in DOMAIN container
        /\ path_created(r) \notin DOMAIN container
    BY <2>2, PathCreated
  <2>4. u.op = "Create" /\ u.acl_id = id
    BY <1>1 DEF UndoRecord
  <2> HIDE DEF id, u
  <2>5. Gained(container, Effect(s, r, z).container, id)
    BY <1>0, <2>1, <2>3, CreatedGains
  <2>6. Matched(u, container, Effect(s, r, z).container)
    BY <2>4, <2>5 DEF Matched
  <2> QED BY <2>6 DEF u
<1>2. CASE r.op = "Remove"
  <2>1. Effect(s, r, z) = Removed(tree, r) /\ RemoveError(r) = "ZOK"
    BY <1>2 DEF Effect, SubRequestError
  <2>2. r.path \in DOMAIN container
    BY <2>1 DEF RemoveError, exists
  <2>3. u.op = "Remove" /\ u.prev_node = container[r.path]
    BY <1>2 DEF UndoRecord
  <2> HIDE DEF u
  <2>4. Gained(Effect(s, r, z).container, container, container[r.path].acl_id)
    BY <1>0, <2>1, <2>2, RemovedLoses
  <2>5. Matched(u, container, Effect(s, r, z).container)
    BY <2>3, <2>4 DEF Matched
  <2> QED BY <2>5 DEF u
<1>3. CASE r.op = "Set"
  <2>1. Effect(s, r, z) = Changed(tree, r, z) /\ SetError(r) = "ZOK"
    BY <1>3 DEF Effect, SubRequestError
  <2>2. r.path \in DOMAIN container
    BY <2>1 DEF SetError, exists
  <2>3. u.op = "Set"
    BY <1>3 DEF UndoRecord
  <2> HIDE DEF u
  <2>4. SameIds(container, Effect(s, r, z).container)
    BY <1>0, <2>1, <2>2, ChangedSameIds
  <2>5. Matched(u, container, Effect(s, r, z).container)
    BY <2>3, <2>4 DEF Matched
  <2> QED BY <2>5 DEF u
<1>4. CASE r.op = "Check"
  <2>1. Effect(s, r, z) = tree /\ u.op = "Check"
    BY <1>4 DEF Effect, UndoRecord
  <2> HIDE DEF u
  <2>2. Matched(u, container, Effect(s, r, z).container)
    BY <1>0, <2>1 DEF Matched, SameIds
  <2> QED BY <2>2 DEF u
<1> QED BY <1>1, <1>2, <1>3, <1>4, SubRequestKinds

\* One more node, with the number id, is at most one assignment of id.
LEMMA GainedAssigned ==
    ASSUME NEW c, NEW d, NEW id, Gained(c, d, id)
    PROVE  Assigned(c, d, id)
<1>1. PICK p \in DOMAIN d :
          /\ DOMAIN d = DOMAIN c \cup {p} /\ d[p].acl_id = id
          /\ \A q \in DOMAIN c : d[q].acl_id = c[q].acl_id
  BY DEF Gained
<1>2. \A q \in DOMAIN d :
          \/ q \in DOMAIN c /\ d[q].acl_id = c[q].acl_id
          \/ q = p /\ d[q].acl_id = id
  BY <1>1
<1> QED BY <1>1, <1>2 DEF Assigned

\* A sub-request that succeeds keeps the users counted.
LEMMA EffectCounted ==
    ASSUME AclOK(acl_map), Counted(container, acl_map), NEW s,
           NEW r \in SubRequest, NEW d, Matched(UndoRecord(s, r), container, d)
    PROVE  Counted(d, Usage(s, r))
<1> DEFINE u == UndoRecord(s, r)
<1>1. CASE r.op = "Create"
  <2> DEFINE a == node_acls(s, r)
             id == ACLNumber(acl_map, a)
             m == convertACLs(acl_map, a)
  <2>1. Usage(s, r) = addUsage(m, id) /\ u.op = "Create" /\ u.acl_id = id
    BY <1>1 DEF Usage, UndoRecord
  <2>2. Assigned(container, d, id)
    BY <2>1, GainedAssigned DEF Matched
  <2> HIDE DEF a
  <2>3. AclOK(m) /\ id \in Nat /\ Counted(container, m)
    BY ConvertType, ConvertCounted
  <2> HIDE DEF m, id, u
  <2> QED BY <2>1, <2>2, <2>3, AddCounted
<1>2. CASE r.op = "Remove"
  <2> DEFINE id == container[r.path].acl_id
  <2>1. /\ Usage(s, r) = removeUsage(acl_map, id)
        /\ u.op = "Remove" /\ u.prev_node.acl_id = id
    BY <1>2 DEF Usage, UndoRecord
  <2>2. Gained(d, container, id)
    BY <2>1 DEF Matched
  <2> HIDE DEF id, u
  <2> QED BY <2>1, <2>2, RemoveCounted
<1>3. CASE r.op \in {"Set", "Check"}
  <2>1. Usage(s, r) = acl_map /\ u.op \in {"Set", "Check"}
    BY <1>3 DEF Usage, UndoRecord
  <2>2. Fewer(container, d)
    BY <2>1 DEF Matched, SameIds, Fewer
  <2> HIDE DEF u
  <2> QED BY <2>1, <2>2, FewerCounted
<1> QED BY <1>1, <1>2, <1>3, SubRequestKinds

\* So does an undo closure.
LEMMA UndoneCounted ==
    ASSUME AclOK(acl_map), Counted(container, acl_map), NEW u, NEW c,
           Matched(u, c, container),
           u.op = "Remove" => u.prev_node.acl_id \in Nat
    PROVE  Counted(c, UndoneUsage(u))
<1>1. CASE u.op = "Create"
  <2>1. UndoneUsage(u) = removeUsage(acl_map, u.acl_id)
    BY <1>1 DEF UndoneUsage
  <2>2. Gained(c, container, u.acl_id)
    BY <1>1 DEF Matched
  <2> QED BY <2>1, <2>2, RemoveCounted
<1>2. CASE u.op = "Remove"
  <2>1. UndoneUsage(u) = addUsage(acl_map, u.prev_node.acl_id)
    BY <1>2 DEF UndoneUsage
  <2>2. Assigned(container, c, u.prev_node.acl_id)
    BY <1>2, GainedAssigned DEF Matched
  <2> QED BY <1>2, <2>1, <2>2, AddCounted
<1>3. CASE u.op \notin {"Create", "Remove"}
  <2>1. UndoneUsage(u) = acl_map
    BY <1>3 DEF UndoneUsage
  <2>2. Fewer(container, c)
    BY <1>3 DEF Matched, SameIds, Fewer
  <2> QED BY <2>1, <2>2, FewerCounted
<1> QED BY <1>1, <1>2, <1>3

-----------------------------------------------------------------------------
\* The last name of p is one that a sequential create makes.
Numbered(p) == \E base \in BaseName, n \in Int : getBaseName(p) = SeqName(base, n)

\* Between the containers c and d nothing that a watch could miss has happened
\* to nodes outside P, nor to the children of nodes outside L.
OnlyAt(c, d, P, L) ==
    /\ \A p : p \notin P /\ ~Numbered(p) => untouched(p, c, d)
    /\ \A p \in DOMAIN c : p \notin L => /\ p \in DOMAIN d
                                         /\ c[p].children = d[p].children

\* Nothing happens between a container and itself.
LEMMA OnlyAtItself ==
    ASSUME NEW c, NEW P, NEW L
    PROVE  OnlyAt(c, c, P, L)
BY DEF OnlyAt, untouched

\* Steps in sequence, and within larger sets.
LEMMA OnlyAtComposes ==
    ASSUME NEW b, NEW c, NEW d, NEW P, NEW L, NEW Q, NEW M,
           OnlyAt(b, c, P, L), OnlyAt(c, d, Q, M), Q \subseteq P, M \subseteq L
    PROVE  OnlyAt(b, d, P, L)
<1>1. ASSUME NEW p, p \notin P, ~Numbered(p)
      PROVE  untouched(p, b, d)
  <2>1. untouched(p, b, c) /\ untouched(p, c, d)
    BY <1>1 DEF OnlyAt
  <2> QED BY <2>1 DEF untouched
<1>2. ASSUME NEW p \in DOMAIN b, p \notin L
      PROVE  p \in DOMAIN d /\ b[p].children = d[p].children
  <2>1. p \in DOMAIN c /\ b[p].children = c[p].children
    BY <1>2 DEF OnlyAt
  <2> QED BY <1>2, <2>1 DEF OnlyAt
<1> QED BY <1>1, <1>2 DEF OnlyAt

\* The updates of the parent are none of its own data.
LEMMA ParentKeepsData ==
    ASSUME NEW node \in Node, NEW name, NEW z
    PROVE  /\ gainChild(node, name, z).czxid = node.czxid
           /\ gainChild(node, name, z).mzxid = node.mzxid
           /\ loseChild(node, name).czxid = node.czxid
           /\ loseChild(node, name).mzxid = node.mzxid
BY DEF gainChild, withChild, loseChild, withoutChild, Node

\* A Create: the new node, and the children of its parent.
LEMMA CreatedOnlyAt ==
    ASSUME NEW t, IsTree(t), NEW s, NEW r, NEW path, NEW acl_id, NEW z,
           parentPath(r.path) \in DOMAIN t.container,
           path \notin DOMAIN t.container, NEW P, path \in P \/ Numbered(path)
    PROVE  OnlyAt(t.container, Created(t, s, r, path, acl_id, z).container,
                  P, {parentPath(r.path)})
<1> DEFINE c == t.container
           pp == parentPath(r.path)
           node == NewNode(acl_id, IF r.is_ephemeral THEN s ELSE 0, z)
           par == gainChild(c[pp], getBaseName(path), z)
           d == Put(Put(c, path, node), pp, par)
<1>1. Created(t, s, r, path, acl_id, z).container = d
  BY DEF Created
<1>2. par.czxid = c[pp].czxid /\ par.mzxid = c[pp].mzxid
  <2>1. c[pp] \in Node
    BY DEF IsTree, ContainerOK, IsContainer
  <2> HIDE DEF c, pp
  <2> QED BY <2>1, ParentKeepsData, SMT
<1> HIDE DEF node, par
<1>3. /\ DOMAIN d = DOMAIN c \cup {path}
      /\ \A p \in DOMAIN c : d[p] = IF p = pp THEN par ELSE c[p]
  BY DEF Put
<1> HIDE DEF d
<1>4. ASSUME NEW p, p \notin P, ~Numbered(p)
      PROVE  untouched(p, c, d)
  <2>1. p # path
    BY <1>4
  <2> QED BY <1>2, <1>3, <2>1 DEF untouched
<1>5. ASSUME NEW p \in DOMAIN c, p \notin {pp}
      PROVE  p \in DOMAIN d /\ c[p].children = d[p].children
  BY <1>3, <1>5
<1> QED BY <1>1, <1>4, <1>5 DEF OnlyAt

\* A Remove: the node, and the children of its parent.
LEMMA RemovedOnlyAt ==
    ASSUME NEW t, IsTree(t), NEW r, r.path \in DOMAIN t.container
    PROVE  OnlyAt(t.container, Removed(t, r).container,
                  {r.path}, {r.path, parentPath(r.path)})
<1> DEFINE c == t.container
           path == r.path
           pp == parentPath(path)
           par == loseChild(c[pp], getBaseName(path))
           d == Drop(Put(c, pp, par), path)
<1>1. Removed(t, r).container = d
  BY DEF Removed
<1>2. c \in [DOMAIN c -> Node] /\ pp \in DOMAIN c
  BY DEF IsTree, ContainerOK, IsContainer, WellLinked, parentPath
<1>3. par.czxid = c[pp].czxid /\ par.mzxid = c[pp].mzxid
  BY <1>2, ParentKeepsData
<1> HIDE DEF par
<1>4. /\ DOMAIN d = DOMAIN c \ {path}
      /\ \A p \in DOMAIN d : d[p] = IF p = pp THEN par ELSE c[p]
  BY <1>2 DEF Put, Drop
<1> HIDE DEF d
<1>5. ASSUME NEW p, p # path
      PROVE  untouched(p, c, d)
  BY <1>3, <1>4, <1>5 DEF untouched
<1>6. ASSUME NEW p \in DOMAIN c, p \notin {path, pp}
      PROVE  p \in DOMAIN d /\ c[p].children = d[p].children
  BY <1>4, <1>6
<1> QED BY <1>1, <1>5, <1>6 DEF OnlyAt

\* A Set: the node.
LEMMA ChangedOnlyAt ==
    ASSUME NEW t, IsTree(t), NEW r, r.path \in DOMAIN t.container, NEW z
    PROVE  OnlyAt(t.container, Changed(t, r, z).container, {r.path}, {})
<1> DEFINE c == t.container
           path == r.path
           pp == parentPath(path)
           new == [c[path] EXCEPT !.version = @ + 1, !.mzxid = z]
           m == Put(c, path, new)
           par == [m[pp] EXCEPT !.cversion = @ + 1]
           d == Put(m, pp, par)
           counted(x, y) == /\ y.czxid = x.czxid /\ y.mzxid = x.mzxid
                            /\ y.children = x.children
<1>1. Changed(t, r, z).container = d
  BY DEF Changed
<1>2. c \in [DOMAIN c -> Node] /\ pp \in DOMAIN c /\ c[path] \in Node
  BY SMT DEF IsTree, ContainerOK, IsContainer, WellLinked, parentPath
<1>3. /\ new.children = c[path].children
      /\ counted(new, [new EXCEPT !.cversion = @ + 1])
      /\ \A p \in DOMAIN c : counted(c[p], [c[p] EXCEPT !.cversion = @ + 1])
  BY <1>2 DEF Node
<1> HIDE DEF new
<1>4. /\ DOMAIN m = DOMAIN c
      /\ \A p \in DOMAIN c : m[p] = IF p = path THEN new ELSE c[p]
  BY <1>2 DEF Put
<1> HIDE DEF m
<1>5. counted(m[pp], par)
  BY <1>2, <1>3, <1>4
<1> HIDE DEF par
<1>6. /\ DOMAIN d = DOMAIN c
      /\ \A p \in DOMAIN c : d[p] = IF p = pp THEN par ELSE m[p]
  BY <1>2, <1>4 DEF Put
<1> HIDE DEF d
<1>7. \A p \in DOMAIN c : counted(m[p], d[p])
  BY <1>5, <1>6
<1>8. ASSUME NEW p, p # path
      PROVE  untouched(p, c, d)
  BY <1>4, <1>6, <1>7, <1>8 DEF untouched
<1>9. \A p \in DOMAIN c : p \in DOMAIN d /\ c[p].children = d[p].children
  BY <1>3, <1>4, <1>6, <1>7
<1> QED BY <1>1, <1>8, <1>9 DEF OnlyAt

\* Close: the nodes of the session, and the children of their parents.
LEMMA ClosedOnlyAt ==
    ASSUME NEW t, IsTree(t), NEW s
    PROVE  LET own == owned(t, s)
           IN  OnlyAt(t.container, Closed(t, s).container,
                      own, own \cup {parentPath(e) : e \in own})
<1> DEFINE c == t.container
           d == Closed(t, s).container
           own == owned(t, s)
<1>1. DOMAIN d = DOMAIN c \ own
  BY DEF Closed
<1>2. ASSUME NEW p \in DOMAIN d
      PROVE  /\ d[p].czxid = c[p].czxid /\ d[p].mzxid = c[p].mzxid
             /\ d[p].children = c[p].children \ ownedBelow(t, s, p)
  <2> DEFINE names == ownedBelow(t, s, p)
  <2>1. d[p] = [c[p] EXCEPT !.children = @ \ names,
                            !.numChildren = @ - Cardinality(names),
                            !.cversion = @ + Cardinality(names)]
    BY <1>2, Zenon DEF Closed
  <2>2. c[p] \in Node
    BY <1>1, <1>2 DEF IsTree, ContainerOK, IsContainer
  <2> HIDE DEF d, names
  <2>3. /\ d[p].czxid = c[p].czxid /\ d[p].mzxid = c[p].mzxid
        /\ d[p].children = c[p].children \ names
    BY <2>1, <2>2 DEF Node
  <2> QED BY <2>3 DEF names
<1> HIDE DEF d
<1>3. ASSUME NEW p, p \notin own
      PROVE  untouched(p, c, d)
  BY <1>1, <1>2, <1>3 DEF untouched
<1>4. ASSUME NEW p \in DOMAIN c, p \notin own \cup {parentPath(e) : e \in own}
      PROVE  p \in DOMAIN d /\ c[p].children = d[p].children
  <2>1. ownedBelow(t, s, p) = {}
    BY <1>4 DEF ownedBelow
  <2>2. p \in DOMAIN d
    BY <1>1, <1>4
  <2>3. d[p].children = c[p].children \ ownedBelow(t, s, p)
    BY <1>2, <2>2
  <2> QED BY <2>1, <2>2, <2>3
<1>5. OnlyAt(c, d, own, own \cup {parentPath(e) : e \in own})
  BY <1>3, <1>4 DEF OnlyAt
<1> QED BY <1>5 DEF d

\* The path of a sequential create ends in a number.
LEMMA NumberedPath ==
    ASSUME IsTree(tree), NEW r \in CreateRequest, WellFormed(r), NEW s,
           CreateError(s, r) = "ZOK", r.is_sequential
    PROVE  Numbered(path_created(r))
<1> DEFINE pp == parentPath(r.path)
           base == getBaseName(r.path)
           n == container[pp].seq_num
<1>1. path_created(r) = Append(pp, SeqName(base, n))
  BY DEF path_created
<1>2. r.path # Root /\ base \in BaseName /\ r.path \in Path
  BY DEF WellFormed, CreateRequest
<1>3. pp \in DOMAIN container
  BY PathCreated
<1>4. pp \in Path /\ n \in Int
  BY <1>2, <1>3, ParentPath DEF IsTree, ContainerOK, IsContainer, tree, Node
<1>5. SeqName(base, n) \in Component
  BY <1>2, <1>4 DEF SeqName, Component
<1> HIDE DEF pp, base, n
<1>6. getBaseName(Append(pp, SeqName(base, n))) = SeqName(base, n)
  BY <1>4, <1>5, AppendPath
<1> QED BY <1>1, <1>2, <1>4, <1>6 DEF Numbered

\* A sub-request that succeeds: what processWatches() will look for.
LEMMA EffectOnlyAt ==
    ASSUME IsTree(tree), NEW s, NEW r \in SubRequest, WellFormed(r),
           SubRequestError(s, r) = "ZOK", NEW z
    PROVE  OnlyAt(container, Effect(s, r, z).container,
                  watchedPaths(r), listWatchedPaths(r))
<1>0. tree.container = container
  BY DEF tree
<1>1. CASE r.op = "Create"
  <2> DEFINE id == ACLNumber(acl_map, node_acls(s, r))
             path == path_created(r)
  <2>1. Effect(s, r, z) = Created(tree, s, r, path, id, z)
    BY <1>1 DEF Effect
  <2>2. CreateError(s, r) = "ZOK" /\ r \in CreateRequest
    BY <1>1, SubRequestKinds DEF SubRequestError
  <2>3. parentPath(r.path) \in DOMAIN container /\ path \notin DOMAIN container
    BY <2>2, PathCreated
  <2>4. /\ watchedPaths(r) = {r.path}
        /\ listWatchedPaths(r) = {parentPath(r.path)}
    BY <1>1 DEF watchedPaths, listWatchedPaths
  <2>5. path \in {r.path} \/ Numbered(path)
    <3>1. CASE ~r.is_sequential
      BY <3>1 DEF path_created
    <3>2. CASE r.is_sequential
      BY <2>2, <3>2, NumberedPath
    <3> QED BY <3>1, <3>2
  <2> HIDE DEF id, path
  <2>6. OnlyAt(container, Effect(s, r, z).container, {r.path},
               {parentPath(r.path)})
    BY <1>0, <2>1, <2>3, <2>5, CreatedOnlyAt
  <2> QED BY <2>4, <2>6
<1>2. CASE r.op = "Remove"
  <2>1. Effect(s, r, z) = Removed(tree, r) /\ RemoveError(r) = "ZOK"
    BY <1>2 DEF Effect, SubRequestError
  <2>2. r.path \in DOMAIN container
    BY <2>1 DEF RemoveError, exists
  <2>3. /\ watchedPaths(r) = {r.path}
        /\ listWatchedPaths(r) = {r.path, parentPath(r.path)}
    BY <1>2 DEF watchedPaths, listWatchedPaths
  <2> QED BY <1>0, <2>1, <2>2, <2>3, RemovedOnlyAt
<1>3. CASE r.op = "Set"
  <2>1. Effect(s, r, z) = Changed(tree, r, z) /\ SetError(r) = "ZOK"
    BY <1>3 DEF Effect, SubRequestError
  <2>2. r.path \in DOMAIN container
    BY <2>1 DEF SetError, exists
  <2>3. watchedPaths(r) = {r.path} /\ listWatchedPaths(r) = {}
    BY <1>3 DEF watchedPaths, listWatchedPaths
  <2> QED BY <1>0, <2>1, <2>2, <2>3, ChangedOnlyAt
<1>4. CASE r.op = "Check"
  <2>1. Effect(s, r, z) = tree
    BY <1>4 DEF Effect
  <2> QED BY <1>0, <2>1, OnlyAtItself
<1> QED BY <1>1, <1>2, <1>3, <1>4, SubRequestKinds
=============================================================================
