------------------------- MODULE KeeperStorageProofs -------------------------
(***************************************************************************)
(* The invariants of KeeperStorage.tla hold for every set of names, any    *)
(* set of requests, any number of sessions and any length of the log.      *)
(*                                                                         *)
(* The inductive invariant adds to the invariants of the model that sets   *)
(* of children are finite, that "/" is owned by no session, and UndoChain: *)
(* the newest undo closure of a running multi would take the present tree  *)
(* to the one its sub-request found, the next one would take that tree to  *)
(* an earlier one, and so on back to the tree before the multi.            *)
(*                                                                         *)
(* finalize() leaves an inconsistent tree on purpose (the process is about *)
(* to end), so the invariant is stated for the time before it.  RootKept   *)
(* is a hypothesis about the requests: no multi removes or sets "/".       *)
(*                                                                         *)
(* VersionsAdvance: a multi runs under one zxid.  While it runs, its       *)
(* half-made container and every container its undo closures lead back to  *)
(* are later states of the container before the multi, whose zxids are all *)
(* smaller.  A failed multi hence cannot hand out a version twice,         *)
(* wherever it stops.                                                      *)
(*                                                                         *)
(* ACLUsageCounted: the undo closures capture the ACL numbers of the very  *)
(* nodes that their sub-requests added or removed.                         *)
(*                                                                         *)
(* WatchedChangesNotify: a multi changes the container only at the paths   *)
(* whose watches are triggered at its end.                                 *)
(***************************************************************************)
EXTENDS KeeperTreeProofs

\* Most steps are about sets and functions; those with arithmetic, sequences
\* or records say which other prover they need.
USE Zenon

\* Within a multi, "/" is neither removed nor set.
KeepsRoot(r) == r.op \in {"Remove", "Set"} => r.path # Root

\* The hypothesis of the theorems, about the multis clients send.
RootKept ==
    \A r \in Requests :
        r.op = "Multi" => \A i \in DOMAIN r.requests : KeepsRoot(r.requests[i])

\* The type invariant without the tree, the ACL table and the multi.
OthersOK ==
    /\ watches \subseteq Path \X Nat
    /\ list_watches \subseteq Path \X Nat
    /\ sessions_and_watchers \subseteq Nat \X Path
    /\ DOMAIN session_and_timeout \subseteq IssuedSession
    /\ session_and_timeout \in [DOMAIN session_and_timeout -> Nat]
    /\ session_expiry_queue \subseteq IssuedSession
    /\ session_and_auth \subseteq Nat \X (AuthID \cup {SuperID})
    /\ session_id_counter \in Nat \ {0}
    /\ zxid \in Nat
    /\ finalized \in BOOLEAN
    /\ thrown \in Exceptions

\* What NothingOutlivesItsSession and WatchesTracked say.
SessionsOK ==
    /\ \A e \in ephemerals : e[1] \in session_expiry_queue
    /\ \A w \in watches \cup list_watches :
           /\ w[2] \in session_expiry_queue
           /\ <<w[2], w[1]>> \in sessions_and_watchers
    /\ \A x \in session_and_auth : x[1] \in session_expiry_queue

\* An entry of the undo list: the recorded tree is one, its owners are
\* registered, and a removed node had an ACL number.
EntryOK(x, queue) ==
    /\ x.was = [container |-> x.was.container, ephemerals |-> x.was.ephemerals]
    /\ IsTree(x.was)
    /\ \A e \in x.was.ephemerals : e[1] \in queue
    /\ x.record.op = "Remove" => x.record.prev_node.acl_id \in Nat

\* Each closure takes the tree it will meet to the tree recorded with it, the
\* oldest one to the tree before the multi.
UndoChain ==
    LET u == multi.undo
        n == Len(u)
    IN  /\ n = 0 => tree = multi.before
        /\ n > 0 => /\ Undone(tree, u[1].record) = u[1].was
                    /\ u[n].was = multi.before
        /\ \A i \in 1 .. n - 1 : Undone(u[i].was, u[i + 1].record) = u[i + 1].was

\* The type of a running multi; S holds whatever the undo list holds.
MultiShape ==
    \E S : multi \in [phase : {"run", "undo"}, session : IssuedSession,
                      requests : Seq(SubRequest), done : Nat, undo : Seq(S),
                      before : S]

\* A multi is running.
MultiRunning ==
    /\ MultiShape
    /\ multi.done <= Len(multi.requests)
    /\ multi.session \in session_expiry_queue
    /\ \A i \in 1 .. Len(multi.requests) :
           WellFormed(multi.requests[i]) /\ KeepsRoot(multi.requests[i])
    /\ \A i \in 1 .. Len(multi.undo) :
           EntryOK(multi.undo[i], session_expiry_queue)
    /\ UndoChain

MultiOK == multi = NoMulti \/ MultiRunning

\* The inductive invariant, as long as finalize() has not been called.
LiveInv == OthersOK /\ AclOK(acl_map) /\ IsTree(tree) /\ SessionsOK /\ MultiOK

IInv == ~finalized => LiveInv

\* The inductive invariant implies the invariants of the model.
LEMMA LiveInvImplies ==
    ASSUME LiveInv
    PROVE  TypeOK /\ TreeConsistent /\ EphemeralsConsistent
           /\ NothingOutlivesItsSession /\ WatchesTracked /\ FailedMultiRestores
<1> USE DEF LiveInv
<1>1. /\ multi.phase \in {"none", "run", "undo"}
      /\ multi.phase = "none" <=> multi = NoMulti
      /\ multi.phase # "none" =>
           /\ multi.session \in IssuedSession
           /\ multi.requests \in Seq(SubRequest)
           /\ multi.done \in 0 .. Len(multi.requests)
  <2>1. CASE multi = NoMulti
    BY <2>1 DEF NoMulti
  <2>2. CASE MultiRunning
    <3>1. PICK S : multi \in [phase : {"run", "undo"}, session : IssuedSession,
                      requests : Seq(SubRequest), done : Nat, undo : Seq(S),
                      before : S]
      BY <2>2 DEF MultiRunning, MultiShape
    <3>2. multi # NoMulti
      <4>1. NoMulti.phase = "none" /\ multi.phase \in {"run", "undo"}
        BY <3>1 DEF NoMulti
      <4> QED BY <4>1
    <3> QED BY <2>2, <3>1, <3>2, SMT DEF MultiRunning
  <2> QED BY <2>1, <2>2 DEF MultiOK
<1>2. TypeOK
  BY <1>1 DEF TypeOK, OthersOK, AclOK, IsTree, ContainerOK, IsContainer, tree
<1>3. TreeConsistent
  BY DEF TreeConsistent, IsTree, ContainerOK, tree
<1>4. EphemeralsConsistent
  BY DEF EphemeralsConsistent, IsTree
<1>5. NothingOutlivesItsSession /\ WatchesTracked
  BY DEF NothingOutlivesItsSession, WatchesTracked, SessionsOK
<1>6. FailedMultiRestores
  <2>1. SUFFICES ASSUME multi.phase = "undo", multi.undo = <<>>
                 PROVE  tree = multi.before
    BY DEF FailedMultiRestores
  <2>2. MultiRunning
    BY <2>1, SMT DEF MultiOK, NoMulti
  <2> QED BY <2>1, <2>2 DEF MultiRunning, UndoChain
<1> QED BY <1>2, <1>3, <1>4, <1>5, <1>6

\* The invariant holds in a freshly constructed KeeperStorage.
LEMMA InitEstablishes == Init => LiveInv
<1> SUFFICES ASSUME Init PROVE LiveInv
  OBVIOUS
<1> USE DEF Init
<1>1. OthersOK
  <2>1. /\ watches = {} /\ list_watches = {} /\ sessions_and_watchers = {}
        /\ session_expiry_queue = {} /\ session_and_auth = {}
        /\ session_id_counter = 1 /\ zxid = 0
        /\ finalized = FALSE /\ thrown = "never"
        /\ session_and_timeout = <<>>
    OBVIOUS
  <2>2. DOMAIN session_and_timeout = {} /\ session_and_timeout \in [{} -> Nat]
    BY <2>1, SMT
  <2>3. finalized \in BOOLEAN /\ thrown \in Exceptions
    BY <2>1 DEF Exceptions
  <2>4. /\ watches \subseteq Path \X Nat
        /\ list_watches \subseteq Path \X Nat
        /\ sessions_and_watchers \subseteq Nat \X Path
        /\ session_and_auth \subseteq Nat \X (AuthID \cup {SuperID})
        /\ session_expiry_queue \subseteq IssuedSession
    BY <2>1
  <2>5. session_id_counter \in Nat \ {0} /\ zxid \in Nat
    BY <2>1, SMT
  <2>6. DOMAIN session_and_timeout \subseteq IssuedSession
        /\ session_and_timeout \in [DOMAIN session_and_timeout -> Nat]
    BY <2>2
  <2> HIDE DEF Init
  <2> QED BY <2>3, <2>4, <2>5, <2>6 DEF OthersOK
<1>2. AclOK(acl_map)
  BY SMT DEF AclOK, EmptyACLMap
<1>3. IsTree(tree)
  <2>1. /\ tree.container = container /\ tree.ephemerals = {}
    BY DEF tree
  <2>2. NewNode(0, 0, 0) \in Node
    BY NewNodeType
  <2>3. /\ DOMAIN container = {Root} /\ container[Root] = NewNode(0, 0, 0)
        /\ container \in [DOMAIN container -> Node]
    BY <2>2
  <2>4. /\ NewNode(0, 0, 0).children = {} /\ NewNode(0, 0, 0).numChildren = 0
        /\ NewNode(0, 0, 0).ephemeralOwner = 0
    BY DEF NewNode
  <2>5. Root \in Path
    BY SMT DEF Root, Path
  <2>6. ContainerOK(container)
    BY <2>3, <2>4, <2>5, FS_EmptySet
       DEF ContainerOK, IsContainer, WellLinked, FiniteChildren
  <2>7. WellIndexed(tree)
    BY <2>1, <2>3, <2>4 DEF WellIndexed
  <2> QED BY <2>1, <2>6, <2>7 DEF IsTree
<1>4. SessionsOK
  BY DEF SessionsOK
<1>5. MultiOK
  BY DEF MultiOK
<1> QED BY <1>1, <1>2, <1>3, <1>4, <1>5 DEF LiveInv

-----------------------------------------------------------------------------
\* A request registers its session for expiry (KeeperStorage.cpp:1081).
LEMMA Touched ==
    ASSUME OthersOK, NEW s \in IssuedSession, Read(s),
           session_id_counter' = session_id_counter
    PROVE  /\ zxid' \in Nat
           /\ DOMAIN session_and_timeout' \subseteq IssuedSession'
           /\ session_and_timeout' \in [DOMAIN session_and_timeout' -> Nat]
           /\ session_expiry_queue' = session_expiry_queue \cup {s}
           /\ session_expiry_queue' \subseteq IssuedSession'
           /\ multi = NoMulti
           /\ s \in Nat \ {0}
<1>1. s \in Nat \ {0} /\ IssuedSession' = IssuedSession
  BY SMT DEF OthersOK, IssuedSession
<1>2. zxid' \in Nat /\ multi = NoMulti
  BY SMT DEF OthersOK, Read, Committed, Idle
<1>3. touch(s)
  BY DEF Read, Committed
<1>4. Get(session_and_timeout, s, 0) \in Nat
  BY DEF Get, OthersOK
<1>5. /\ DOMAIN session_and_timeout' \subseteq IssuedSession
      /\ session_and_timeout' \in [DOMAIN session_and_timeout' -> Nat]
  BY <1>3, <1>4 DEF touch, Put, OthersOK
<1>6. /\ session_expiry_queue' = session_expiry_queue \cup {s}
      /\ session_expiry_queue' \subseteq IssuedSession
  BY <1>3 DEF touch, OthersOK
<1> QED BY <1>1, <1>2, <1>5, <1>6

\* The session s of a request is registered and may come to own something.
LEMMA SessionsGrow ==
    ASSUME SessionsOK, NEW s, 
           session_expiry_queue' = session_expiry_queue \cup {s},
           \A e \in ephemerals' : e \in ephemerals \/ e[1] = s,
           \A w \in watches' \cup list_watches' :
               \/ w \in watches \cup list_watches
               \/ w[2] = s /\ <<w[2], w[1]>> \in sessions_and_watchers',
           sessions_and_watchers \subseteq sessions_and_watchers',
           \A x \in session_and_auth' : x \in session_and_auth \/ x[1] = s
    PROVE  SessionsOK'
BY DEF SessionsOK

\* Requests that leave the tree and the ACL table alone.
LEMMA TreeUnchanged ==
    ASSUME AclOK(acl_map), IsTree(tree), UNCHANGED treeVars
    PROVE  AclOK(acl_map)' /\ IsTree(tree)' /\ tree' = tree /\ ephemerals' = ephemerals
<1>1. tree' = tree /\ acl_map' = acl_map /\ ephemerals' = ephemerals
  BY DEF treeVars, tree
<1> QED BY <1>1

\* A read with has_watch leaves a watch and lists it under its session.
LEMMA WatchAdded ==
    ASSUME OthersOK, NEW s \in Nat, NEW r \in ReadRequest,
           IF r.has_watch THEN addWatch(s, r) ELSE UNCHANGED watchVars
    PROVE  /\ watches' \subseteq Path \X Nat
           /\ list_watches' \subseteq Path \X Nat
           /\ sessions_and_watchers' \subseteq Nat \X Path
           /\ \A w \in watches' \cup list_watches' :
               \/ w \in watches \cup list_watches
               \/ w[2] = s /\ <<w[2], w[1]>> \in sessions_and_watchers'
           /\ sessions_and_watchers \subseteq sessions_and_watchers'
<1>1. r.path \in Path
  BY DEF ReadRequest
<1>2. CASE addWatch(s, r)
  BY <1>1, <1>2, SMT DEF addWatch, OthersOK
<1>3. CASE UNCHANGED watchVars
  BY <1>3 DEF watchVars, OthersOK
<1> QED BY <1>2, <1>3

\* Requests that leave the watches alone.
LEMMA WatchesKept ==
    ASSUME OthersOK, UNCHANGED watchVars, NEW s
    PROVE  /\ watches' \subseteq Path \X Nat
           /\ list_watches' \subseteq Path \X Nat
           /\ sessions_and_watchers' \subseteq Nat \X Path
           /\ \A w \in watches' \cup list_watches' :
               \/ w \in watches \cup list_watches
               \/ w[2] = s /\ <<w[2], w[1]>> \in sessions_and_watchers'
           /\ sessions_and_watchers \subseteq sessions_and_watchers'
BY DEF OthersOK, watchVars

\* processWatches only takes watches away.
LEMMA WatchesProcessed ==
    ASSUME OthersOK, NEW rs, processWatches(rs), NEW s
    PROVE  /\ watches' \subseteq Path \X Nat
           /\ list_watches' \subseteq Path \X Nat
           /\ sessions_and_watchers' \subseteq Nat \X Path
           /\ \A w \in watches' \cup list_watches' :
               \/ w \in watches \cup list_watches
               \/ w[2] = s /\ <<w[2], w[1]>> \in sessions_and_watchers'
           /\ sessions_and_watchers \subseteq sessions_and_watchers'
<1>1. /\ watches' \subseteq watches /\ list_watches' \subseteq list_watches
      /\ sessions_and_watchers' = sessions_and_watchers
  BY DEF processWatches
<1> QED BY <1>1 DEF OthersOK

\* The part of the type invariant that is about neither the tree nor the ACLs.
LEMMA OthersFrame ==
    ASSUME OthersOK,
           zxid' \in Nat,
           DOMAIN session_and_timeout' \subseteq IssuedSession',
           session_and_timeout' \in [DOMAIN session_and_timeout' -> Nat],
           session_expiry_queue' \subseteq IssuedSession',
           watches' \subseteq Path \X Nat,
           list_watches' \subseteq Path \X Nat,
           sessions_and_watchers' \subseteq Nat \X Path,
           session_and_auth' \subseteq Nat \X (AuthID \cup {SuperID}),
           session_id_counter' \in Nat \ {0},
           finalized' = finalized,
           thrown' \in Exceptions
    PROVE  OthersOK'
<1>1. finalized' \in BOOLEAN
  BY DEF OthersOK
<1> QED BY <1>1 DEF OthersOK

\* The only owner a sub-request can add is its own session.
LEMMA EffectOwners ==
    ASSUME NEW s, NEW r \in SubRequest, NEW z
    PROVE  \A e \in Effect(s, r, z).ephemerals : e \in ephemerals \/ e[1] = s
<1>1. CASE r.op = "Create"
  BY <1>1, SMT DEF Effect, Created, tree
<1>2. CASE r.op = "Remove"
  BY <1>2 DEF Effect, Removed, tree
<1>3. CASE r.op = "Set"
  BY <1>3 DEF Effect, Changed, tree
<1>4. CASE r.op = "Check"
  BY <1>4 DEF Effect, tree
<1> QED BY <1>1, <1>2, <1>3, <1>4, SubRequestKinds

\* A sub-request keeps the ACL table well-typed.
LEMMA UsageType ==
    ASSUME AclOK(acl_map), NEW s, NEW r \in SubRequest
    PROVE  AclOK(Usage(s, r))
<1>1. CASE r.op = "Create"
  <2> DEFINE a == node_acls(s, r)
  <2>1. Usage(s, r) = addUsage(convertACLs(acl_map, a), ACLNumber(acl_map, a))
    BY <1>1 DEF Usage
  <2> HIDE DEF a
  <2> QED BY <2>1, ConvertType, AddUsageType
<1>2. CASE r.op = "Remove"
  <2>1. Usage(s, r) = removeUsage(acl_map, container[r.path].acl_id)
    BY <1>2 DEF Usage
  <2> QED BY <2>1, RemoveUsageType
<1>3. CASE r.op \notin {"Create", "Remove"}
  BY <1>3 DEF Usage
<1> QED BY <1>1, <1>2, <1>3

\* The effect of a sub-request is a record of a container and an index.
LEMMA EffectFields ==
    ASSUME NEW s, NEW r \in SubRequest, NEW z
    PROVE  Effect(s, r, z) = [container |-> Effect(s, r, z).container,
                              ephemerals |-> Effect(s, r, z).ephemerals]
<1>1. CASE r.op = "Create"
  BY <1>1 DEF Effect, Created
<1>2. CASE r.op = "Remove"
  BY <1>2 DEF Effect, Removed
<1>3. CASE r.op = "Set"
  BY <1>3 DEF Effect, Changed
<1>4. CASE r.op = "Check"
  BY <1>4 DEF Effect, tree
<1> QED BY <1>1, <1>2, <1>3, <1>4, SubRequestKinds

-----------------------------------------------------------------------------
\* Requests that leave the tree alone.
LEMMA ReadPreserves ==
    ASSUME LiveInv, NEW s \in IssuedSession, NEW r \in Requests,
           ReadFound(s, r) \/ ExistsNot(s, r)
    PROVE  LiveInv'
<1> USE DEF LiveInv
<1>1. /\ Read(s) /\ UNCHANGED treeVars /\ multi' = multi
      /\ session_id_counter' = session_id_counter
      /\ session_and_auth' = session_and_auth
      /\ finalized' = finalized /\ thrown' = thrown
  BY DEF ReadFound, ExistsNot, otherVars
<1>2. \/ r \in ReadRequest /\ (IF r.has_watch THEN addWatch(s, r) ELSE UNCHANGED watchVars)
      \/ UNCHANGED watchVars
  BY RequestKinds DEF ReadFound, ExistsNot, isReadRequest
<1>3. s \in Nat
  BY <1>1, Touched
<1>4. /\ watches' \subseteq Path \X Nat
      /\ list_watches' \subseteq Path \X Nat
      /\ sessions_and_watchers' \subseteq Nat \X Path
      /\ \A w \in watches' \cup list_watches' :
          \/ w \in watches \cup list_watches
          \/ w[2] = s /\ <<w[2], w[1]>> \in sessions_and_watchers'
      /\ sessions_and_watchers \subseteq sessions_and_watchers'
  BY <1>2, <1>3, WatchAdded, WatchesKept
<1>5. thrown' \in Exceptions
  BY <1>1 DEF OthersOK
<1>6. session_and_auth' \subseteq Nat \X (AuthID \cup {SuperID})
      /\ session_id_counter' \in Nat \ {0}
  BY <1>1 DEF OthersOK
<1>7. OthersOK'
  BY <1>1, <1>4, <1>5, <1>6, Touched, OthersFrame
<1>8. SessionsOK'
  BY <1>1, <1>4, Touched, TreeUnchanged, SessionsGrow
<1>9. MultiOK'
  BY <1>1, Touched DEF MultiOK
<1> QED BY <1>1, <1>7, <1>8, <1>9, TreeUnchanged

\* Requests answered by an error or an exception, and heartbeats, preserve it.
LEMMA RefusalPreserves ==
    ASSUME LiveInv, NEW s \in IssuedSession, NEW r,
           Refused(s, r) \/ Throws(s, r) \/ MultiRefused(s, r) \/ Heartbeat(s)
    PROVE  LiveInv'
<1> USE DEF LiveInv
<1>1. /\ Read(s) /\ UNCHANGED treeVars /\ multi' = multi
      /\ session_id_counter' = session_id_counter
      /\ session_and_auth' = session_and_auth
      /\ finalized' = finalized /\ UNCHANGED watchVars
  BY DEF Refused, Throws, MultiRefused, Heartbeat, Read, otherVars
<1>2. thrown' \in Exceptions
  <2>1. CASE Refused(s, r) \/ Heartbeat(s)
    BY <2>1 DEF Refused, Heartbeat, otherVars, OthersOK
  <2>2. CASE Throws(s, r)
    <3>1. thrown' \in {"read", "commit"}
      BY <2>2 DEF Throws
    <3> QED BY <3>1 DEF Exceptions
  <2>3. CASE MultiRefused(s, r)
    <3>1. thrown' \in {"commit", thrown}
      BY <2>3 DEF MultiRefused
    <3> QED BY <3>1 DEF Exceptions, OthersOK
  <2> QED BY <2>1, <2>2, <2>3
<1>6. session_and_auth' \subseteq Nat \X (AuthID \cup {SuperID})
      /\ session_id_counter' \in Nat \ {0}
  BY <1>1 DEF OthersOK
<1>7. OthersOK'
  BY <1>1, <1>2, <1>6, Touched, WatchesKept, OthersFrame
<1>8. SessionsOK'
  BY <1>1, Touched, TreeUnchanged, WatchesKept, SessionsGrow
<1>9. MultiOK'
  BY <1>1, Touched DEF MultiOK
<1> QED BY <1>1, <1>7, <1>8, <1>9, TreeUnchanged

\* Auth preserves it.
LEMMA AuthPreserves ==
    ASSUME LiveInv, NEW s \in IssuedSession, NEW r \in Requests, Auth(s, r)
    PROVE  LiveInv'
<1> USE DEF LiveInv
<1>1. /\ Read(s) /\ UNCHANGED treeVars /\ multi' = multi
      /\ session_id_counter' = session_id_counter
      /\ finalized' = finalized /\ thrown' = thrown /\ UNCHANGED watchVars
  BY DEF Auth, Read
<1>2. thrown' \in Exceptions
  BY <1>1 DEF OthersOK
<1>3. /\ session_and_auth' \subseteq session_and_auth \cup {<<s, r.id>>}
      /\ r.id \in AuthID \cup {SuperID}
  BY RequestKinds DEF Auth, AuthRequest
<1>4. s \in Nat
  BY <1>1, Touched
<1>5. /\ session_and_auth' \subseteq Nat \X (AuthID \cup {SuperID})
      /\ session_id_counter' \in Nat \ {0}
      /\ \A x \in session_and_auth' : x \in session_and_auth \/ x[1] = s
  BY <1>1, <1>3, <1>4, SMT DEF OthersOK
<1>7. OthersOK'
  BY <1>1, <1>2, <1>5, Touched, WatchesKept, OthersFrame
<1>8. SessionsOK'
  BY <1>1, <1>5, Touched, TreeUnchanged, WatchesKept, SessionsGrow
<1>9. MultiOK'
  BY <1>1, Touched DEF MultiOK
<1> QED BY <1>1, <1>7, <1>8, <1>9, TreeUnchanged

\* getSessionID preserves it.
LEMMA SessionPreserves ==
    ASSUME LiveInv, NEW t \in SessionTimeout, getSessionID(t)
    PROVE  LiveInv'
<1> USE DEF LiveInv
<1>1. /\ UNCHANGED treeVars /\ UNCHANGED watchVars /\ multi = NoMulti /\ multi' = multi
      /\ session_and_auth' = session_and_auth
      /\ finalized' = finalized /\ thrown' = thrown /\ zxid' = zxid
  BY DEF getSessionID, Idle
<1>2. /\ session_id_counter' = session_id_counter + 1
      /\ session_id_counter \in Nat \ {0}
      /\ session_id_counter' \in Nat \ {0}
  BY SMT DEF getSessionID, OthersOK
<1>3. /\ session_id_counter \in IssuedSession'
      /\ IssuedSession \subseteq IssuedSession'
  BY <1>2, SMT DEF IssuedSession
<1>4. t \in Nat
  BY BoundsAssumption
<1>5. /\ DOMAIN session_and_timeout' \subseteq IssuedSession'
      /\ session_and_timeout' \in [DOMAIN session_and_timeout' -> Nat]
  BY <1>3, <1>4 DEF getSessionID, Put, OthersOK
<1>6. /\ session_expiry_queue' = session_expiry_queue \cup {session_id_counter}
      /\ session_expiry_queue' \subseteq IssuedSession'
  BY <1>3 DEF getSessionID, OthersOK
<1>7. OthersOK'
  <2>1. thrown' \in Exceptions /\ zxid' \in Nat
        /\ session_and_auth' \subseteq Nat \X (AuthID \cup {SuperID})
    BY <1>1 DEF OthersOK
  <2> QED BY <1>1, <1>2, <1>5, <1>6, <2>1, WatchesKept, OthersFrame
<1>8. SessionsOK'
  BY <1>1, <1>6, TreeUnchanged, WatchesKept, SessionsGrow
<1>9. MultiOK'
  BY <1>1 DEF MultiOK
<1> QED BY <1>1, <1>7, <1>8, <1>9, TreeUnchanged

-----------------------------------------------------------------------------
\* A single Create, Remove or Set preserves it.
LEMMA WritePreserves ==
    ASSUME LiveInv, NEW s \in IssuedSession, NEW r \in Requests, Write(s, r)
    PROVE  LiveInv'
<1> USE DEF LiveInv
<1>1. /\ Read(s) /\ multi' = multi
      /\ session_id_counter' = session_id_counter
      /\ session_and_auth' = session_and_auth
      /\ finalized' = finalized /\ thrown' = thrown
      /\ processWatches({r})
      /\ SubRequestError(s, r) = "ZOK"
      /\ SubRequestEffect(s, r, zxid')
  BY DEF Write, Read, otherVars
<1>2. r \in SubRequest /\ WellFormed(r)
  BY RequestKinds, RequestsAssumption DEF Write
<1>3. s \in Nat \ {0} /\ zxid' \in Nat
  BY <1>1, Touched
<1>4. tree' = Effect(s, r, zxid')
  BY <1>1, <1>2, EffectFields DEF SubRequestEffect, tree
<1>5. IsTree(tree)'
  <2>1. IsTree(Effect(s, r, zxid'))
    BY <1>1, <1>2, <1>3, EffectIsTree
  <2> QED BY <2>1, <1>4
<1>6. AclOK(acl_map)'
  BY <1>1, <1>2, UsageType DEF SubRequestEffect
<1>7. OthersOK'
  <2>1. thrown' \in Exceptions
        /\ session_and_auth' \subseteq Nat \X (AuthID \cup {SuperID})
        /\ session_id_counter' \in Nat \ {0}
    BY <1>1 DEF OthersOK
  <2> QED BY <1>1, <2>1, Touched, WatchesProcessed, OthersFrame
<1>8. SessionsOK'
  <2>1. \A e \in ephemerals' : e \in ephemerals \/ e[1] = s
    BY <1>1, <1>2, EffectOwners DEF SubRequestEffect
  <2> QED BY <1>1, <2>1, Touched, WatchesProcessed, SessionsGrow
<1>9. MultiOK'
  BY <1>1, Touched DEF MultiOK
<1> QED BY <1>5, <1>6, <1>7, <1>8, <1>9

-----------------------------------------------------------------------------
\* SetACL preserves it.
LEMMA SetACLPreserves ==
    ASSUME LiveInv, NEW s \in IssuedSession, NEW r \in Requests, SetACL(s, r)
    PROVE  LiveInv'
<1> USE DEF LiveInv
<1> DEFINE acls   == fixupACL(r.acls, AuthsOf(s))
           acl_id == ACLNumber(acl_map, acls)
           path   == r.path
           node   == [container[path] EXCEPT !.acl_id = acl_id, !.aversion = @ + 1]
<1>1. /\ Read(s) /\ multi' = multi
      /\ session_id_counter' = session_id_counter
      /\ session_and_auth' = session_and_auth
      /\ finalized' = finalized /\ thrown' = thrown
      /\ ephemerals' = ephemerals
      /\ UNCHANGED watchVars
  BY DEF SetACL, Read, otherVars
<1>2. /\ path \in DOMAIN container
      /\ acl_map' = addUsage(convertACLs(acl_map, acls), acl_id)
      /\ container' = [container EXCEPT ![path] = node]
  BY DEF SetACL, exists
<1>3. acl_id \in Nat /\ AclOK(convertACLs(acl_map, acls))
  BY ConvertType
<1> HIDE DEF acls, acl_id
<1>4. AclOK(acl_map)'
  BY <1>2, <1>3, AddUsageType
<1>5. IsTree(tree)'
  <2>1. tree.container = container /\ tree.ephemerals = ephemerals
        /\ tree'.container = container' /\ tree'.ephemerals = ephemerals
    BY <1>1 DEF tree
  <2>2. ContainerOK(container) /\ container[path] \in Node
    BY <1>2, <2>1 DEF IsTree, ContainerOK, IsContainer
  <2>3. container[path].aversion + 1 \in Int
    BY <2>2, NodeFields, SMT
  <2>4. /\ node \in Node
        /\ node.children = container[path].children
        /\ node.numChildren = container[path].numChildren
        /\ node.ephemeralOwner = container[path].ephemeralOwner
    BY <1>3, <2>2, <2>3 DEF Node
  <2> HIDE DEF node
  <2>5. /\ DOMAIN container' = DOMAIN container
        /\ container' \in [DOMAIN container -> Node]
        /\ \A p \in DOMAIN container :
               /\ container'[p].children = container[p].children
               /\ container'[p].numChildren = container[p].numChildren
               /\ container'[p].ephemeralOwner = container[p].ephemeralOwner
    BY <1>2, <2>2, <2>4 DEF ContainerOK, IsContainer
  <2>6. IsContainer(container')
    BY <2>2, <2>5 DEF ContainerOK, IsContainer
  <2>7. ContainerOK(container')
    BY <2>2, <2>5, <2>6, Relabel
  <2>8. WellIndexed(tree')
    BY <2>1, <2>5, SMT DEF WellIndexed, IsTree
  <2>9. tree'.ephemerals \subseteq (Nat \ {0}) \X (Path \ {Root})
    BY <2>1 DEF IsTree
  <2> QED BY <2>1, <2>7, <2>8, <2>9 DEF IsTree
<1>6. OthersOK'
  <2>1. thrown' \in Exceptions
        /\ session_and_auth' \subseteq Nat \X (AuthID \cup {SuperID})
        /\ session_id_counter' \in Nat \ {0}
    BY <1>1 DEF OthersOK
  <2> QED BY <1>1, <2>1, Touched, WatchesKept, OthersFrame
<1>7. SessionsOK'
  BY <1>1, Touched, WatchesKept, SessionsGrow
<1>8. MultiOK'
  BY <1>1, Touched DEF MultiOK
<1> QED BY <1>4, <1>5, <1>6, <1>7, <1>8

\* Close preserves it: nothing that belongs to the session stays behind.
LEMMA ClosePreserves ==
    ASSUME LiveInv, NEW s \in IssuedSession, Close(s)
    PROVE  LiveInv'
<1> USE DEF LiveInv
<1> DEFINE watched == {<<w[2], w[1]>> : w \in {x \in sessions_and_watchers : x[1] = s}}
<1>1. /\ multi = NoMulti /\ multi' = multi
      /\ session_id_counter' = session_id_counter
      /\ finalized' = finalized /\ thrown' = thrown
      /\ acl_map' = acl_map
      /\ zxid' = zxid + 1
  BY DEF Close, Idle
<1>2. /\ watches' \subseteq watches \ watched
      /\ list_watches' \subseteq list_watches \ watched
      /\ sessions_and_watchers' = {w \in sessions_and_watchers : w[1] # s}
      /\ session_and_auth' = {a \in session_and_auth : a[1] # s}
      /\ session_expiry_queue' = session_expiry_queue \ {s}
      /\ session_and_timeout' = Drop(session_and_timeout, s)
  BY DEF Close
<1>3. tree' = Closed(tree, s) /\ ephemerals' = {e \in ephemerals : e[1] # s}
  BY DEF Close, Closed, tree
<1>4. IsTree(tree)'
  BY <1>3, ClosedIsTree
<1>5. AclOK(acl_map)'
  BY <1>1
<1>6. OthersOK'
  <2>1. thrown' \in Exceptions
    BY <1>1 DEF OthersOK
  <2>2. zxid' \in Nat /\ session_id_counter' \in Nat \ {0}
        /\ IssuedSession' = IssuedSession
    BY <1>1, SMT DEF OthersOK, IssuedSession
  <2>3. /\ DOMAIN session_and_timeout' \subseteq IssuedSession
        /\ session_and_timeout' \in [DOMAIN session_and_timeout' -> Nat]
    BY <1>2 DEF OthersOK, Drop
  <2>4. /\ session_expiry_queue' \subseteq IssuedSession
        /\ watches' \subseteq Path \X Nat
        /\ list_watches' \subseteq Path \X Nat
        /\ sessions_and_watchers' \subseteq Nat \X Path
        /\ session_and_auth' \subseteq Nat \X (AuthID \cup {SuperID})
    BY <1>2 DEF OthersOK
  <2> QED BY <1>1, <2>1, <2>2, <2>3, <2>4, OthersFrame
<1>7. SessionsOK'
  <2>1. ASSUME NEW w \in watches' \cup list_watches'
        PROVE  w[2] # s /\ w \in watches \cup list_watches
    <3>1. w \in watches \cup list_watches /\ w \notin watched
      BY <1>2
    <3>2. w = <<w[1], w[2]>>
      BY <3>1, SMT DEF OthersOK
    <3>3. <<w[2], w[1]>> \in sessions_and_watchers
      BY <3>1 DEF SessionsOK
    <3>4. w[2] = s => w \in watched
      BY <3>2, <3>3, SMT
    <3> QED BY <3>1, <3>4
  <2> HIDE DEF watched
  <2>2. ASSUME NEW w \in watches' \cup list_watches'
        PROVE  w[2] \in session_expiry_queue' /\ <<w[2], w[1]>> \in sessions_and_watchers'
    <3>1. /\ w[2] # s /\ w[2] \in session_expiry_queue
          /\ <<w[2], w[1]>> \in sessions_and_watchers
          /\ <<w[2], w[1]>>[1] # s
      BY <2>1 DEF SessionsOK
    <3> QED BY <1>2, <3>1
  <2>3. /\ \A e \in ephemerals' : e[1] \in session_expiry_queue'
        /\ \A x \in session_and_auth' : x[1] \in session_expiry_queue'
    BY <1>2, <1>3 DEF SessionsOK
  <2> QED BY <2>2, <2>3 DEF SessionsOK
<1>8. MultiOK'
  BY <1>1 DEF MultiOK
<1> QED BY <1>4, <1>5, <1>6, <1>7, <1>8

\* The beginning of a multi preserves it.
LEMMA MultiBeginPreserves ==
    ASSUME LiveInv, RootKept, NEW s \in IssuedSession, NEW r \in Requests,
           MultiBegin(s, r)
    PROVE  LiveInv'
<1> USE DEF LiveInv
<1>1. /\ Read(s) /\ UNCHANGED treeVars
      /\ session_id_counter' = session_id_counter
      /\ session_and_auth' = session_and_auth /\ thrown' = thrown
      /\ finalized' = finalized /\ UNCHANGED watchVars
      /\ r.op = "Multi"
      /\ multi' = [phase |-> "run", session |-> s, requests |-> r.requests,
                   done |-> 0, undo |-> <<>>, before |-> tree]
  BY DEF MultiBegin, Read, otherVars
<1>2. thrown' \in Exceptions
      /\ session_and_auth' \subseteq Nat \X (AuthID \cup {SuperID})
      /\ session_id_counter' \in Nat \ {0}
  BY <1>1 DEF OthersOK
<1>3. OthersOK'
  BY <1>1, <1>2, Touched, WatchesKept, OthersFrame
<1>4. SessionsOK'
  BY <1>1, Touched, TreeUnchanged, WatchesKept, SessionsGrow
<1>5. MultiOK'
  <2>1. /\ r.requests \in Seq(SubRequest)
        /\ \A i \in 1 .. Len(r.requests) :
               WellFormed(r.requests[i]) /\ KeepsRoot(r.requests[i])
    <3>1. r.requests \in Seq(SubRequest)
      BY <1>1, RequestKinds DEF MultiRequest
    <3>2. DOMAIN r.requests = 1 .. Len(r.requests) 
      BY <3>1, SMT
    <3> QED BY <1>1, <3>1, <3>2, RequestsAssumption DEF RootKept
  <2>2. s \in IssuedSession' /\ s \in session_expiry_queue'
    BY <1>1, Touched DEF IssuedSession
  <2>3. Len(r.requests) \in Nat
    BY <2>1, SMT
  <2>4. MultiShape'
    <3>1. <<>> \in Seq({tree})
      BY SMT
    <3>2. multi' \in [phase : {"run", "undo"}, session : IssuedSession',
                      requests : Seq(SubRequest), done : Nat, undo : Seq({tree}),
                      before : {tree}]
      BY <1>1, <2>1, <2>2, <3>1
    <3> QED BY <3>2 DEF MultiShape
  <2>5. /\ multi'.requests = r.requests /\ multi'.done = 0 /\ multi'.session = s
        /\ multi'.undo = <<>> /\ Len(multi'.undo) = 0 /\ multi'.before = tree
    BY <1>1
  <2>6. UndoChain'
    BY <1>1, <2>5, TreeUnchanged, SMTT(30) DEF UndoChain
  <2>7. MultiRunning'
    BY <2>1, <2>2, <2>3, <2>4, <2>5, <2>6, SMTT(30) DEF MultiRunning
  <2> QED BY <2>7 DEF MultiOK
<1> QED BY <1>1, <1>3, <1>4, <1>5, TreeUnchanged

-----------------------------------------------------------------------------
\* The steps of a multi leave the sessions alone.
LEMMA MultiFrame ==
    ASSUME OthersOK, UNCHANGED <<sessionVars, otherVars, zxid>>,
           watches' \subseteq Path \X Nat,
           list_watches' \subseteq Path \X Nat,
           sessions_and_watchers' \subseteq Nat \X Path
    PROVE  /\ OthersOK'
           /\ session_expiry_queue' = session_expiry_queue
           /\ session_and_auth' = session_and_auth
           /\ IssuedSession' = IssuedSession
           /\ zxid \in Nat
<1>1. /\ session_and_timeout' = session_and_timeout
      /\ session_expiry_queue' = session_expiry_queue
      /\ session_and_auth' = session_and_auth
      /\ session_id_counter' = session_id_counter
      /\ finalized' = finalized /\ thrown' = thrown /\ zxid' = zxid
      /\ IssuedSession' = IssuedSession
  BY DEF sessionVars, otherVars, IssuedSession
<1>2. thrown' \in Exceptions
  BY <1>1 DEF OthersOK
<1>3. /\ zxid' \in Nat /\ DOMAIN session_and_timeout' \subseteq IssuedSession'
      /\ session_and_timeout' \in [DOMAIN session_and_timeout' -> Nat]
      /\ session_expiry_queue' \subseteq IssuedSession'
      /\ session_and_auth' \subseteq Nat \X (AuthID \cup {SuperID})
      /\ session_id_counter' \in Nat \ {0}
  BY <1>1 DEF OthersOK
<1>4. OthersOK'
  BY <1>1, <1>2, <1>3, OthersFrame
<1> QED BY <1>1, <1>3, <1>4

\* One turn of the loop of a multi preserves it: the closure it pushes undoes
\* exactly this turn.
LEMMA MultiStepPreserves ==
    ASSUME LiveInv, MultiStep
    PROVE  LiveInv'
<1> USE DEF LiveInv
<1> DEFINE s == multi.session
           n == multi.done + 1
           r == multi.requests[n]
<1>1. MultiRunning
  BY SMT DEF MultiOK, MultiStep, NoMulti
<1>2. PICK S : multi \in [phase : {"run", "undo"}, session : IssuedSession,
                      requests : Seq(SubRequest), done : Nat, undo : Seq(S),
                      before : S]
  BY <1>1 DEF MultiRunning, MultiShape
<1>3. /\ UNCHANGED <<sessionVars, otherVars, zxid>> /\ UNCHANGED watchVars
      /\ multi.done < Len(multi.requests)
  BY DEF MultiStep
<1>4. /\ OthersOK'
      /\ session_expiry_queue' = session_expiry_queue
      /\ session_and_auth' = session_and_auth
      /\ IssuedSession' = IssuedSession
      /\ zxid \in Nat
  BY <1>3, MultiFrame, WatchesKept
<1>5. /\ s \in session_expiry_queue /\ s \in IssuedSession /\ s \in Nat \ {0}
      /\ multi.done \in Nat /\ Len(multi.requests) \in Nat
      /\ n \in 1 .. Len(multi.requests)
  <2>1. Len(multi.requests) \in Nat /\ multi.done \in Nat /\ s \in IssuedSession
    BY <1>2, SMT
  <2> QED BY <1>1, <1>3, <2>1, SMT DEF MultiRunning, IssuedSession, OthersOK
<1>6. r \in SubRequest /\ WellFormed(r) /\ KeepsRoot(r)
  BY <1>1, <1>2, <1>5, SMT DEF MultiRunning
<1>7. CASE /\ SubRequestError(s, r) = "ZOK"
           /\ SubRequestEffect(s, r, zxid)
           /\ multi' = [multi EXCEPT
                           !.done = @ + 1,
                           !.undo = <<[record |-> UndoRecord(s, r),
                                       was |-> tree]>> \o @]
  <2> DEFINE x == [record |-> UndoRecord(s, r), was |-> tree]
             u == multi.undo
             v == <<x>> \o u
  <2>1. tree' = Effect(s, r, zxid)
    BY <1>6, <1>7, EffectFields DEF SubRequestEffect, tree
  <2>2. IsTree(tree)'
    <3>1. IsTree(Effect(s, r, zxid))
      BY <1>4, <1>5, <1>6, <1>7, EffectIsTree
    <3> QED BY <2>1, <3>1
  <2>3. AclOK(acl_map)'
    BY <1>6, <1>7, UsageType DEF SubRequestEffect
  <2>4. SessionsOK'
    <3>1. \A e \in ephemerals' : e \in ephemerals \/ e[1] = s
      BY <1>6, <1>7, EffectOwners DEF SubRequestEffect
    <3>2. session_expiry_queue' = session_expiry_queue \cup {s}
      BY <1>4, <1>5
    <3> QED BY <1>3, <1>4, <3>1, <3>2, WatchesKept, SessionsGrow
  <2>5. Undone(tree', x.record) = tree
    BY <1>4, <1>5, <1>6, <1>7, <2>1, EffectUndone DEF KeepsRoot
  <2>6. EntryOK(x, session_expiry_queue)
    <3>1. /\ x.was = tree /\ tree.ephemerals = ephemerals /\ tree.container = container
          /\ tree = [container |-> tree.container, ephemerals |-> tree.ephemerals]
      BY DEF tree
    <3>2. x.record.op = "Remove" => x.record.prev_node.acl_id \in Nat
      <4>1. SUFFICES ASSUME x.record.op = "Remove"
                     PROVE  x.record.prev_node.acl_id \in Nat
        OBVIOUS
      <4>2. r.op = "Remove"
        BY <1>6, <4>1, SubRequestKinds DEF UndoRecord
      <4>3. r.path \in DOMAIN container /\ x.record.prev_node = container[r.path]
        BY <1>7, <4>2 DEF UndoRecord, SubRequestError, RemoveError, exists
      <4> QED BY <3>1, <4>3, NodeFields DEF IsTree, ContainerOK, IsContainer
    <3> QED BY <3>1, <3>2 DEF EntryOK, SessionsOK
  <2> HIDE DEF x
  <2>7. /\ u \in Seq(S \cup {x}) /\ v \in Seq(S \cup {x})
        /\ Len(u) \in Nat /\ Len(v) = Len(u) + 1 /\ v[1] = x
        /\ \A i \in 1 .. Len(u) : v[i + 1] = u[i]
    <3>1. u \in Seq(S \cup {x}) /\ <<x>> \in Seq(S \cup {x})
      BY <1>2, SMT
    <3> HIDE DEF u
    <3> QED BY <3>1, SMT
  <2>8. multi' = [multi EXCEPT !.done = n, !.undo = v]
    BY <1>7 DEF x
  <2>9. /\ multi'.phase = multi.phase /\ multi'.session = s
        /\ multi'.requests = multi.requests /\ multi'.done = n
        /\ multi'.undo = v /\ multi'.before = multi.before
    BY <1>2, <2>8
  <2>10. MultiShape'
    <3>1. n \in Nat
      BY <1>5, SMT
    <3> HIDE DEF v, n
    <3>2. multi' \in [phase : {"run", "undo"}, session : IssuedSession',
                      requests : Seq(SubRequest), done : Nat, undo : Seq(S \cup {x}),
                      before : S \cup {x}]
      BY <1>2, <1>4, <2>7, <2>8, <3>1
    <3> QED BY <3>2 DEF MultiShape
  <2>11. ASSUME NEW i \in 1 .. Len(v)
         PROVE  EntryOK(v[i], session_expiry_queue)
    <3>1. CASE i = 1
      BY <2>6, <2>7, <3>1
    <3>2. CASE i # 1
      <4>1. i - 1 \in 1 .. Len(u) /\ v[(i - 1) + 1] = u[i - 1] /\ (i - 1) + 1 = i
        BY <2>7, <3>2, SMT
      <4> QED BY <1>1, <4>1 DEF MultiRunning
    <3> QED BY <3>1, <3>2
  <2>12. UndoChain'
    <3> HIDE DEF v
    <3>1. Len(v) > 0 /\ Undone(tree', v[1].record) = v[1].was
      BY <2>5, <2>7, SMT DEF x
    <3>2. x.was = tree
      BY DEF x
    <3>3. v[Len(v)].was = multi.before
      <4>1. CASE Len(u) = 0
        BY <1>1, <2>7, <3>2, <4>1, SMT DEF MultiRunning, UndoChain
      <4>2. CASE Len(u) > 0
        <5>1. v[Len(v)] = u[Len(u)]
          BY <2>7, <4>2, SMT
        <5> QED BY <1>1, <4>2, <5>1 DEF MultiRunning, UndoChain
      <4> QED BY <2>7, <4>1, <4>2, SMT
    <3>4. ASSUME NEW i \in 1 .. Len(v) - 1
          PROVE  Undone(v[i].was, v[i + 1].record) = v[i + 1].was
      <4>1. i \in 1 .. Len(u) /\ v[i + 1] = u[i]
        BY <2>7, SMT
      <4>2. CASE i = 1
        BY <1>1, <2>7, <3>2, <4>1, <4>2, SMT DEF MultiRunning, UndoChain
      <4>3. CASE i # 1
        <5>0. /\ i - 1 \in 1 .. Len(u) - 1 /\ i - 1 \in 1 .. Len(u)
              /\ (i - 1) + 1 = i
          <6>1. Len(u) \in Nat
            BY <2>7
          <6> HIDE DEF u
          <6> QED BY <4>1, <4>3, <6>1, SMT
        <5>1. v[(i - 1) + 1] = u[i - 1]
          BY <2>7, <5>0
        <5>2. Undone(u[i - 1].was, u[(i - 1) + 1].record) = u[(i - 1) + 1].was
          BY <1>1, <5>0 DEF MultiRunning, UndoChain
        <5> QED BY <4>1, <5>0, <5>1, <5>2
      <4> QED BY <4>2, <4>3
    <3> QED BY <2>9, <3>1, <3>3, <3>4, SMT DEF UndoChain
  <2>13. MultiRunning'
    BY <1>1, <1>4, <1>5, <2>9, <2>10, <2>11, <2>12, SMT DEF MultiRunning
  <2> QED BY <1>4, <2>2, <2>3, <2>4, <2>13 DEF MultiOK
<1>8. CASE /\ SubRequestError(s, r) # "ZOK"
           /\ multi' = [multi EXCEPT !.phase = "undo"]
           /\ UNCHANGED treeVars
  <2>1. /\ multi'.session = s /\ multi'.requests = multi.requests
        /\ multi'.done = multi.done
        /\ multi'.undo = multi.undo /\ multi'.before = multi.before
    BY <1>2, <1>8
  <2>2. MultiShape'
    BY <1>2, <1>4, <1>8 DEF MultiShape
  <2>3. tree' = tree
    BY <1>8, TreeUnchanged
  <2>4. UndoChain'
    BY <1>1, <2>1, <2>3 DEF MultiRunning, UndoChain
  <2>5. \A i \in 1 .. Len(multi'.undo) :
            EntryOK(multi'.undo[i], session_expiry_queue')
    BY <1>1, <1>4, <2>1 DEF MultiRunning
  <2>6. MultiRunning'
    BY <1>1, <1>4, <2>1, <2>2, <2>4, <2>5 DEF MultiRunning
  <2>7. SessionsOK'
    <3>1. session_expiry_queue' = session_expiry_queue \cup {s}
      BY <1>4, <1>5
    <3> QED BY <1>3, <1>4, <1>8, <3>1, TreeUnchanged, WatchesKept, SessionsGrow
  <2> QED BY <1>4, <1>8, <2>6, <2>7, TreeUnchanged DEF MultiOK
<1> QED BY <1>7, <1>8 DEF MultiStep

-----------------------------------------------------------------------------
\* One undo closure preserves it: the tree becomes the one recorded before the
\* sub-request.
LEMMA MultiUndoPreserves ==
    ASSUME LiveInv, MultiUndo
    PROVE  LiveInv'
<1> USE DEF LiveInv
<1> DEFINE u == multi.undo
           s == multi.session
<1>1. MultiRunning
  BY SMT DEF MultiOK, MultiUndo, NoMulti
<1>2. PICK S : multi \in [phase : {"run", "undo"}, session : IssuedSession,
                      requests : Seq(SubRequest), done : Nat, undo : Seq(S),
                      before : S]
  BY <1>1 DEF MultiRunning, MultiShape
<1>3. /\ UNCHANGED <<sessionVars, otherVars, zxid>> /\ UNCHANGED watchVars
      /\ multi' = [multi EXCEPT !.undo = Tail(u)]
      /\ u # <<>> /\ u \in Seq(S)
  BY <1>2 DEF MultiUndo
<1>4. /\ OthersOK'
      /\ session_expiry_queue' = session_expiry_queue
      /\ session_and_auth' = session_and_auth
      /\ IssuedSession' = IssuedSession
  BY <1>3, MultiFrame, WatchesKept
<1>5. /\ Len(u) \in Nat /\ Len(u) > 0 /\ Head(u) = u[1]
      /\ Tail(u) \in Seq(S) /\ Len(Tail(u)) = Len(u) - 1
      /\ \A i \in 1 .. Len(u) - 1 : Tail(u)[i] = u[i + 1]
  <2>1. u # <<>> /\ u \in Seq(S)
    BY <1>3
  <2> HIDE DEF u
  <2> QED BY <2>1, SMT
<1>6. EntryOK(u[1], session_expiry_queue) /\ Undone(tree, u[1].record) = u[1].was
  BY <1>1, <1>5, SMT DEF MultiRunning, UndoChain
<1>7. /\ container' = u[1].was.container /\ ephemerals' = u[1].was.ephemerals
      /\ acl_map' = UndoneUsage(u[1].record)
  BY <1>5, <1>6 DEF MultiUndo, Undo
<1>8. tree' = u[1].was
  BY <1>6, <1>7 DEF EntryOK, tree
<1>9. IsTree(tree)'
  BY <1>6, <1>8 DEF EntryOK
<1>10. AclOK(acl_map)'
  <2>1. CASE u[1].record.op = "Create"
    BY <1>7, <2>1, RemoveUsageType DEF UndoneUsage
  <2>2. CASE u[1].record.op = "Remove"
    BY <1>6, <1>7, <2>2, AddUsageType DEF UndoneUsage, EntryOK
  <2>3. CASE u[1].record.op \notin {"Create", "Remove"}
    BY <1>7, <2>3 DEF UndoneUsage
  <2> QED BY <2>1, <2>2, <2>3
<1>11. SessionsOK'
  BY <1>3, <1>4, <1>6, <1>7 DEF EntryOK, SessionsOK, watchVars
<1>12. MultiRunning'
  <2>1. /\ multi'.session = s /\ multi'.requests = multi.requests
        /\ multi'.done = multi.done
        /\ multi'.undo = Tail(u) /\ multi'.before = multi.before
    BY <1>2, <1>3
  <2>2. MultiShape'
    <3>1. multi' \in [phase : {"run", "undo"}, session : IssuedSession',
                      requests : Seq(SubRequest), done : Nat, undo : Seq(S),
                      before : S]
      BY <1>2, <1>3, <1>4, <1>5
    <3> QED BY <3>1 DEF MultiShape
  <2>3. \A i \in 1 .. Len(multi'.undo) :
            EntryOK(multi'.undo[i], session_expiry_queue')
    BY <1>1, <1>4, <1>5, <2>1, SMT DEF MultiRunning
  <2>4. UndoChain'
    <3> DEFINE v == Tail(u)
    <3>1. Len(v) = 0 => tree' = multi.before
      BY <1>1, <1>5, <1>8, SMT DEF MultiRunning, UndoChain
    <3>2. Len(v) > 0 => /\ Undone(tree', v[1].record) = v[1].was
                        /\ v[Len(v)].was = multi.before
      <4>1. SUFFICES ASSUME Len(v) > 0
                     PROVE  /\ Undone(tree', v[1].record) = v[1].was
                            /\ v[Len(v)].was = multi.before
        OBVIOUS
      <4>2. /\ 1 \in 1 .. Len(u) - 1 /\ v[1] = u[1 + 1]
            /\ v[Len(v)] = u[Len(u)]
        BY <1>5, <4>1, SMT
      <4>3. Undone(u[1].was, u[1 + 1].record) = u[1 + 1].was
        BY <1>1, <4>2 DEF MultiRunning, UndoChain
      <4> QED BY <1>1, <1>5, <1>8, <4>2, <4>3 DEF MultiRunning, UndoChain
    <3>3. ASSUME NEW i \in 1 .. Len(v) - 1
          PROVE  Undone(v[i].was, v[i + 1].record) = v[i + 1].was
      <4>1. /\ i \in 1 .. Len(u) - 1 /\ i + 1 \in 1 .. Len(u) - 1
            /\ v[i] = u[i + 1] /\ v[i + 1] = u[(i + 1) + 1]
        BY <1>5, SMT
      <4>2. Undone(u[i + 1].was, u[(i + 1) + 1].record) = u[(i + 1) + 1].was
        BY <1>1, <4>1 DEF MultiRunning, UndoChain
      <4> QED BY <4>1, <4>2
    <3> HIDE DEF v
    <3> QED BY <2>1, <3>1, <3>2, <3>3 DEF UndoChain, v
  <2> QED BY <1>1, <1>4, <2>1, <2>2, <2>3, <2>4 DEF MultiRunning
<1> QED BY <1>4, <1>9, <1>10, <1>11, <1>12 DEF MultiOK

\* The end of a multi preserves it.
LEMMA MultiEndPreserves ==
    ASSUME LiveInv, MultiEnd
    PROVE  LiveInv'
<1> USE DEF LiveInv
<1>1. /\ UNCHANGED <<sessionVars, otherVars, zxid>> /\ UNCHANGED treeVars
      /\ multi' = NoMulti
  BY DEF MultiEnd
<1>2. PICK rs : processWatches(rs)
  BY DEF MultiEnd
<1>3. /\ watches' \subseteq watches /\ list_watches' \subseteq list_watches
      /\ sessions_and_watchers' = sessions_and_watchers
  BY <1>2 DEF processWatches
<1>4. /\ watches' \subseteq Path \X Nat /\ list_watches' \subseteq Path \X Nat
      /\ sessions_and_watchers' \subseteq Nat \X Path
  BY <1>3 DEF OthersOK
<1>5. /\ OthersOK' /\ session_expiry_queue' = session_expiry_queue
      /\ session_and_auth' = session_and_auth
  BY <1>1, <1>4, MultiFrame
<1>6. SessionsOK'
  BY <1>1, <1>3, <1>5, TreeUnchanged DEF SessionsOK
<1>7. MultiOK'
  BY <1>1 DEF MultiOK
<1> QED BY <1>1, <1>5, <1>6, <1>7, TreeUnchanged

\* A stuttering step preserves it.
LEMMA StutterPreserves ==
    ASSUME LiveInv, UNCHANGED vars
    PROVE  LiveInv'
<1> USE DEF LiveInv
<1>1. /\ UNCHANGED <<sessionVars, otherVars, zxid>> /\ UNCHANGED watchVars
      /\ UNCHANGED treeVars /\ multi' = multi
  BY DEF vars
<1>2. /\ OthersOK' /\ session_expiry_queue' = session_expiry_queue
      /\ session_and_auth' = session_and_auth /\ IssuedSession' = IssuedSession
  BY <1>1, WatchesKept, MultiFrame
<1>3. /\ watches' = watches /\ list_watches' = list_watches
      /\ sessions_and_watchers' = sessions_and_watchers
  BY <1>1 DEF watchVars
<1>4. SessionsOK'
  BY <1>1, <1>2, <1>3, TreeUnchanged DEF SessionsOK
<1>5. MultiOK'
  BY <1>1, <1>2, TreeUnchanged DEF MultiOK, MultiRunning, MultiShape, UndoChain
<1> QED BY <1>1, <1>2, <1>4, <1>5, TreeUnchanged

\* Every step before finalize() preserves it.
LEMMA NextPreserves ==
    ASSUME RootKept, IInv, [Next]_vars
    PROVE  IInv'
<1>1. SUFFICES ASSUME ~finalized' PROVE LiveInv'
  BY DEF IInv
<1>2. ~finalized
  BY <1>1 DEF Next, vars, otherVars, getSessionID, Write, SetACL, ReadFound,
     ExistsNot, Refused, Throws, Auth, MultiBegin, MultiRefused, Heartbeat,
     Close, MultiStep, MultiUndo, MultiEnd, finalize
<1>3. LiveInv
  BY <1>2 DEF IInv
<1>4. ~finalize
  BY <1>1 DEF finalize
<1>5. CASE \E t \in SessionTimeout : getSessionID(t)
  BY <1>3, <1>5, SessionPreserves
<1>6. CASE \E s \in IssuedSession, r \in Requests : Write(s, r)
  BY <1>3, <1>6, WritePreserves
<1>7. CASE \E s \in IssuedSession, r \in Requests : SetACL(s, r)
  BY <1>3, <1>7, SetACLPreserves
<1>8. CASE \E s \in IssuedSession, r \in Requests : ReadFound(s, r) \/ ExistsNot(s, r)
  BY <1>3, <1>8, ReadPreserves
<1>9. CASE \E s \in IssuedSession, r \in Requests :
               Refused(s, r) \/ Throws(s, r) \/ MultiRefused(s, r)
  BY <1>3, <1>9, RefusalPreserves
<1>10. CASE \E s \in IssuedSession, r \in Requests : Auth(s, r)
  BY <1>3, <1>10, AuthPreserves
<1>11. CASE \E s \in IssuedSession, r \in Requests : MultiBegin(s, r)
  BY <1>3, <1>11, MultiBeginPreserves
<1>12. CASE \E s \in IssuedSession : Heartbeat(s)
  BY <1>3, <1>12, RefusalPreserves
<1>13. CASE \E s \in IssuedSession : Close(s)
  BY <1>3, <1>13, ClosePreserves
<1>14. CASE MultiStep
  BY <1>3, <1>14, MultiStepPreserves
<1>15. CASE MultiUndo
  BY <1>3, <1>15, MultiUndoPreserves
<1>16. CASE MultiEnd
  BY <1>3, <1>16, MultiEndPreserves
<1>17. CASE UNCHANGED vars
  BY <1>3, <1>17, StutterPreserves
<1> QED BY <1>4, <1>5, <1>6, <1>7, <1>8, <1>9, <1>10, <1>11, <1>12, <1>13,
           <1>14, <1>15, <1>16, <1>17 DEF Next

-----------------------------------------------------------------------------
\* The invariant holds in every reachable state: the argument below is one
\* lemma per action of Next.
THEOREM Invariance ==
    ASSUME RootKept PROVE Spec => []IInv
<1>1. Init => IInv
  BY InitEstablishes DEF IInv
<1>2. IInv /\ [Next]_vars => IInv'
  BY NextPreserves
<1> QED BY <1>1, <1>2, PTL DEF Spec

\* Until finalize() every field of KeeperStorage keeps its type: node fields,
\* the session tables, the ACL table and the state of a running multi.
THEOREM TypeCorrect ==
    ASSUME RootKept PROVE Spec => [](~finalized => TypeOK)
<1>1. IInv => (~finalized => TypeOK)
  BY LiveInvImplies DEF IInv
<1> QED BY <1>1, Invariance, PTL

\* For every set of requests that keep "/" in their multis, any number of
\* sessions and any length of the log: parents, children and numChildren agree
\* in every state, half-way through a multi and its undo included.
THEOREM TreeAlwaysConsistent ==
    ASSUME RootKept PROVE Spec => []TreeConsistent
<1>1. IInv => TreeConsistent
  BY LiveInvImplies DEF IInv, TreeConsistent
<1> QED BY <1>1, Invariance, PTL

\* Under the same hypothesis the index by session and the owners stored in
\* the nodes agree, and no ephemeral node has children: Close erases exactly
\* what its session owns.
THEOREM EphemeralsAlwaysConsistent ==
    ASSUME RootKept PROVE Spec => [](~finalized => EphemeralsConsistent)
<1>1. IInv => (~finalized => EphemeralsConsistent)
  BY LiveInvImplies DEF IInv
<1> QED BY <1>1, Invariance, PTL

\* Whoever owns an ephemeral node, a watch or an identity is registered for
\* expiry, so that the Close of an expired session finds all of it.
THEOREM SessionsCleanUp ==
    ASSUME RootKept PROVE Spec => [](~finalized => NothingOutlivesItsSession)
<1>1. IInv => (~finalized => NothingOutlivesItsSession)
  BY LiveInvImplies DEF IInv
<1> QED BY <1>1, Invariance, PTL

\* Every watch is in the index by session that clearDeadWatches() goes
\* through, whatever processWatches() removed before.
THEOREM WatchesAlwaysTracked ==
    ASSUME RootKept PROVE Spec => [](~finalized => WatchesTracked)
<1>1. IInv => (~finalized => WatchesTracked)
  BY LiveInvImplies DEF IInv
<1> QED BY <1>1, Invariance, PTL

\* The undo closures of a failed multi, run newest first, restore the very
\* tree the multi found, for every list of sub-requests that keeps "/".  The
\* hypothesis is needed: the run KeeperStorageRootMulti shows a Set of "/" in a
\* failed multi that is not undone.
THEOREM FailedMultisRestore ==
    ASSUME RootKept PROVE Spec => []FailedMultiRestores
<1>1. IInv => FailedMultiRestores
  BY LiveInvImplies DEF IInv, FailedMultiRestores
<1> QED BY <1>1, Invariance, PTL

-----------------------------------------------------------------------------
\* A container a running multi has made: the present one, or one it may go
\* back to.
During(t) ==
    /\ Stamped(t.container, zxid)
    /\ Since(multi.before.container, t.container)

\* What the inductive invariant adds to LiveInv.
VersionsOK ==
    /\ multi = NoMulti => Stamped(container, zxid)
    /\ multi # NoMulti =>
           /\ Older(multi.before.container, zxid)
           /\ During(tree)
           /\ \A i \in 1 .. Len(multi.undo) : During(multi.undo[i].was)

VersionsInv == ~finalized => LiveInv /\ VersionsOK

\* The committed state of the property, and what a step shows of it.
Forward == Since(committed, committed')

\* The types the lemmas above need.
LEMMA Containers ==
    ASSUME LiveInv
    PROVE  /\ IsContainer(container) /\ zxid \in Nat
           /\ multi # NoMulti => IsContainer(multi.before.container)
<1> USE DEF LiveInv
<1>1. IsContainer(container) /\ zxid \in Nat
  BY DEF IsTree, ContainerOK, tree, OthersOK
<1>2. ASSUME multi # NoMulti
      PROVE  IsContainer(multi.before.container)
  <2>1. MultiRunning
    BY <1>2 DEF MultiOK
  <2>2. PICK S : multi.undo \in Seq(S)
    BY <2>1 DEF MultiRunning, MultiShape
  <2>3. Len(multi.undo) \in Nat
    BY <2>2, SMT
  <2>4. CASE Len(multi.undo) = 0
    BY <2>1, <2>4 DEF MultiRunning, UndoChain, IsTree, ContainerOK
  <2>5. CASE Len(multi.undo) > 0
    <3>1. /\ Len(multi.undo) \in 1 .. Len(multi.undo)
          /\ multi.undo[Len(multi.undo)].was = multi.before
      BY <2>1, <2>3, <2>5, SMT DEF MultiRunning, UndoChain
    <3>2. IsTree(multi.undo[Len(multi.undo)].was)
      BY <2>1, <3>1, Zenon DEF MultiRunning, EntryOK
    <3> QED BY <3>1, <3>2 DEF IsTree, ContainerOK
  <2> QED BY <2>3, <2>4, <2>5, SMT
<1> QED BY <1>1, <1>2

\* The same after a step.
LEMMA TreePrimed ==
    ASSUME LiveInv'
    PROVE  IsContainer(container') /\ zxid' \in Nat
<1>1. IsTree(tree)' /\ OthersOK'
  BY DEF LiveInv
<1> QED BY <1>1 DEF IsTree, ContainerOK, tree, OthersOK

\* Requests that leave the tree alone.
LEMMA QuietStep ==
    ASSUME LiveInv, VersionsOK, multi = NoMulti, multi' = NoMulti,
           container' = container, zxid' = zxid \/ zxid' = zxid + 1
    PROVE  VersionsOK' /\ Forward
<1>1. IsContainer(container) /\ zxid \in Nat
  BY Containers
<1>2. \A p \in DOMAIN container :
          container[p].czxid \in Nat /\ container[p].mzxid \in Nat
  BY <1>1, NodeFields DEF IsContainer
<1>3. Stamped(container, zxid)'
  BY <1>1, <1>2, SMT DEF VersionsOK, Stamped
<1>4. Since(container, container)
  BY <1>1, SinceItself
<1> QED BY <1>3, <1>4 DEF VersionsOK, Forward, committed

\* Single requests that change the tree.
LEMMA CommittedStep ==
    ASSUME LiveInv, LiveInv', VersionsOK, multi = NoMulti, multi' = NoMulti,
           zxid' = zxid + 1, TreeStep(container, container', zxid')
    PROVE  VersionsOK' /\ Forward
<1>1. IsContainer(container) /\ zxid \in Nat
  BY Containers
<1>2. IsContainer(container') /\ zxid' \in Nat
  BY TreePrimed
<1>3. Stamped(container, zxid)
  BY DEF VersionsOK
<1>4. \A p \in DOMAIN container :
          container[p].czxid \in Nat /\ container[p].mzxid \in Nat
  BY <1>1, NodeFields DEF IsContainer
<1>5. Older(container, zxid') /\ Stamped(container, zxid')
  BY <1>1, <1>3, <1>4, SMT DEF Older, Stamped
<1>6. Since(container, container)
  BY <1>1, SinceItself
<1>7. Since(container, container') /\ Stamped(container', zxid')
  BY <1>1, <1>2, <1>5, <1>6, StepAdvances
<1> QED BY <1>7 DEF VersionsOK, Forward, committed

\* Create, Remove and Set.
LEMMA WriteForward ==
    ASSUME LiveInv, VersionsOK, NEW s \in IssuedSession, NEW r \in Requests,
           Write(s, r)
    PROVE  VersionsOK' /\ Forward
<1>1. LiveInv'
  BY WritePreserves
<1>2. /\ multi = NoMulti /\ multi' = multi /\ zxid' = zxid + 1
      /\ SubRequestError(s, r) = "ZOK"
      /\ container' = Effect(s, r, zxid').container
  BY DEF Write, Committed, Idle, SubRequestEffect
<1>3. r \in SubRequest /\ WellFormed(r)
  BY RequestKinds, RequestsAssumption DEF Write
<1>4. IsTree(tree) /\ zxid' \in Nat
  BY <1>2, Containers, SMT DEF LiveInv
<1>5. TreeStep(container, Effect(s, r, zxid').container, zxid')
  BY <1>2, <1>3, <1>4, EffectStep
<1> QED BY <1>1, <1>2, <1>5, CommittedStep

\* SetACL.
LEMMA SetACLForward ==
    ASSUME LiveInv, VersionsOK, NEW s \in IssuedSession, NEW r \in Requests,
           SetACL(s, r)
    PROVE  VersionsOK' /\ Forward
<1> DEFINE path == r.path
           id == ACLNumber(acl_map, fixupACL(r.acls, AuthsOf(s)))
           node == [container[path] EXCEPT !.acl_id = id, !.aversion = @ + 1]
<1>1. LiveInv'
  BY SetACLPreserves
<1>2. /\ multi = NoMulti /\ multi' = multi /\ zxid' = zxid + 1
      /\ path \in DOMAIN container
      /\ container' = [container EXCEPT ![path] = node]
  BY Zenon DEF SetACL, Committed, Idle, exists
<1>3. IsContainer(container) /\ zxid' \in Nat
  BY <1>2, Containers, SMT
<1>4. \A p \in DOMAIN container : NodeStep(container[p], container[p], zxid')
  BY <1>3, ParentStep DEF IsContainer
<1>5. NodeStep(container[path], node, zxid')
  <2>1. container[path] \in Node
    BY <1>2, <1>3 DEF IsContainer
  <2>2. /\ container[path].version \in Int /\ container[path].cversion \in Int
        /\ container[path].aversion \in Int /\ container[path].seq_num \in Int
    BY <2>1, NodeFields
  <2> HIDE DEF id
  <2>3. /\ node.czxid = container[path].czxid
        /\ node.mzxid = container[path].mzxid
        /\ node.version = container[path].version
        /\ node.cversion = container[path].cversion
        /\ node.aversion = container[path].aversion + 1
        /\ node.seq_num = container[path].seq_num
    BY <2>1 DEF Node
  <2> HIDE DEF node
  <2> QED BY <2>2, <2>3, SMT DEF NodeStep
<1> HIDE DEF node
<1>6. TreeStep(container, container', zxid')
  BY <1>2, <1>3, <1>4, <1>5 DEF TreeStep, IsContainer
<1> QED BY <1>1, <1>2, <1>6, CommittedStep

\* Close.
LEMMA CloseForward ==
    ASSUME LiveInv, VersionsOK, NEW s \in IssuedSession, Close(s)
    PROVE  VersionsOK' /\ Forward
<1>1. LiveInv'
  BY ClosePreserves
<1>2. /\ multi = NoMulti /\ multi' = multi /\ zxid' = zxid + 1
      /\ container' = Closed(tree, s).container
  BY DEF Close, Idle
<1>3. IsTree(tree) /\ zxid' \in Nat /\ tree.container = container
  BY <1>2, Containers, SMTT(30) DEF LiveInv, tree
<1>4. TreeStep(container, container', zxid')
  BY <1>2, <1>3, ClosedStep
<1> QED BY <1>1, <1>2, <1>4, CommittedStep

-----------------------------------------------------------------------------
\* A multi begins: its zxid is new.
LEMMA MultiBeginForward ==
    ASSUME LiveInv, VersionsOK, NEW s, NEW r, MultiBegin(s, r)
    PROVE  VersionsOK' /\ Forward
<1>1. /\ multi = NoMulti /\ zxid' = zxid + 1 /\ container' = container
      /\ multi'.before = tree /\ multi'.undo = <<>> /\ multi'.phase = "run"
      /\ tree' = tree
  BY DEF MultiBegin, Committed, Idle, treeVars, tree
<1>2. multi' # NoMulti
  BY <1>1, SMT DEF NoMulti
<1>3. IsContainer(container) /\ zxid \in Nat /\ tree.container = container
  BY Containers DEF tree
<1>4. \A p \in DOMAIN container :
          container[p].czxid \in Nat /\ container[p].mzxid \in Nat
  BY <1>3, NodeFields DEF IsContainer
<1>5. Older(container, zxid') /\ Stamped(container, zxid')
  BY <1>1, <1>3, <1>4, SMT DEF Older, Stamped, VersionsOK
<1>6. Since(container, container)
  BY <1>3, SinceItself
<1>7. During(tree)'
  BY <1>1, <1>3, <1>5, <1>6 DEF During
<1>8. \A i \in 1 .. Len(multi'.undo) : FALSE
  BY <1>1, SMT
<1> QED BY <1>1, <1>2, <1>3, <1>5, <1>6, <1>7, <1>8
        DEF VersionsOK, Forward, committed

\* The steps of a multi leave the committed state alone.
LEMMA MultiKeeps ==
    ASSUME LiveInv, multi # NoMulti, multi' # NoMulti,
           multi'.before = multi.before
    PROVE  Forward
<1>1. IsContainer(multi.before.container)
  BY Containers
<1>2. committed = multi.before.container /\ committed' = multi.before.container
  BY DEF committed
<1> QED BY <1>1, <1>2, SinceItself DEF Forward

\* A sub-request of a multi, and its failure.
LEMMA MultiStepForward ==
    ASSUME LiveInv, VersionsOK, MultiStep
    PROVE  VersionsOK' /\ Forward
<1> DEFINE s == multi.session
           n == multi.done + 1
           r == multi.requests[n]
           b == multi.before.container
<1>1. multi # NoMulti /\ MultiRunning
  BY SMT DEF LiveInv, MultiOK, MultiStep, NoMulti
<1>2. PICK S : multi \in [phase : {"run", "undo"}, session : IssuedSession,
                      requests : Seq(SubRequest), done : Nat, undo : Seq(S),
                      before : S]
  BY <1>1 DEF MultiRunning, MultiShape
<1>3. zxid' = zxid /\ zxid \in Nat /\ IsContainer(b) /\ IsContainer(container)
  BY <1>1, Containers DEF MultiStep
<1>4. /\ Older(b, zxid) /\ During(tree)
      /\ \A i \in 1 .. Len(multi.undo) : During(multi.undo[i].was)
  BY <1>1 DEF VersionsOK
<1>5. CASE /\ SubRequestError(s, r) = "ZOK"
           /\ SubRequestEffect(s, r, zxid)
           /\ multi' = [multi EXCEPT
                           !.done = @ + 1,
                           !.undo = <<[record |-> UndoRecord(s, r),
                                       was |-> tree]>> \o @]
  <2> DEFINE x == [record |-> UndoRecord(s, r), was |-> tree]
             u == multi.undo
             v == <<x>> \o u
  <2>1. r \in SubRequest /\ WellFormed(r)
    <3>1. n \in 1 .. Len(multi.requests)
      BY <1>2, SMT DEF MultiStep
    <3> QED BY <1>1, <1>2, <3>1, SMT DEF MultiRunning
  <2>2. /\ multi'.before = multi.before /\ multi'.undo = v
        /\ multi'.phase = multi.phase
    BY <1>2, <1>5
  <2>3. multi' # NoMulti
    BY <1>2, <2>2, SMT DEF NoMulti
  <2>4. Since(b, container') /\ Stamped(container', zxid)
    <3>1. TreeStep(container, container', zxid)
      BY <1>3, <1>5, <2>1, EffectStep DEF SubRequestEffect, LiveInv
    <3>2. IsContainer(container')
      BY MultiStepPreserves, TreePrimed
    <3>3. Stamped(container, zxid) /\ Since(b, container)
      BY <1>4 DEF During, tree
    <3> QED BY <1>3, <1>4, <3>1, <3>2, <3>3, StepAdvances
  <2>5. During(tree)'
    BY <1>3, <2>2, <2>4 DEF During, tree
  <2>6. /\ Len(u) \in Nat /\ Len(v) = Len(u) + 1 /\ v[1] = x
        /\ \A i \in 1 .. Len(u) : v[i + 1] = u[i]
    <3>1. u \in Seq(S \cup {x}) /\ <<x>> \in Seq(S \cup {x})
      BY <1>2, SMT
    <3> HIDE DEF u, x
    <3> QED BY <3>1, SMT
  <2>7. x.was = tree
    OBVIOUS
  <2> HIDE DEF x, v
  <2>8. ASSUME NEW i \in 1 .. Len(v) PROVE During(v[i].was)
    <3>1. CASE i = 1
      BY <1>4, <2>6, <2>7, <3>1
    <3>2. CASE i # 1
      <4>1. i - 1 \in 1 .. Len(u) /\ v[(i - 1) + 1] = u[i - 1] /\ (i - 1) + 1 = i
        BY <2>6, <3>2, SMT
      <4> QED BY <1>4, <4>1
    <3> QED BY <3>1, <3>2
  <2>9. ASSUME NEW i \in 1 .. Len(multi'.undo) PROVE During(multi.undo[i].was)'
    BY <1>3, <2>2, <2>8 DEF During
  <2> QED BY <1>1, <1>3, <1>4, <2>2, <2>3, <2>5, <2>9, MultiKeeps DEF VersionsOK
<1>6. CASE /\ multi' = [multi EXCEPT !.phase = "undo"]
           /\ UNCHANGED treeVars
  <2>1. /\ multi'.before = multi.before /\ multi'.undo = multi.undo
        /\ multi'.phase = "undo" /\ tree' = tree /\ container' = container
    BY <1>2, <1>6 DEF treeVars, tree
  <2>2. multi' # NoMulti
    BY <2>1, SMT DEF NoMulti
  <2>3. During(tree)'
    BY <1>3, <1>4, <2>1 DEF During
  <2>4. ASSUME NEW i \in 1 .. Len(multi'.undo) PROVE During(multi.undo[i].was)'
    BY <1>3, <1>4, <2>1 DEF During
  <2> QED BY <1>1, <1>3, <1>4, <2>1, <2>2, <2>3, <2>4, MultiKeeps DEF VersionsOK
<1> QED BY <1>5, <1>6 DEF MultiStep

\* An undo closure leads back to a container the multi has made before.
LEMMA MultiUndoForward ==
    ASSUME LiveInv, VersionsOK, MultiUndo
    PROVE  VersionsOK' /\ Forward
<1> DEFINE u == multi.undo
           b == multi.before.container
<1>1. multi # NoMulti /\ MultiRunning
  BY SMT DEF LiveInv, MultiOK, MultiUndo, NoMulti
<1>2. PICK S : multi \in [phase : {"run", "undo"}, session : IssuedSession,
                      requests : Seq(SubRequest), done : Nat, undo : Seq(S),
                      before : S]
  BY <1>1 DEF MultiRunning, MultiShape
<1>3. zxid' = zxid /\ u # <<>> /\ u \in Seq(S)
  BY <1>2 DEF MultiUndo
<1>4. /\ Older(b, zxid)
      /\ \A i \in 1 .. Len(u) : During(u[i].was)
  BY <1>1 DEF VersionsOK
<1>5. /\ multi'.before = multi.before /\ multi'.undo = Tail(u)
      /\ multi'.phase = "undo"
  BY <1>2 DEF MultiUndo
<1>6. multi' # NoMulti
  BY <1>5, SMT DEF NoMulti
<1>7. /\ Len(u) \in Nat /\ Len(u) > 0 /\ Head(u) = u[1]
      /\ Len(Tail(u)) = Len(u) - 1
      /\ \A i \in 1 .. Len(u) - 1 : Tail(u)[i] = u[i + 1]
  <2> HIDE DEF u
  <2> QED BY <1>3, SMT
<1>8. container' = u[1].was.container
  <2>1. Undone(tree, u[1].record) = u[1].was
    BY <1>1, <1>7 DEF MultiRunning, UndoChain
  <2> QED BY <1>7, <2>1 DEF MultiUndo, Undo
<1>9. During(tree)'
  <2>1. During(u[1].was)
    BY <1>4, <1>7, SMT
  <2>2. tree'.container = u[1].was.container
    BY <1>8 DEF tree
  <2> QED BY <1>3, <1>5, <2>1, <2>2 DEF During
<1>10. ASSUME NEW i \in 1 .. Len(multi'.undo) PROVE During(multi.undo[i].was)'
  <2>1. i + 1 \in 1 .. Len(u) /\ multi'.undo[i] = u[i + 1]
    BY <1>5, <1>7, SMT
  <2>2. During(u[i + 1].was)
    BY <1>4, <2>1
  <2> QED BY <1>3, <1>5, <2>1, <2>2 DEF During
<1> QED BY <1>1, <1>3, <1>4, <1>5, <1>6, <1>9, <1>10, MultiKeeps DEF VersionsOK

\* A multi ends: all it did becomes visible at once.
LEMMA MultiEndForward ==
    ASSUME LiveInv, VersionsOK, MultiEnd
    PROVE  VersionsOK' /\ Forward
<1>1. multi # NoMulti
  BY SMT DEF MultiEnd, NoMulti
<1>2. multi' = NoMulti /\ container' = container /\ zxid' = zxid
  BY DEF MultiEnd, treeVars
<1>3. Stamped(container, zxid) /\ Since(multi.before.container, container)
  BY <1>1 DEF VersionsOK, During, tree
<1> QED BY <1>1, <1>2, <1>3 DEF VersionsOK, Forward, committed

-----------------------------------------------------------------------------
\* Every step before finalize() keeps the invariant and moves forward.
LEMMA NextForward ==
    ASSUME RootKept, VersionsInv, [Next]_vars, ~finalized'
    PROVE  LiveInv' /\ VersionsOK' /\ Forward
<1>1. ~finalized
  BY Zenon DEF Next, vars, otherVars, getSessionID, Write, SetACL, ReadFound,
     ExistsNot, Refused, Throws, Auth, MultiBegin, MultiRefused, Heartbeat,
     Close, MultiStep, MultiUndo, MultiEnd, finalize
<1>2. LiveInv /\ VersionsOK
  BY <1>1 DEF VersionsInv
<1>3. LiveInv'
  BY <1>2, NextPreserves DEF IInv
<1>4. ~finalize
  BY DEF finalize
<1>5. CASE \/ \E t \in SessionTimeout : getSessionID(t)
           \/ \E s \in IssuedSession, r \in Requests :
                  \/ ReadFound(s, r) \/ ExistsNot(s, r) \/ Refused(s, r)
                  \/ Throws(s, r) \/ Auth(s, r) \/ MultiRefused(s, r)
           \/ \E s \in IssuedSession : Heartbeat(s)
  <2>1. /\ multi = NoMulti /\ multi' = multi /\ container' = container
        /\ zxid' = zxid \/ zxid' = zxid + 1
    BY <1>5, ZenonT(60) DEF getSessionID, ReadFound, ExistsNot, Refused, Throws, Auth,
       MultiRefused, Heartbeat, Read, Committed, Idle, treeVars
  <2> QED BY <1>2, <1>3, <2>1, QuietStep
<1>6. CASE \E s \in IssuedSession, r \in Requests : Write(s, r)
  BY <1>2, <1>3, <1>6, WriteForward
<1>7. CASE \E s \in IssuedSession, r \in Requests : SetACL(s, r)
  BY <1>2, <1>3, <1>7, SetACLForward
<1>8. CASE \E s \in IssuedSession, r \in Requests : MultiBegin(s, r)
  BY <1>2, <1>3, <1>8, MultiBeginForward
<1>9. CASE \E s \in IssuedSession : Close(s)
  BY <1>2, <1>3, <1>9, CloseForward
<1>10. CASE MultiStep
  BY <1>2, <1>3, <1>10, MultiStepForward
<1>11. CASE MultiUndo
  BY <1>2, <1>3, <1>11, MultiUndoForward
<1>12. CASE MultiEnd
  BY <1>2, <1>3, <1>12, MultiEndForward
<1>13. CASE UNCHANGED vars
  <2>1. /\ multi' = multi /\ container' = container /\ zxid' = zxid
        /\ tree' = tree
    BY <1>13 DEF vars, treeVars, tree
  <2>2. VersionsOK'
    BY <1>2, <2>1 DEF VersionsOK, During
  <2>3. Forward
    <3>1. CASE multi = NoMulti
      BY <1>2, <2>1, <3>1, QuietStep
    <3>2. CASE multi # NoMulti
      BY <1>2, <2>1, <3>2, MultiKeeps
    <3> QED BY <3>1, <3>2
  <2> QED BY <1>3, <2>2, <2>3
<1> QED BY <1>3, <1>4, <1>5, <1>6, <1>7, <1>8, <1>9, <1>10, <1>11, <1>12, <1>13
        DEF Next

\* Until finalize(), for every set of requests that keep "/" in their multis:
\* the counters of one incarnation of a node never go back from one committed
\* state to the next, and its version changes exactly when its mzxid does,
\* also when a multi has changed the node and then undone the change.
THEOREM VersionsAlwaysAdvance ==
    ASSUME RootKept PROVE Spec /\ []~finalized => VersionsAdvance
<1>1. Init => VersionsInv
  <2>1. SUFFICES ASSUME Init PROVE LiveInv /\ VersionsOK
    BY DEF VersionsInv
  <2>2. /\ DOMAIN container = {Root} /\ container[Root] = NewNode(0, 0, 0)
        /\ zxid = 0 /\ multi = NoMulti
    BY <2>1 DEF Init
  <2>3. Stamped(container, zxid)
    BY <2>2, SMTT(30) DEF Stamped, NewNode
  <2> QED BY <2>1, <2>2, <2>3, InitEstablishes DEF VersionsOK
<1>2. VersionsInv /\ [Next]_vars => VersionsInv'
  BY NextForward DEF VersionsInv
<1>3. VersionsInv /\ [Next]_vars /\ (~finalized)' =>
          [\A p \in DOMAIN committed \cap DOMAIN committed' :
               Advanced(committed[p], committed'[p])]_vars
  BY NextForward DEF Forward, Since
<1> QED BY <1>1, <1>2, <1>3, PTL DEF Spec, VersionsAdvance

-----------------------------------------------------------------------------
\* What the inductive invariant for ACLUsageCounted adds to LiveInv: the users
\* are counted, and each undo closure holds the number of the node that its
\* sub-request added or took away.
UsageOK ==
    /\ Counted(container, acl_map)
    /\ multi # NoMulti =>
           LET u == multi.undo
           IN  /\ Len(u) > 0 =>
                      Matched(u[1].record, u[1].was.container, container)
               /\ \A i \in 1 .. Len(u) - 1 :
                      Matched(u[i + 1].record, u[i + 1].was.container,
                              u[i].was.container)

UsageInv == ~finalized => LiveInv /\ UsageOK

\* The invariant implies the property.
LEMMA UsageImplies ==
    ASSUME UsageOK, LiveInv
    PROVE  ACLUsageCounted
<1>1. SUFFICES ASSUME NEW p \in DOMAIN container, container[p].acl_id # 0
               PROVE  LET id == container[p].acl_id
                      IN  /\ id \in DOMAIN acl_map.usage_counter
                          /\ acl_map.usage_counter[id] >=
                                 Cardinality(Users(container, id))
  BY DEF ACLUsageCounted, Users
<1> DEFINE id == container[p].acl_id
<1>2. id \in Nat \ {0}
  BY <1>1, Containers, NodeFields DEF IsContainer
<1>3. Users(container, id) # {}
  BY DEF Users
<1> HIDE DEF id
<1>4. /\ id \in DOMAIN acl_map.usage_counter
      /\ acl_map.usage_counter[id] >= Cardinality(Users(container, id))
  BY <1>2, <1>3 DEF UsageOK, Counted
<1> QED BY <1>4 DEF id

\* Create, Remove and Set.
LEMMA WriteUsage ==
    ASSUME LiveInv, UsageOK, NEW s \in IssuedSession, NEW r \in Requests,
           Write(s, r)
    PROVE  UsageOK'
<1>1. /\ multi = NoMulti /\ multi' = multi
      /\ SubRequestError(s, r) = "ZOK"
      /\ container' = Effect(s, r, zxid').container
      /\ acl_map' = Usage(s, r)
  BY DEF Write, Committed, Idle, SubRequestEffect
<1>2. r \in SubRequest /\ WellFormed(r)
  BY RequestKinds, RequestsAssumption DEF Write
<1>3. Matched(UndoRecord(s, r), container, container')
  BY <1>1, <1>2, EffectMatched DEF LiveInv
<1>4. Counted(container', Usage(s, r))
  BY <1>2, <1>3, EffectCounted DEF LiveInv, UsageOK
<1> QED BY <1>1, <1>4 DEF UsageOK

\* SetACL: the new number gains a user, the old one keeps its count.
LEMMA SetACLUsage ==
    ASSUME LiveInv, UsageOK, NEW s \in IssuedSession, NEW r \in Requests,
           SetACL(s, r)
    PROVE  UsageOK'
<1> DEFINE path == r.path
           acls == fixupACL(r.acls, AuthsOf(s))
           id == ACLNumber(acl_map, acls)
           m == convertACLs(acl_map, acls)
           node == [container[path] EXCEPT !.acl_id = id, !.aversion = @ + 1]
<1>1. /\ multi = NoMulti /\ multi' = multi
      /\ path \in DOMAIN container
      /\ container' = [container EXCEPT ![path] = node]
      /\ acl_map' = addUsage(m, id)
  BY Zenon DEF SetACL, Committed, Idle, exists
<1>2. container[path] \in Node
  BY <1>1, Containers DEF IsContainer
<1> HIDE DEF acls
<1>3. AclOK(m) /\ id \in Nat /\ Counted(container, m)
  BY ConvertType, ConvertCounted DEF LiveInv, UsageOK
<1> HIDE DEF id, m
<1>4. node.acl_id = id
  BY <1>2 DEF Node
<1> HIDE DEF node
<1>5. /\ DOMAIN container' = DOMAIN container
      /\ \A q \in DOMAIN container :
             container'[q] = IF q = path THEN node ELSE container[q]
  BY <1>1
<1>6. Assigned(container, container', id)
  <2>1. \A q \in DOMAIN container' :
            \/ q \in DOMAIN container /\ container'[q].acl_id = container[q].acl_id
            \/ q = path /\ container'[q].acl_id = id
    BY <1>4, <1>5
  <2> QED BY <1>5, <2>1 DEF Assigned
<1>7. Counted(container', addUsage(m, id))
  BY <1>3, <1>6, AddCounted
<1> QED BY <1>1, <1>7 DEF UsageOK

\* Close lowers no count.
LEMMA CloseUsage ==
    ASSUME LiveInv, UsageOK, NEW s, Close(s)
    PROVE  UsageOK'
<1>1. /\ multi = NoMulti /\ multi' = multi /\ acl_map' = acl_map
      /\ container' = Closed(tree, s).container
  BY DEF Close, Idle
<1>2. IsTree(tree) /\ AclOK(acl_map) /\ tree.container = container
  BY DEF LiveInv, tree
<1>3. Fewer(container, container')
  BY <1>1, <1>2, ClosedFewer
<1>4. Counted(container', acl_map)
  BY <1>2, <1>3, FewerCounted DEF UsageOK
<1> QED BY <1>1, <1>4 DEF UsageOK

\* A sub-request of a multi, and its failure.
LEMMA MultiStepUsage ==
    ASSUME LiveInv, UsageOK, MultiStep
    PROVE  UsageOK'
<1> DEFINE s == multi.session
           n == multi.done + 1
           r == multi.requests[n]
           u == multi.undo
<1>1. multi # NoMulti /\ MultiRunning
  BY SMT DEF LiveInv, MultiOK, MultiStep, NoMulti
<1>2. PICK S : multi \in [phase : {"run", "undo"}, session : IssuedSession,
                      requests : Seq(SubRequest), done : Nat, undo : Seq(S),
                      before : S]
  BY <1>1 DEF MultiRunning, MultiShape
<1>3. /\ Len(u) > 0 => Matched(u[1].record, u[1].was.container, container)
      /\ \A i \in 1 .. Len(u) - 1 :
             Matched(u[i + 1].record, u[i + 1].was.container, u[i].was.container)
  BY <1>1 DEF UsageOK
<1>4. CASE /\ SubRequestError(s, r) = "ZOK"
           /\ SubRequestEffect(s, r, zxid)
           /\ multi' = [multi EXCEPT
                           !.done = @ + 1,
                           !.undo = <<[record |-> UndoRecord(s, r),
                                       was |-> tree]>> \o @]
  <2> DEFINE x == [record |-> UndoRecord(s, r), was |-> tree]
             v == <<x>> \o u
  <2>1. r \in SubRequest /\ WellFormed(r)
    <3>1. n \in 1 .. Len(multi.requests)
      BY <1>2, SMT DEF MultiStep
    <3> QED BY <1>1, <1>2, <3>1, SMT DEF MultiRunning
  <2>2. /\ container' = Effect(s, r, zxid).container /\ acl_map' = Usage(s, r)
        /\ multi'.undo = v
    BY <1>2, <1>4 DEF SubRequestEffect
  <2>3. Matched(UndoRecord(s, r), container, container')
    BY <1>4, <2>1, <2>2, EffectMatched DEF LiveInv
  <2>4. Counted(container', acl_map')
    BY <2>1, <2>2, <2>3, EffectCounted DEF LiveInv, UsageOK
  <2>5. /\ Len(u) \in Nat /\ Len(v) = Len(u) + 1 /\ v[1] = x
        /\ \A i \in 1 .. Len(u) : v[i + 1] = u[i]
    <3>1. u \in Seq(S \cup {x}) /\ <<x>> \in Seq(S \cup {x})
      BY <1>2, SMT
    <3> HIDE DEF u, x
    <3> QED BY <3>1, SMT
  <2>6. x.was.container = container /\ x.record = UndoRecord(s, r)
    BY DEF tree
  <2> HIDE DEF x, v, u
  <2>7. ASSUME NEW i \in 1 .. Len(v) - 1
        PROVE  Matched(v[i + 1].record, v[i + 1].was.container, v[i].was.container)
    <3>1. i \in 1 .. Len(u) /\ v[i + 1] = u[i]
      BY <2>5, SMT
    <3>2. CASE i = 1
      <4>1. Len(u) > 0
        BY <2>5, <3>1, SMT
      <4> QED BY <1>3, <2>5, <2>6, <3>1, <3>2, <4>1
    <3>3. CASE i # 1
      <4>1. /\ i - 1 \in 1 .. Len(u) - 1 /\ i - 1 \in 1 .. Len(u)
            /\ (i - 1) + 1 = i
        BY <2>5, <3>1, <3>3, SMT
      <4>2. v[(i - 1) + 1] = u[i - 1]
        BY <2>5, <4>1
      <4>3. Matched(u[(i - 1) + 1].record, u[(i - 1) + 1].was.container,
                    u[i - 1].was.container)
        BY <1>3, <4>1
      <4> QED BY <3>1, <4>1, <4>2, <4>3
    <3> QED BY <3>2, <3>3
  <2>8. Matched(v[1].record, v[1].was.container, container')
    BY <2>3, <2>5, <2>6
  <2> QED BY <2>2, <2>4, <2>7, <2>8 DEF UsageOK
<1>5. CASE /\ multi' = [multi EXCEPT !.phase = "undo"]
           /\ UNCHANGED treeVars
  <2>1. multi'.undo = u /\ container' = container /\ acl_map' = acl_map
    BY <1>2, <1>5 DEF treeVars
  <2> QED BY <1>3, <2>1 DEF UsageOK
<1> QED BY <1>4, <1>5 DEF MultiStep

\* An undo closure gives back the number its sub-request took, and the other
\* way round.
LEMMA MultiUndoUsage ==
    ASSUME LiveInv, UsageOK, MultiUndo
    PROVE  UsageOK'
<1> DEFINE u == multi.undo
           v == Tail(u)
<1>1. multi # NoMulti /\ MultiRunning
  BY SMT DEF LiveInv, MultiOK, MultiUndo, NoMulti
<1>2. PICK S : multi \in [phase : {"run", "undo"}, session : IssuedSession,
                      requests : Seq(SubRequest), done : Nat, undo : Seq(S),
                      before : S]
  BY <1>1 DEF MultiRunning, MultiShape
<1>3. u # <<>> /\ u \in Seq(S) /\ multi'.undo = v
  BY <1>2 DEF MultiUndo
<1>4. /\ Len(u) \in Nat /\ Len(u) > 0 /\ Head(u) = u[1]
      /\ Len(v) = Len(u) - 1
      /\ \A i \in 1 .. Len(u) - 1 : v[i] = u[i + 1]
  <2> HIDE DEF u
  <2> QED BY <1>3, SMT
<1>5. /\ Matched(u[1].record, u[1].was.container, container)
      /\ \A i \in 1 .. Len(u) - 1 :
             Matched(u[i + 1].record, u[i + 1].was.container, u[i].was.container)
  BY <1>1, <1>4 DEF UsageOK
<1>6. /\ container' = u[1].was.container
      /\ acl_map' = UndoneUsage(u[1].record)
  <2>1. Undone(tree, u[1].record) = u[1].was
    BY <1>1, <1>4 DEF MultiRunning, UndoChain
  <2> QED BY <1>4, <2>1 DEF MultiUndo, Undo
<1>7. u[1].record.op = "Remove" => u[1].record.prev_node.acl_id \in Nat
  <2>1. 1 \in 1 .. Len(u)
    BY <1>4, SMT
  <2> QED BY <1>1, <2>1 DEF MultiRunning, EntryOK
<1>8. Counted(container', acl_map')
  BY <1>5, <1>6, <1>7, UndoneCounted DEF LiveInv, UsageOK
<1> HIDE DEF u, v
<1>9. ASSUME Len(v) > 0
      PROVE  Matched(v[1].record, v[1].was.container, container')
  <2>1. 1 \in 1 .. Len(u) - 1 /\ v[1] = u[1 + 1]
    BY <1>4, <1>9, SMT
  <2> QED BY <1>5, <1>6, <2>1
<1>10. ASSUME NEW i \in 1 .. Len(v) - 1
       PROVE  Matched(v[i + 1].record, v[i + 1].was.container, v[i].was.container)
  <2>1. /\ i + 1 \in 1 .. Len(u) - 1
        /\ v[i] = u[i + 1] /\ v[i + 1] = u[(i + 1) + 1]
    BY <1>4, SMT
  <2> QED BY <1>5, <2>1
<1> QED BY <1>3, <1>8, <1>9, <1>10 DEF UsageOK

\* Every step before finalize() keeps the users counted.
LEMMA NextUsage ==
    ASSUME RootKept, UsageInv, [Next]_vars, ~finalized'
    PROVE  LiveInv' /\ UsageOK'
<1>1. ~finalized
  BY Zenon DEF Next, vars, otherVars, getSessionID, Write, SetACL, ReadFound,
     ExistsNot, Refused, Throws, Auth, MultiBegin, MultiRefused, Heartbeat,
     Close, MultiStep, MultiUndo, MultiEnd, finalize
<1>2. LiveInv /\ UsageOK
  BY <1>1 DEF UsageInv
<1>3. LiveInv'
  BY <1>2, NextPreserves DEF IInv
<1>4. ~finalize
  BY DEF finalize
<1>5. CASE \/ \E t \in SessionTimeout : getSessionID(t)
           \/ \E s \in IssuedSession, r \in Requests :
                  \/ ReadFound(s, r) \/ ExistsNot(s, r) \/ Refused(s, r)
                  \/ Throws(s, r) \/ Auth(s, r) \/ MultiRefused(s, r)
           \/ \E s \in IssuedSession : Heartbeat(s)
           \/ UNCHANGED vars
  <2>1. multi' = multi /\ container' = container /\ acl_map' = acl_map
    BY <1>5, ZenonT(60) DEF getSessionID, ReadFound, ExistsNot, Refused, Throws, Auth,
       MultiRefused, Heartbeat, treeVars, vars
  <2> QED BY <1>2, <1>3, <2>1 DEF UsageOK
<1>6. CASE \E s \in IssuedSession, r \in Requests : Write(s, r)
  BY <1>2, <1>3, <1>6, WriteUsage
<1>7. CASE \E s \in IssuedSession, r \in Requests : SetACL(s, r)
  BY <1>2, <1>3, <1>7, SetACLUsage
<1>8. CASE \E s \in IssuedSession, r \in Requests : MultiBegin(s, r)
  <2>0. PICK s \in IssuedSession, r \in Requests : MultiBegin(s, r)
    BY <1>8
  <2>1. multi'.undo = <<>> /\ container' = container /\ acl_map' = acl_map
    BY <2>0 DEF MultiBegin, treeVars
  <2>2. Len(multi'.undo) = 0 /\ \A i \in 1 .. Len(multi'.undo) - 1 : FALSE
    BY <2>1, SMT
  <2>3. ~(Len(multi'.undo) > 0)
    BY <2>2, SMT
  <2> QED BY <1>2, <1>3, <2>1, <2>2, <2>3 DEF UsageOK
<1>9. CASE \E s \in IssuedSession : Close(s)
  BY <1>2, <1>3, <1>9, CloseUsage
<1>10. CASE MultiStep
  BY <1>2, <1>3, <1>10, MultiStepUsage
<1>11. CASE MultiUndo
  BY <1>2, <1>3, <1>11, MultiUndoUsage
<1>12. CASE MultiEnd
  <2>1. multi' = NoMulti /\ container' = container /\ acl_map' = acl_map
    BY <1>12 DEF MultiEnd, treeVars
  <2> QED BY <1>2, <1>3, <2>1 DEF UsageOK
<1> QED BY <1>3, <1>4, <1>5, <1>6, <1>7, <1>8, <1>9, <1>10, <1>11, <1>12
        DEF Next

\* Until finalize(), for every set of requests that keep "/" in their multis:
\* the usage counter of an ACL number is at least the number of nodes that
\* carry it, half-way through a multi and its undo too.  removeUsage() never
\* drops a list that a node still refers to.
THEOREM ACLUsageAlwaysCounted ==
    ASSUME RootKept PROVE Spec => [](~finalized => ACLUsageCounted)
<1>1. Init => UsageInv
  <2>1. SUFFICES ASSUME Init PROVE LiveInv /\ UsageOK
    BY DEF UsageInv
  <2>2. /\ DOMAIN container = {Root} /\ container[Root] = NewNode(0, 0, 0)
        /\ multi = NoMulti
    BY <2>1 DEF Init
  <2>3. IsFiniteSet(DOMAIN container)
    BY <2>2, FS_Singleton
  <2>4. \A id \in Nat \ {0} : Users(container, id) = {}
    <3>1. NewNode(0, 0, 0).acl_id = 0
      BY DEF NewNode
    <3> QED BY <2>2, <3>1 DEF Users
  <2> QED BY <2>1, <2>2, <2>3, <2>4, InitEstablishes DEF UsageOK, Counted
<1>2. UsageInv /\ [Next]_vars => UsageInv'
  BY NextUsage DEF UsageInv
<1>3. UsageInv => (~finalized => ACLUsageCounted)
  BY UsageImplies DEF UsageInv
<1> QED BY <1>1, <1>2, <1>3, PTL DEF Spec

-----------------------------------------------------------------------------
\* The hypothesis about watches: no data watch is set on the path of a
\* sequential node.  A sequential create looks for watches at the path of the
\* request, not at the one it creates.
NumberedUnwatched ==
    \A r \in Requests :
        r.op \in {"Get", "Exists"} /\ r.has_watch => ~Numbered(r.path)

\* The paths whose watches MultiEnd will trigger.
WatchedBy(rs) == UNION {watchedPaths(r) : r \in rs}

ListWatchedBy(rs) == UNION {listWatchedPaths(r) : r \in rs}

subRequests == {multi.requests[i] : i \in DOMAIN multi.requests}

\* A container the running multi has made differs from the one before it only
\* where MultiEnd will look for watches.
Within(c) ==
    OnlyAt(multi.before.container, c, WatchedBy(subRequests),
           ListWatchedBy(subRequests))

\* What the inductive invariant for WatchedChangesNotify adds to LiveInv.
WatchedOK ==
    /\ \A w \in watches : ~Numbered(w[1])
    /\ \A w \in list_watches : w[1] \in DOMAIN committed
    /\ multi # NoMulti => /\ Within(container)
                          /\ \A i \in 1 .. Len(multi.undo) :
                                 Within(multi.undo[i].was.container)

WatchedInv == ~finalized => LiveInv /\ WatchedOK

\* What WatchedChangesNotify says of a step.
Notified ==
    /\ \A w \in watches \cap watches' : untouched(w[1], committed, committed')
    /\ \A w \in list_watches \cap list_watches' :
           /\ w[1] \in DOMAIN committed /\ w[1] \in DOMAIN committed'
           /\ committed[w[1]].children = committed'[w[1]].children

\* The watches before and after a step, and where it changes the tree.
WatchStep(P, L) ==
    /\ OnlyAt(committed, committed', P, L)
    /\ \A w \in watches' : /\ w \in watches => w[1] \notin P
                           /\ w \notin watches => ~Numbered(w[1])
    /\ \A w \in list_watches' :
           /\ w \in list_watches => w[1] \notin L
           /\ w \notin list_watches => w[1] \in DOMAIN committed'

\* Such a step is noticed.
LEMMA StepNotifies ==
    ASSUME WatchedOK, NEW P, NEW L, WatchStep(P, L)
    PROVE  /\ Notified
           /\ \A w \in watches' : ~Numbered(w[1])
           /\ \A w \in list_watches' : w[1] \in DOMAIN committed'
<1>1. \A w \in watches' : ~Numbered(w[1])
  BY DEF WatchStep, WatchedOK
<1>2. ASSUME NEW w \in watches \cap watches'
      PROVE  untouched(w[1], committed, committed')
  <2>1. w[1] \notin P /\ ~Numbered(w[1])
    BY <1>1 DEF WatchStep
  <2> QED BY <2>1 DEF WatchStep, OnlyAt
<1>3. ASSUME NEW w \in list_watches \cap list_watches'
      PROVE  /\ w[1] \in DOMAIN committed /\ w[1] \in DOMAIN committed'
             /\ committed[w[1]].children = committed'[w[1]].children
  <2>1. w[1] \notin L /\ w[1] \in DOMAIN committed
    BY DEF WatchStep, WatchedOK
  <2> QED BY <2>1 DEF WatchStep, OnlyAt
<1>4. \A w \in list_watches' : w[1] \in DOMAIN committed'
  BY <1>3 DEF WatchStep
<1> QED BY <1>1, <1>2, <1>3, <1>4 DEF Notified

\* Steps that trigger the watches of the places they change, and set none.
LEMMA TriggeringStep ==
    ASSUME WatchedOK, NEW P, NEW L, OnlyAt(committed, committed', P, L),
           watches' \subseteq watches \ on(watches, P),
           list_watches' \subseteq list_watches \ on(list_watches, L)
    PROVE  /\ Notified
           /\ \A w \in watches' : ~Numbered(w[1])
           /\ \A w \in list_watches' : w[1] \in DOMAIN committed'
<1>1. WatchStep(P, L)
  BY DEF WatchStep, on
<1> QED BY <1>1, StepNotifies

\* Steps outside a multi that trigger the watches of the places they change.
LEMMA SingleStep ==
    ASSUME WatchedOK, multi = NoMulti, multi' = NoMulti, NEW P, NEW L,
           OnlyAt(container, container', P, L),
           watches' \subseteq watches \ on(watches, P),
           list_watches' \subseteq list_watches \ on(list_watches, L)
    PROVE  WatchedOK' /\ Notified
<1>1. committed = container /\ committed' = container'
  BY DEF committed
<1>2. /\ Notified
      /\ \A w \in watches' : ~Numbered(w[1])
      /\ \A w \in list_watches' : w[1] \in DOMAIN committed'
  BY <1>1, TriggeringStep
<1> QED BY <1>2 DEF WatchedOK

\* Create, Remove and Set.
LEMMA WriteNotifies ==
    ASSUME LiveInv, WatchedOK, NEW s \in IssuedSession, NEW r \in Requests,
           Write(s, r)
    PROVE  WatchedOK' /\ Notified
<1>1. /\ multi = NoMulti /\ multi' = NoMulti
      /\ SubRequestError(s, r) = "ZOK"
      /\ container' = Effect(s, r, zxid').container
      /\ processWatches({r})
  BY DEF Write, Committed, Idle, SubRequestEffect
<1>2. r \in SubRequest /\ WellFormed(r)
  BY RequestKinds, RequestsAssumption DEF Write
<1>3. OnlyAt(container, container', watchedPaths(r), listWatchedPaths(r))
  BY <1>1, <1>2, EffectOnlyAt DEF LiveInv
<1>4. /\ watches' \subseteq watches \ on(watches, watchedPaths(r))
      /\ list_watches' \subseteq list_watches \ on(list_watches, listWatchedPaths(r))
  BY <1>1 DEF processWatches, on
<1> QED BY <1>1, <1>3, <1>4, SingleStep

\* SetACL: no watch is about the access list.
LEMMA SetACLNotifies ==
    ASSUME LiveInv, WatchedOK, NEW s \in IssuedSession, NEW r \in Requests,
           SetACL(s, r)
    PROVE  WatchedOK' /\ Notified
<1> DEFINE path == r.path
           id == ACLNumber(acl_map, fixupACL(r.acls, AuthsOf(s)))
           node == [container[path] EXCEPT !.acl_id = id, !.aversion = @ + 1]
<1>1. /\ multi = NoMulti /\ multi' = NoMulti
      /\ path \in DOMAIN container
      /\ container' = [container EXCEPT ![path] = node]
      /\ watches' = watches /\ list_watches' = list_watches
  BY Zenon DEF SetACL, Committed, Idle, exists, watchVars
<1>2. container[path] \in Node
  BY <1>1, Containers DEF IsContainer
<1> HIDE DEF id
<1>3. /\ node.czxid = container[path].czxid
      /\ node.mzxid = container[path].mzxid
      /\ node.children = container[path].children
  BY <1>2 DEF Node
<1> HIDE DEF node
<1>4. /\ DOMAIN container' = DOMAIN container
      /\ \A q \in DOMAIN container :
             container'[q] = IF q = path THEN node ELSE container[q]
  BY <1>1
<1>5. OnlyAt(container, container', {}, {})
  <2>1. \A q \in DOMAIN container :
            /\ container'[q].czxid = container[q].czxid
            /\ container'[q].mzxid = container[q].mzxid
            /\ container'[q].children = container[q].children
    BY <1>3, <1>4
  <2> QED BY <1>4, <2>1 DEF OnlyAt, untouched
<1>6. /\ watches' \subseteq watches \ on(watches, {})
      /\ list_watches' \subseteq list_watches \ on(list_watches, {})
  BY <1>1 DEF on
<1> QED BY <1>1, <1>5, <1>6, SingleStep

\* Close.
LEMMA CloseNotifies ==
    ASSUME LiveInv, WatchedOK, NEW s, Close(s)
    PROVE  WatchedOK' /\ Notified
<1> DEFINE own == owned(tree, s)
           L == own \cup {parentPath(e) : e \in own}
<1>1. /\ multi = NoMulti /\ multi' = NoMulti
      /\ container' = Closed(tree, s).container
      /\ watches' \subseteq watches \ on(watches, own)
      /\ list_watches' \subseteq list_watches \ on(list_watches, L)
  BY DEF Close, Idle
<1>2. IsTree(tree) /\ tree.container = container
  BY DEF LiveInv, tree
<1>3. OnlyAt(container, container', own, L)
  BY <1>1, <1>2, ClosedOnlyAt
<1> HIDE DEF own, L
<1> QED BY <1>1, <1>3, SingleStep

\* Requests that leave the tree alone; a read may set a watch.
LEMMA ReadNotifies ==
    ASSUME LiveInv, WatchedOK, NumberedUnwatched, NEW r \in Requests,
           multi = NoMulti, multi' = NoMulti, container' = container,
           \/ UNCHANGED watchVars
           \/ \E s : /\ addWatch(s, r) /\ r.has_watch
                     /\ r.op \in {"Get", "Exists", "List", "GetACL"}
                     /\ r.op # "Exists" => r.path \in DOMAIN container
    PROVE  WatchedOK' /\ Notified
<1>1. committed = container /\ committed' = container
  BY DEF committed
<1>2. OnlyAt(committed, committed', {}, {})
  BY <1>1, OnlyAtItself
<1>3. CASE UNCHANGED watchVars
  <2>1. watches' = watches /\ list_watches' = list_watches
    BY <1>3 DEF watchVars
  <2>2. WatchStep({}, {})
    BY <1>2, <2>1 DEF WatchStep
  <2> QED BY <2>2, StepNotifies DEF WatchedOK
<1>4. ASSUME NEW s, addWatch(s, r), r.has_watch,
             r.op \in {"Get", "Exists", "List", "GetACL"},
             r.op # "Exists" => r.path \in DOMAIN container
      PROVE  WatchedOK' /\ Notified
  <2>1. <<r.path, s>>[1] = r.path
    OBVIOUS
  <2>2. CASE r.op = "List"
    <3>1. watches' = watches /\ list_watches' = list_watches \cup {<<r.path, s>>}
      BY <1>4, <2>2 DEF addWatch
    <3>2. r.path \in DOMAIN committed'
      BY <1>1, <1>4, <2>2
    <3>3. WatchStep({}, {})
      BY <1>2, <2>1, <3>1, <3>2 DEF WatchStep
    <3> QED BY <3>3, StepNotifies DEF WatchedOK
  <2>3. CASE r.op # "List"
    <3>1. watches' = watches \cup {<<r.path, s>>} /\ list_watches' = list_watches
      BY <1>4, <2>3 DEF addWatch
    <3>2. ~Numbered(r.path)
      <4>1. r.op # "GetACL"
        BY <1>4, RequestKinds DEF ReadRequest
      <4> QED BY <1>4, <2>3, <4>1 DEF NumberedUnwatched
    <3>3. WatchStep({}, {})
      BY <1>2, <2>1, <3>1, <3>2 DEF WatchStep
    <3> QED BY <3>3, StepNotifies DEF WatchedOK
  <2> QED BY <2>2, <2>3
<1> QED BY <1>3, <1>4

-----------------------------------------------------------------------------
\* A multi begins with the container it will be compared with.
LEMMA MultiBeginNotifies ==
    ASSUME LiveInv, WatchedOK, NEW s, NEW r, MultiBegin(s, r)
    PROVE  WatchedOK' /\ Notified
<1>1. /\ multi = NoMulti /\ container' = container
      /\ multi'.before = tree /\ multi'.undo = <<>> /\ multi'.phase = "run"
      /\ watches' = watches /\ list_watches' = list_watches
  BY DEF MultiBegin, Committed, Idle, treeVars, watchVars
<1>2. multi' # NoMulti
  BY <1>1, SMT DEF NoMulti
<1>3. tree.container = container
  BY DEF tree
<1>4. committed = container /\ committed' = container
  BY <1>1, <1>2, <1>3 DEF committed
<1>5. WatchStep({}, {})
  BY <1>1, <1>4, OnlyAtItself DEF WatchStep
<1>6. Within(container)'
  BY <1>1, <1>3, OnlyAtItself DEF Within
<1>7. \A i \in 1 .. Len(multi'.undo) : FALSE
  BY <1>1, SMT
<1> QED BY <1>5, <1>6, <1>7, StepNotifies DEF WatchedOK

\* The steps of a multi leave the committed state and the watches alone.
LEMMA MultiQuiet ==
    ASSUME WatchedOK, multi # NoMulti, multi' # NoMulti,
           multi'.before = multi.before, UNCHANGED watchVars
    PROVE  /\ Notified
           /\ \A w \in watches' : ~Numbered(w[1])
           /\ \A w \in list_watches' : w[1] \in DOMAIN committed'
<1>1. committed' = committed /\ watches' = watches /\ list_watches' = list_watches
  BY DEF committed, watchVars
<1>2. WatchStep({}, {})
  BY <1>1, OnlyAtItself DEF WatchStep
<1> QED BY <1>2, StepNotifies

\* A sub-request of a multi, and its failure.
LEMMA MultiStepNotifies ==
    ASSUME LiveInv, WatchedOK, MultiStep
    PROVE  WatchedOK' /\ Notified
<1> DEFINE s == multi.session
           n == multi.done + 1
           r == multi.requests[n]
           u == multi.undo
           b == multi.before.container
           P == WatchedBy(subRequests)
           L == ListWatchedBy(subRequests)
<1>1. multi # NoMulti /\ MultiRunning
  BY SMT DEF LiveInv, MultiOK, MultiStep, NoMulti
<1>2. PICK S : multi \in [phase : {"run", "undo"}, session : IssuedSession,
                      requests : Seq(SubRequest), done : Nat, undo : Seq(S),
                      before : S]
  BY <1>1 DEF MultiRunning, MultiShape
<1>3. /\ OnlyAt(b, container, P, L)
      /\ \A i \in 1 .. Len(u) : OnlyAt(b, u[i].was.container, P, L)
  BY <1>1 DEF WatchedOK, Within
<1>4. CASE /\ SubRequestError(s, r) = "ZOK"
           /\ SubRequestEffect(s, r, zxid)
           /\ multi' = [multi EXCEPT
                           !.done = @ + 1,
                           !.undo = <<[record |-> UndoRecord(s, r),
                                       was |-> tree]>> \o @]
  <2> DEFINE x == [record |-> UndoRecord(s, r), was |-> tree]
             v == <<x>> \o u
  <2>1. r \in SubRequest /\ WellFormed(r) /\ r \in subRequests
    <3>1. n \in 1 .. Len(multi.requests) /\ n \in DOMAIN multi.requests
      BY <1>2, SMT DEF MultiStep
    <3>2. r \in SubRequest /\ WellFormed(r)
      BY <1>1, <1>2, <3>1, SMT DEF MultiRunning
    <3> QED BY <3>1, <3>2 DEF subRequests
  <2>2. /\ multi'.before = multi.before /\ multi'.undo = v
        /\ multi'.phase = multi.phase /\ multi'.requests = multi.requests
    BY <1>2, <1>4
  <2>3. multi' # NoMulti /\ UNCHANGED watchVars /\ subRequests' = subRequests
    BY <1>2, <2>2, SMT DEF NoMulti, MultiStep, subRequests
  <2>4. OnlyAt(b, container', P, L)
    <3>1. OnlyAt(container, container', watchedPaths(r), listWatchedPaths(r))
      BY <1>4, <2>1, EffectOnlyAt DEF SubRequestEffect, LiveInv
    <3>2. watchedPaths(r) \subseteq P /\ listWatchedPaths(r) \subseteq L
      BY <2>1 DEF WatchedBy, ListWatchedBy
    <3>3. OnlyAt(b, container, P, L)
      BY <1>3
    <3> DEFINE Q == watchedPaths(r)
               M == listWatchedPaths(r)
    <3> HIDE DEF P, L, Q, M, b
    <3>4. OnlyAt(container, container', Q, M) /\ Q \subseteq P /\ M \subseteq L
      BY <3>1, <3>2 DEF Q, M
    <3> QED BY <3>3, <3>4, OnlyAtComposes
  <2>5. /\ Len(u) \in Nat /\ Len(v) = Len(u) + 1 /\ v[1] = x
        /\ \A i \in 1 .. Len(u) : v[i + 1] = u[i]
    <3>1. u \in Seq(S \cup {x}) /\ <<x>> \in Seq(S \cup {x})
      BY <1>2, SMT
    <3> HIDE DEF u, x
    <3> QED BY <3>1, SMT
  <2>6. x.was.container = container
    BY DEF tree
  <2> HIDE DEF x, v, P, L, b
  <2>7. ASSUME NEW i \in 1 .. Len(v) PROVE OnlyAt(b, v[i].was.container, P, L)
    <3>1. CASE i = 1
      BY <1>3, <2>5, <2>6, <3>1
    <3>2. CASE i # 1
      <4>1. i - 1 \in 1 .. Len(u) /\ v[(i - 1) + 1] = u[i - 1] /\ (i - 1) + 1 = i
        BY <2>5, <3>2, SMT
      <4> QED BY <1>3, <4>1
    <3> QED BY <3>1, <3>2
  <2>8. Within(container)'
    BY <2>2, <2>3, <2>4 DEF Within, P, L, b
  <2>9. ASSUME NEW i \in 1 .. Len(multi'.undo)
        PROVE  Within(multi.undo[i].was.container)'
    BY <2>2, <2>3, <2>7 DEF Within, P, L, b
  <2> QED BY <1>1, <2>2, <2>3, <2>8, <2>9, MultiQuiet DEF WatchedOK
<1>5. CASE /\ multi' = [multi EXCEPT !.phase = "undo"]
           /\ UNCHANGED treeVars
  <2>1. /\ multi'.before = multi.before /\ multi'.undo = multi.undo
        /\ multi'.phase = "undo" /\ multi'.requests = multi.requests
        /\ container' = container /\ UNCHANGED watchVars
    BY <1>2, <1>5 DEF treeVars, MultiStep
  <2>2. multi' # NoMulti
    BY <2>1, SMT DEF NoMulti
  <2>3. subRequests' = subRequests
    BY <2>1 DEF subRequests
  <2>4. Within(container)'
    BY <1>3, <2>1, <2>3 DEF Within
  <2>5. ASSUME NEW i \in 1 .. Len(multi'.undo)
        PROVE  Within(multi.undo[i].was.container)'
    BY <1>3, <2>1, <2>3 DEF Within
  <2> QED BY <1>1, <2>1, <2>2, <2>4, <2>5, MultiQuiet DEF WatchedOK
<1> QED BY <1>4, <1>5 DEF MultiStep

\* An undo closure leads back to a container the multi has made before.
LEMMA MultiUndoNotifies ==
    ASSUME LiveInv, WatchedOK, MultiUndo
    PROVE  WatchedOK' /\ Notified
<1> DEFINE u == multi.undo
<1>1. multi # NoMulti /\ MultiRunning
  BY SMT DEF LiveInv, MultiOK, MultiUndo, NoMulti
<1>2. PICK S : multi \in [phase : {"run", "undo"}, session : IssuedSession,
                      requests : Seq(SubRequest), done : Nat, undo : Seq(S),
                      before : S]
  BY <1>1 DEF MultiRunning, MultiShape
<1>3. u # <<>> /\ u \in Seq(S) /\ UNCHANGED watchVars
  BY <1>2 DEF MultiUndo
<1>4. \A i \in 1 .. Len(u) : Within(u[i].was.container)
  BY <1>1 DEF WatchedOK
<1>5. /\ multi'.before = multi.before /\ multi'.undo = Tail(u)
      /\ multi'.phase = "undo" /\ multi'.requests = multi.requests
  BY <1>2 DEF MultiUndo
<1>6. multi' # NoMulti
  BY <1>5, SMT DEF NoMulti
<1>7. subRequests' = subRequests
  BY <1>5 DEF subRequests
<1>8. /\ Len(u) \in Nat /\ Len(u) > 0 /\ Head(u) = u[1]
      /\ Len(Tail(u)) = Len(u) - 1
      /\ \A i \in 1 .. Len(u) - 1 : Tail(u)[i] = u[i + 1]
  <2> HIDE DEF u
  <2> QED BY <1>3, SMT
<1>9. container' = u[1].was.container
  <2>1. Undone(tree, u[1].record) = u[1].was
    BY <1>1, <1>8 DEF MultiRunning, UndoChain
  <2> QED BY <1>8, <2>1 DEF MultiUndo, Undo
<1>10. Within(container)'
  <2>1. Within(u[1].was.container)
    BY <1>4, <1>8, SMT
  <2> QED BY <1>5, <1>7, <1>9, <2>1 DEF Within
<1>11. ASSUME NEW i \in 1 .. Len(multi'.undo)
       PROVE  Within(multi.undo[i].was.container)'
  <2>1. i + 1 \in 1 .. Len(u) /\ multi'.undo[i] = u[i + 1]
    BY <1>5, <1>8, SMT
  <2>2. Within(u[i + 1].was.container)
    BY <1>4, <2>1
  <2> QED BY <1>5, <1>7, <2>1, <2>2 DEF Within
<1> QED BY <1>1, <1>3, <1>5, <1>6, <1>10, <1>11, MultiQuiet DEF WatchedOK

\* A multi ends: its watches are looked up, whether or not it failed.
LEMMA MultiEndNotifies ==
    ASSUME LiveInv, WatchedOK, MultiEnd
    PROVE  WatchedOK' /\ Notified
<1> DEFINE P == WatchedBy(subRequests)
           L == ListWatchedBy(subRequests)
<1>1. multi # NoMulti
  BY SMT DEF MultiEnd, NoMulti
<1>2. multi' = NoMulti /\ container' = container /\ processWatches(subRequests)
  BY DEF MultiEnd, treeVars, subRequests
<1>3. committed = multi.before.container /\ committed' = container
  BY <1>1, <1>2 DEF committed
<1>4. OnlyAt(committed, committed', P, L)
  BY <1>1, <1>3 DEF WatchedOK, Within
<1>5. /\ watches' \subseteq watches \ on(watches, P)
      /\ list_watches' \subseteq list_watches \ on(list_watches, L)
  BY <1>2 DEF processWatches, WatchedBy, ListWatchedBy
<1> HIDE DEF P, L
<1> QED BY <1>2, <1>4, <1>5, TriggeringStep DEF WatchedOK

-----------------------------------------------------------------------------
\* Every step before finalize() keeps the invariant and is noticed.
LEMMA NextNotifies ==
    ASSUME RootKept, NumberedUnwatched, WatchedInv, [Next]_vars, ~finalized'
    PROVE  LiveInv' /\ WatchedOK' /\ [Notified]_vars
<1>1. ~finalized
  BY Zenon DEF Next, vars, otherVars, getSessionID, Write, SetACL, ReadFound,
     ExistsNot, Refused, Throws, Auth, MultiBegin, MultiRefused, Heartbeat,
     Close, MultiStep, MultiUndo, MultiEnd, finalize
<1>2. LiveInv /\ WatchedOK
  BY <1>1 DEF WatchedInv
<1>3. LiveInv'
  BY <1>2, NextPreserves DEF IInv
<1>4. ~finalize
  BY DEF finalize
<1>5. CASE \/ \E t \in SessionTimeout : getSessionID(t)
           \/ \E s \in IssuedSession, r \in Requests :
                  Refused(s, r) \/ Throws(s, r) \/ Auth(s, r) \/ MultiRefused(s, r)
           \/ \E s \in IssuedSession : Heartbeat(s)
  <2>1. /\ multi = NoMulti /\ multi' = NoMulti /\ container' = container
        /\ watches' = watches /\ list_watches' = list_watches
    BY <1>5, ZenonT(60) DEF getSessionID, Refused, Throws, Auth, MultiRefused,
       Heartbeat, Read, Committed, Idle, treeVars, watchVars
  <2>2. OnlyAt(container, container', {}, {})
    BY <2>1, OnlyAtItself
  <2>3. /\ watches' \subseteq watches \ on(watches, {})
        /\ list_watches' \subseteq list_watches \ on(list_watches, {})
    BY <2>1 DEF on
  <2> QED BY <1>2, <1>3, <2>1, <2>2, <2>3, SingleStep
<1>6. ASSUME NEW s \in IssuedSession, NEW r \in Requests,
             ReadFound(s, r) \/ ExistsNot(s, r)
      PROVE  WatchedOK' /\ Notified
  <2>1. multi = NoMulti /\ multi' = NoMulti /\ container' = container
    BY <1>6 DEF ReadFound, ExistsNot, Read, Committed, Idle, treeVars
  <2>2. \/ UNCHANGED watchVars
        \/ /\ addWatch(s, r) /\ r.has_watch
           /\ r.op \in {"Get", "Exists", "List", "GetACL"}
           /\ r.op # "Exists" => r.path \in DOMAIN container
    BY <1>6 DEF ReadFound, ExistsNot, isReadRequest, exists
  <2> QED BY <1>2, <2>1, <2>2, ReadNotifies
<1>7. CASE \E s \in IssuedSession, r \in Requests : Write(s, r)
  BY <1>2, <1>3, <1>7, WriteNotifies
<1>8. CASE \E s \in IssuedSession, r \in Requests : SetACL(s, r)
  BY <1>2, <1>3, <1>8, SetACLNotifies
<1>9. CASE \E s \in IssuedSession, r \in Requests : MultiBegin(s, r)
  BY <1>2, <1>3, <1>9, MultiBeginNotifies
<1>10. CASE \E s \in IssuedSession : Close(s)
  BY <1>2, <1>3, <1>10, CloseNotifies
<1>11. CASE MultiStep
  BY <1>2, <1>3, <1>11, MultiStepNotifies
<1>12. CASE MultiUndo
  BY <1>2, <1>3, <1>12, MultiUndoNotifies
<1>13. CASE MultiEnd
  BY <1>2, <1>3, <1>13, MultiEndNotifies
<1>14. CASE UNCHANGED vars
  <2>1. /\ multi' = multi /\ container' = container
        /\ watches' = watches /\ list_watches' = list_watches
    BY <1>14 DEF vars, treeVars, watchVars
  <2>2. WatchedOK'
    BY <1>2, <2>1 DEF WatchedOK, Within, subRequests, committed
  <2> QED BY <1>3, <1>14, <2>2
<1> QED BY <1>3, <1>4, <1>5, <1>6, <1>7, <1>8, <1>9, <1>10, <1>11, <1>12, <1>13,
           <1>14 DEF Next

\* Until finalize(), for every set of requests that keep "/" in their multis
\* and watch no sequential node: a watch that survives a step has missed
\* nothing, whether the step is a single request, the Close of a session with
\* any number of ephemeral nodes, or the end of a multi that succeeded or failed.
THEOREM WatchedChangesAlwaysNotify ==
    ASSUME RootKept, NumberedUnwatched
    PROVE  Spec /\ []~finalized => WatchedChangesNotify
<1>1. Init => WatchedInv
  <2>1. SUFFICES ASSUME Init PROVE LiveInv /\ WatchedOK
    BY DEF WatchedInv
  <2>2. watches = {} /\ list_watches = {} /\ multi = NoMulti
    BY <2>1 DEF Init
  <2> QED BY <2>1, <2>2, InitEstablishes DEF WatchedOK
<1>2. WatchedInv /\ [Next]_vars => WatchedInv'
  BY NextNotifies DEF WatchedInv
<1>3. WatchedInv /\ [Next]_vars /\ (~finalized)' =>
          [/\ \A w \in watches \cap watches' :
                  untouched(w[1], committed, committed')
           /\ \A w \in list_watches \cap list_watches' :
                  /\ w[1] \in DOMAIN committed /\ w[1] \in DOMAIN committed'
                  /\ committed[w[1]].children = committed'[w[1]].children]_vars
  BY NextNotifies DEF Notified
<1> QED BY <1>1, <1>2, <1>3, PTL DEF Spec, WatchedChangesNotify
=============================================================================
