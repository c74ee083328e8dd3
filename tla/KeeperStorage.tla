---------------------------- MODULE KeeperStorage ----------------------------
(***************************************************************************)
(* The Keeper state machine proper (src/Coordination/KeeperStorage.h and   *)
(* .cpp): the tree of nodes, the sessions with their ephemeral nodes and   *)
(* watches, the ACL numbering, and the processing of every request type.   *)
(*                                                                         *)
(* One request is processed under a lock, so one request is one action.    *)
(* The exception is a multi request, which the code too executes as a loop *)
(* over its sub-requests with a list of undo closures: here MultiBegin,    *)
(* MultiStep, MultiUndo and MultiEnd, with every other action disabled in  *)
(* between.                                                                *)
(*                                                                         *)
(* Left out: node data with its length and modification time (they change  *)
(* together with mzxid), byte counters, response bodies, and the fields    *)
(* that only the ZooKeeper log converter sets (parent_cversion,            *)
(* restored_from_zookeeper_log).  The lists of sessions per watched path   *)
(* are sets here: how often a session is listed is not modelled.           *)
(***************************************************************************)
EXTENDS Sequences, FiniteSets, ACLMap

CONSTANTS
    BaseName,       \* names a client can give to a node
    EmptyName,      \* the empty one, as in "/queue/"
    AuthID,         \* digests a session can authenticate with
    SuperID,        \* the administrator's
    SessionTimeout, \* timeouts a client can ask for
    Requests,       \* requests (other than Close, Heartbeat) clients send
    MaxSessions,    \* bound on the number of sessions created
    MaxZxid         \* bound on the number of log entries applied

\* A sequential node is named by its base name and the parent's counter,
\* printed with ten digits: two different pairs never give the same string.
Component == BaseName \cup (BaseName \X Int)

SeqName(base, n) == <<base, n>>

Path == Seq(Component)

Root == <<>>

parentPath(path) ==
    IF path = Root THEN Root ELSE SubSeq(path, 1, Len(path) - 1)

getBaseName(path) == IF path = Root THEN EmptyName ELSE path[Len(path)]

Permission == {"Read", "Write", "Create", "Delete", "Admin"}

ACLEntry == [id : AuthID \cup {SuperID}, permissions : SUBSET Permission]

\* An entry of an ACL list as the client sends it.
RequestACL ==
    [scheme : {"world", "auth", "digest", "baddigest", "other"}, id : AuthID,
     permissions : SUBSET Permission]

CreateRequest ==
    [op : {"Create"}, path : Path, is_ephemeral : BOOLEAN,
     is_sequential : BOOLEAN, acls : SUBSET RequestACL]

VersionedRequest ==
    [op : {"Remove", "Set", "Check"}, path : Path, version : Int]

SetACLRequest ==
    [op : {"SetACL"}, path : Path, version : Int, acls : SUBSET RequestACL]

ReadRequest ==
    [op : {"Get", "Exists", "List"}, path : Path, has_watch : BOOLEAN]
        \cup [op : {"GetACL"}, path : Path, has_watch : {FALSE}]

AuthRequest == [op : {"Auth"}, id : AuthID \cup {SuperID}, valid : BOOLEAN]

SubRequest == CreateRequest \cup VersionedRequest

MultiRequest == [op : {"Multi"}, requests : Seq(SubRequest)]

Request ==
    SubRequest \cup SetACLRequest \cup ReadRequest \cup AuthRequest
        \cup MultiRequest

\* Writing a path as the sequence of its components has no place for a
\* sequential node with an empty name directly below the root.
WellFormed(r) ==
    /\ r.op = "Create" /\ r.is_sequential =>
           r.path # Root /\ getBaseName(r.path) \in BaseName
    /\ r.path # <<EmptyName>>

ASSUME NoACLAssumption == NoACL = {}

ASSUME RequestsAssumption ==
    /\ EmptyName \in BaseName
    /\ Requests \subseteq Request
    /\ \A r \in Requests :
           /\ r.op = "Multi" =>
                  \A i \in DOMAIN r.requests : WellFormed(r.requests[i])
           /\ r.op \notin {"Multi", "Auth"} => WellFormed(r)

ASSUME BoundsAssumption ==
    /\ SessionTimeout \subseteq Nat
    /\ MaxSessions \in Nat
    /\ MaxZxid \in Nat

-----------------------------------------------------------------------------
VARIABLES
    container,             \* path -> node
    ephemerals,            \* pairs <<session, path>>
    acl_map,
    watches,               \* pairs <<path, session>>: data and exist watches
    list_watches,          \* pairs <<path, session>>: child watches
    sessions_and_watchers, \* pairs <<session, path>>
    session_and_timeout,   \* session -> timeout
    session_expiry_queue,  \* sessions registered for expiry
    session_and_auth,      \* pairs <<session, digest>>
    session_id_counter,
    zxid,
    finalized,
    thrown,                \* an exception that left processRequest()
    multi                  \* the multi request being executed, or NoMulti

treeVars    == <<container, ephemerals, acl_map>>
watchVars   == <<watches, list_watches, sessions_and_watchers>>
sessionVars == <<session_and_timeout, session_expiry_queue>>
otherVars   == <<session_and_auth, session_id_counter, finalized, thrown>>

vars == <<treeVars, watchVars, sessionVars, otherVars, zxid, multi>>

NoMulti == [phase |-> "none"]

NewNode(acl_id, owner, z) ==
    [acl_id |-> acl_id, ephemeralOwner |-> owner, czxid |-> z, mzxid |-> z,
     pzxid |-> z, version |-> 0, cversion |-> 0, aversion |-> 0,
     numChildren |-> 0, seq_num |-> 0, children |-> {}]

\* No session has the id 0: it marks a persistent node.
Init ==
    /\ container = [p \in {Root} |-> NewNode(0, 0, 0)]
    /\ ephemerals = {}
    /\ acl_map = EmptyACLMap
    /\ watches = {}
    /\ list_watches = {}
    /\ sessions_and_watchers = {}
    /\ session_and_timeout = <<>>
    /\ session_expiry_queue = {}
    /\ session_and_auth = {}
    /\ session_id_counter = 1
    /\ zxid = 0
    /\ finalized = FALSE
    /\ thrown = "never"
    /\ multi = NoMulti

\* Every id that was ever given out: a request may still arrive after its
\* session was closed.
IssuedSession == 1 .. session_id_counter - 1

exists(path) == path \in DOMAIN container

-----------------------------------------------------------------------------
(***************************************************************************)
(* Access control.                                                         *)
(***************************************************************************)

AuthsOf(s) == {id \in AuthID \cup {SuperID} : <<s, id>> \in session_and_auth}

checkACL(needed, acls, auths) ==
    \/ acls = NoACL
    \/ SuperID \in auths
    \/ \E entry \in acls :
           entry.permissions \cap needed # {} /\ entry.id \in auths

\* The list a node will carry: "auth" stands for every digest of the session,
\* "world" is the default and is not stored.
fixupACL(request_acls, auths) ==
    {[id |-> a.id, permissions |-> a.permissions] :
         a \in {b \in request_acls : b.scheme = "digest"}}
    \cup {[id |-> p[1], permissions |-> p[2].permissions] :
              p \in (auths \X {b \in request_acls : b.scheme = "auth"})}

fixupACLFails(request_acls, auths) ==
    /\ request_acls # {}
    /\ \/ \E a \in request_acls : a.scheme = "baddigest"
       \/ \A a \in request_acls :
              \/ a.scheme = "other"
              \/ a.scheme = "auth" /\ auths = {}

\* The node whose ACL decides about r, and the permission r needs there.
checkedPath(r) ==
    IF r.op \in {"Create", "Remove"} THEN parentPath(r.path) ELSE r.path

neededPermission(r) ==
    CASE r.op = "Create" -> {"Create"}
      [] r.op = "Remove" -> {"Delete"}
      [] r.op = "Set"    -> {"Write"}
      [] r.op \in {"Get", "List", "Check"} -> {"Read"}
      [] r.op = "SetACL" -> {"Admin"}
      [] r.op = "GetACL" -> {"Admin", "Read"}

unchecked(r) == r.op = "Exists" \/ ~exists(checkedPath(r))

\* checkAuth() asks for the ACL of a node that has an unknown number.
checkAuthThrows(r) ==
    ~unchecked(r) /\ ~KnownACL(acl_map, container[checkedPath(r)].acl_id)

checkAuth(s, r) ==
    ~unchecked(r) =>
        checkACL(neededPermission(r),
                 convertNumber(acl_map, container[checkedPath(r)].acl_id),
                 AuthsOf(s))

-----------------------------------------------------------------------------
(***************************************************************************)
(* The sub-requests a multi can hold: error code, effect and undo record.  *)
(***************************************************************************)

path_created(r) ==
    IF r.is_sequential
    THEN Append(parentPath(r.path),
                SeqName(getBaseName(r.path),
                        container[parentPath(r.path)].seq_num))
    ELSE r.path

CreateError(s, r) ==
    LET parent == parentPath(r.path)
    IN  IF ~exists(parent) THEN "ZNONODE"
        ELSE IF container[parent].ephemeralOwner # 0
             THEN "ZNOCHILDRENFOREPHEMERALS"
        ELSE IF exists(path_created(r)) THEN "ZNODEEXISTS"
        ELSE IF getBaseName(path_created(r)) = EmptyName THEN "ZBADARGUMENTS"
        ELSE IF fixupACLFails(r.acls, AuthsOf(s)) THEN "ZINVALIDACL"
        ELSE "ZOK"

RemoveError(r) ==
    IF ~exists(r.path) THEN "ZNONODE"
    ELSE IF r.version \notin {-1, container[r.path].version} THEN "ZBADVERSION"
    ELSE IF container[r.path].numChildren # 0 THEN "ZNOTEMPTY"
    ELSE "ZOK"

\* Set and Check refuse in the same cases.
SetError(r) ==
    IF ~exists(r.path) THEN "ZNONODE"
    ELSE IF r.version \notin {-1, container[r.path].version} THEN "ZBADVERSION"
    ELSE "ZOK"

withChild(node, name) ==
    [node EXCEPT !.children = @ \cup {name}, !.numChildren = @ + 1]

\* The count keeps the removed child.
uncountedChild(node, name) == [node EXCEPT !.children = @ \ {name}]

withoutChild(node, name) ==
    [node EXCEPT !.children = @ \ {name}, !.numChildren = @ - 1]

\* The updates a create, a remove and their undo closures make to the parent.
gainChild(node, name, z) ==
    [withChild(node, name) EXCEPT
         !.seq_num = @ + 1,
         !.cversion = @ + 1,
         !.pzxid = IF z > @ THEN z ELSE @]

loseChild(node, name) == [withoutChild(node, name) EXCEPT !.cversion = @ + 1]

\* The parent keeps the zxid of the undone creation.
disownButForZxid(node, name, prev_cversion, prev_zxid) ==
    [withoutChild(node, name) EXCEPT !.seq_num = @ - 1,
                                     !.cversion = prev_cversion]

disownChild(node, name, prev_cversion, prev_zxid) ==
    [withoutChild(node, name) EXCEPT !.seq_num = @ - 1,
                                     !.cversion = prev_cversion,
                                     !.pzxid = prev_zxid]

regainChild(node, name) == [withChild(node, name) EXCEPT !.cversion = @ - 1]

\* A tree t is the record of the container and of the ephemerals.
tree == [container |-> container, ephemerals |-> ephemerals]

\* The ACL list a created node will have.
node_acls(s, r) == fixupACL(r.acls, AuthsOf(s))

Created(t, s, r, path, acl_id, z) ==
    LET parent == parentPath(r.path)
        node   == NewNode(acl_id, IF r.is_ephemeral THEN s ELSE 0, z)
    IN  [container |->
             Put(Put(t.container, path, node), parent,
                 gainChild(t.container[parent], getBaseName(path), z)),
         ephemerals |->
             IF r.is_ephemeral THEN t.ephemerals \cup {<<s, path>>}
                               ELSE t.ephemerals]

\* The index still lists the removed node.
removedUnindexed(t, r) ==
    LET parent == parentPath(r.path)
    IN  [t EXCEPT !.container =
             Drop(Put(@, parent, loseChild(@[parent], getBaseName(r.path))),
                  r.path)]

Removed(t, r) ==
    LET node   == t.container[r.path]
        parent == parentPath(r.path)
    IN  [container |->
             Drop(Put(t.container, parent,
                      loseChild(t.container[parent], getBaseName(r.path))),
                  r.path),
         ephemerals |->
             IF node.ephemeralOwner # 0
             THEN t.ephemerals \ {<<node.ephemeralOwner, r.path>>}
             ELSE t.ephemerals]

\* The data changes and the version does not.
changedSilently(t, r, z) ==
    [t EXCEPT !.container[r.path].mzxid = z,
              !.container[parentPath(r.path)].cversion = @ + 1]

\* The parent is read after the node was written: "/" is its own parent.
Changed(t, r, z) ==
    LET parent  == parentPath(r.path)
        updated == Put(t.container, r.path,
                       [t.container[r.path] EXCEPT !.version = @ + 1,
                                                   !.mzxid = z])
    IN  [container |-> Put(updated, parent,
                           [updated[parent] EXCEPT !.cversion = @ + 1]),
         ephemerals |-> t.ephemerals]

\* The end of session s.  The loop over its nodes takes one name after the
\* other off their parents.
owned(t, s) == {e[2] : e \in {x \in t.ephemerals : x[1] = s}}

ownedBelow(t, s, p) ==
    {getBaseName(e) : e \in {x \in owned(t, s) : parentPath(x) = p}}

Closed(t, s) ==
    [container |->
         [p \in DOMAIN t.container \ owned(t, s) |->
             [t.container[p] EXCEPT
                 !.children = @ \ ownedBelow(t, s, p),
                 !.numChildren = @ - Cardinality(ownedBelow(t, s, p)),
                 !.cversion = @ + Cardinality(ownedBelow(t, s, p))]],
     ephemerals |-> {e \in t.ephemerals : e[1] # s}]

SubRequestError(s, r) ==
    CASE r.op = "Create" -> CreateError(s, r)
      [] r.op = "Remove" -> RemoveError(r)
      [] r.op \in {"Set", "Check"} -> SetError(r)

\* The tree after a sub-request that succeeds.
Effect(s, r, z) ==
    CASE r.op = "Create" ->
             Created(tree, s, r, path_created(r),
                     ACLNumber(acl_map, node_acls(s, r)), z)
      [] r.op = "Remove" -> Removed(tree, r)
      [] r.op = "Set"    -> Changed(tree, r, z)
      [] r.op = "Check"  -> tree

\* The ACL table after it.
Usage(s, r) ==
    CASE r.op = "Create" ->
             addUsage(convertACLs(acl_map, node_acls(s, r)),
                      ACLNumber(acl_map, node_acls(s, r)))
      [] r.op = "Remove" -> removeUsage(acl_map, container[r.path].acl_id)
      [] OTHER -> acl_map

SubRequestEffect(s, r, z) ==
    /\ container' = Effect(s, r, z).container
    /\ ephemerals' = Effect(s, r, z).ephemerals
    /\ acl_map' = Usage(s, r)

\* What the undo closure of a sub-request captures.
UndoRecord(s, r) ==
    CASE r.op = "Create" ->
             LET parent == parentPath(r.path)
             IN  [op |-> "Create", path_created |-> path_created(r),
                  parent_path |-> parent, session |-> s,
                  is_ephemeral |-> r.is_ephemeral,
                  acl_id |-> ACLNumber(acl_map, node_acls(s, r)),
                  prev_parent_cversion |-> container[parent].cversion,
                  prev_parent_zxid |-> container[parent].pzxid]
      [] r.op \in {"Remove", "Set"} ->
             [op |-> r.op, path |-> r.path, prev_node |-> container[r.path]]
      [] r.op = "Check" -> [op |-> "Check"]

UndoCreate(t, u) ==
    [container |->
         Drop(Put(t.container, u.parent_path,
                  disownChild(t.container[u.parent_path],
                              getBaseName(u.path_created),
                              u.prev_parent_cversion, u.prev_parent_zxid)),
              u.path_created),
     ephemerals |->
         IF u.is_ephemeral
         THEN t.ephemerals \ {<<u.session, u.path_created>>}
         ELSE t.ephemerals]

\* The owner of the restored node is not entered into the index.
unremovedUnindexed(t, u) ==
    LET parent == parentPath(u.path)
    IN  [t EXCEPT !.container =
             Put(Put(@, u.path, u.prev_node), parent,
                 regainChild(@[parent], getBaseName(u.path)))]

UndoRemove(t, u) ==
    LET parent   == parentPath(u.path)
        inserted == Put(t.container, u.path, u.prev_node)
    IN  [container |->
             Put(inserted, parent,
                 regainChild(inserted[parent], getBaseName(u.path))),
         ephemerals |->
             IF u.prev_node.ephemeralOwner # 0
             THEN t.ephemerals \cup {<<u.prev_node.ephemeralOwner, u.path>>}
             ELSE t.ephemerals]

UndoSet(t, u) ==
    LET parent   == parentPath(u.path)
        restored == Put(t.container, u.path, u.prev_node)
    IN  [container |-> Put(restored, parent,
                           [restored[parent] EXCEPT !.cversion = @ - 1]),
         ephemerals |-> t.ephemerals]

\* The tree t after the closure u has run on it.
Undone(t, u) ==
    CASE u.op = "Create" -> UndoCreate(t, u)
      [] u.op = "Remove" -> UndoRemove(t, u)
      [] u.op = "Set"    -> UndoSet(t, u)
      [] u.op = "Check"  -> t

\* The ACL table after it.
UndoneUsage(u) ==
    CASE u.op = "Create" -> removeUsage(acl_map, u.acl_id)
      [] u.op = "Remove" -> addUsage(acl_map, u.prev_node.acl_id)
      [] OTHER -> acl_map

Undo(u) ==
    /\ container' = Undone(tree, u).container
    /\ ephemerals' = Undone(tree, u).ephemerals
    /\ acl_map' = UndoneUsage(u)

-----------------------------------------------------------------------------
(***************************************************************************)
(* Watches.                                                                *)
(***************************************************************************)

on(relation, paths) == {w \in relation : w[1] \in paths}

\* The paths whose data watches and whose list watches a successful request
\* triggers.  A sequential create looks at the path of the request.
watchedPaths(r) == IF r.op \in {"Create", "Remove", "Set"} THEN {r.path} ELSE {}

\* A removal forgets the list watches of the node itself.
listWatchedParents(r) ==
    IF r.op \in {"Create", "Remove"} THEN {parentPath(r.path)} ELSE {}

listWatchedPaths(r) ==
    CASE r.op = "Create" -> {parentPath(r.path)}
      [] r.op = "Remove" -> {r.path, parentPath(r.path)}
      [] OTHER -> {}

processWatches(rs) ==
    /\ watches' = watches \ on(watches, UNION {watchedPaths(r) : r \in rs})
    /\ list_watches' =
           list_watches \ on(list_watches, UNION {listWatchedPaths(r) : r \in rs})
    /\ UNCHANGED sessions_and_watchers

\* The watch is not entered under its session.
addUntracked(s, r) ==
    /\ watches' = watches \cup {<<r.path, s>>}
    /\ UNCHANGED <<list_watches, sessions_and_watchers>>

addWatch(s, r) ==
    /\ IF r.op = "List"
       THEN /\ list_watches' = list_watches \cup {<<r.path, s>>}
            /\ UNCHANGED watches
       ELSE /\ watches' = watches \cup {<<r.path, s>>}
            /\ UNCHANGED list_watches
    /\ sessions_and_watchers' = sessions_and_watchers \cup {<<s, r.path>>}

-----------------------------------------------------------------------------
(***************************************************************************)
(* processRequest.                                                         *)
(***************************************************************************)

\* No request is being processed.
Idle == multi = NoMulti /\ thrown # "commit"

\* A request of an unknown session registers nothing.
touchKnown(s) ==
    /\ UNCHANGED session_and_timeout
    /\ session_expiry_queue' =
           session_expiry_queue \cup ({s} \cap DOMAIN session_and_timeout)

\* Every request counts as a sign of life.  operator[] enters a session that
\* is not registered (any more) with the timeout 0.
touch(s) ==
    /\ session_and_timeout' =
           Put(session_and_timeout, s, Get(session_and_timeout, s, 0))
    /\ session_expiry_queue' = session_expiry_queue \cup {s}

\* A request that went through the log: the zxid is the log index.
Committed(s) ==
    /\ Idle
    /\ zxid < MaxZxid
    /\ zxid' = zxid + 1
    /\ touch(s)

\* A read is answered from the local state, or goes through the log too
\* (quorum_reads).
Read(s) ==
    \/ Committed(s)
    \/ Idle /\ UNCHANGED zxid /\ touch(s)

isReadRequest(r) == r.op \in {"Get", "Exists", "List", "GetACL", "Check"}

\* KeeperStorage::getSessionID
getSessionID(timeout) ==
    /\ Idle
    /\ session_id_counter <= MaxSessions
    /\ session_id_counter' = session_id_counter + 1
    /\ session_and_timeout' =
           Put(session_and_timeout, session_id_counter, timeout)
    /\ session_expiry_queue' = session_expiry_queue \cup {session_id_counter}
    /\ UNCHANGED <<treeVars, watchVars, session_and_auth, finalized, thrown,
                   zxid, multi>>

\* A single Create, Remove or Set that succeeds.
Write(s, r) ==
    /\ r.op \in {"Create", "Remove", "Set"}
    /\ Committed(s)
    /\ ~checkAuthThrows(r)
    /\ checkAuth(s, r)
    /\ SubRequestError(s, r) = "ZOK"
    /\ SubRequestEffect(s, r, zxid')
    /\ processWatches({r})
    /\ UNCHANGED <<otherVars, multi>>

\* The new ACL is counted; the count of the replaced one is not lowered.
SetACL(s, r) ==
    /\ r.op = "SetACL"
    /\ Committed(s)
    /\ ~checkAuthThrows(r)
    /\ checkAuth(s, r)
    /\ exists(r.path)
    /\ r.version \in {-1, container[r.path].aversion}
    /\ ~fixupACLFails(r.acls, AuthsOf(s))
    /\ LET acls   == fixupACL(r.acls, AuthsOf(s))
           acl_id == ACLNumber(acl_map, acls)
       IN  /\ acl_map' = addUsage(convertACLs(acl_map, acls), acl_id)
           /\ container' = [container EXCEPT ![r.path].acl_id = acl_id,
                                             ![r.path].aversion = @ + 1]
    /\ UNCHANGED <<ephemerals, watchVars, otherVars, multi>>

\* Get, Exists, List, GetACL or Check that finds its node.
ReadFound(s, r) ==
    /\ isReadRequest(r)
    /\ Read(s)
    /\ ~checkAuthThrows(r)
    /\ checkAuth(s, r)
    /\ exists(r.path)
    /\ IF r.op = "Check"
       THEN SetError(r) = "ZOK" /\ UNCHANGED watchVars
       ELSE IF r.has_watch THEN addWatch(s, r) ELSE UNCHANGED watchVars
    /\ UNCHANGED <<treeVars, otherVars, multi>>

\* Exists is the one request that leaves a watch on a missing node.
ExistsNot(s, r) ==
    /\ r.op = "Exists"
    /\ Read(s)
    /\ ~exists(r.path)
    /\ IF r.has_watch THEN addWatch(s, r) ELSE UNCHANGED watchVars
    /\ UNCHANGED <<treeVars, otherVars, multi>>

\* The error codes of a SetACL.
SetACLError(s, r) ==
    IF ~exists(r.path) THEN "ZNONODE"
    ELSE IF r.version \notin {-1, container[r.path].aversion} THEN "ZBADVERSION"
    ELSE IF fixupACLFails(r.acls, AuthsOf(s)) THEN "ZINVALIDACL"
    ELSE "ZOK"

errorOf(s, r) ==
    CASE r.op \in {"Create", "Remove", "Set", "Check"} -> SubRequestError(s, r)
      [] r.op = "SetACL" -> SetACLError(s, r)
      [] r.op \in {"Get", "List", "GetACL"} ->
             IF exists(r.path) THEN "ZOK" ELSE "ZNONODE"
      [] r.op = "Exists" -> "ZOK"

\* Any other request that is answered with an error: ZNOAUTH, or the error of
\* its own processing.  Nothing changes but the zxid and the session.
Refused(s, r) ==
    /\ r.op \notin {"Auth", "Multi"}
    /\ IF isReadRequest(r) THEN Read(s) ELSE Committed(s)
    /\ ~checkAuthThrows(r)
    /\ ~checkAuth(s, r) \/ errorOf(s, r) # "ZOK"
    /\ UNCHANGED <<treeVars, watchVars, otherVars, multi>>

\* convertNumber() throws inside checkAuth().  requestThread() logs the
\* exception of a local read and goes on; one of commit() ends the process.
Throws(s, r) ==
    /\ r.op \notin {"Auth", "Multi"}
    /\ checkAuthThrows(r)
    /\ \/ isReadRequest(r) /\ Read(s) /\ UNCHANGED zxid /\ thrown' = "read"
       \/ Committed(s) /\ thrown' = "commit"
    /\ UNCHANGED <<treeVars, watchVars, session_and_auth, session_id_counter,
                   finalized, multi>>

\* An invalid digest is refused and leaves nothing behind.
Auth(s, r) ==
    /\ r.op = "Auth"
    /\ Committed(s)
    /\ session_and_auth' =
           IF r.valid THEN session_and_auth \cup {<<s, r.id>>}
                      ELSE session_and_auth
    /\ UNCHANGED <<treeVars, watchVars, session_id_counter, finalized, thrown,
                   multi>>

\* Heartbeat, and Sync, which does no more either.
Heartbeat(s) ==
    /\ Committed(s)
    /\ UNCHANGED <<treeVars, watchVars, otherVars, multi>>

\* Close, sent by the client or by the leader for an expired session.
Close(s) ==
    LET own     == owned(tree, s)
        watched == {<<w[2], w[1]>> : w \in {x \in sessions_and_watchers :
                                                x[1] = s}}
    IN  /\ Idle
        /\ zxid < MaxZxid
        /\ zxid' = zxid + 1
        /\ container' = Closed(tree, s).container
        /\ ephemerals' = Closed(tree, s).ephemerals
        /\ watches' = (watches \ on(watches, own)) \ watched
        /\ list_watches' =
               (list_watches \ on(list_watches, own \cup
                                      {parentPath(e) : e \in own}))
               \ watched
        /\ sessions_and_watchers' =
               {w \in sessions_and_watchers : w[1] # s}
        /\ session_and_auth' = {a \in session_and_auth : a[1] # s}
        /\ session_expiry_queue' = session_expiry_queue \ {s}
        /\ session_and_timeout' = Drop(session_and_timeout, s)
        /\ UNCHANGED <<acl_map, session_id_counter, finalized, thrown, multi>>

-----------------------------------------------------------------------------
(***************************************************************************)
(* Multi requests.  multi.undo is the list of undo closures, the newest    *)
(* first.  Two fields are there for the properties only: multi.before and  *)
(* the "was" of an undo entry hold the tree before the whole request and   *)
(* before the sub-request.                                                 *)
(***************************************************************************)

authorized(s, r) == ~checkAuthThrows(r) /\ checkAuth(s, r)

\* checkAuth() of a multi asks its sub-requests in order, all of them before
\* the first is executed, and stops at the first that does not agree.
firstUnauthorized(s, rs, i) ==
    /\ ~authorized(s, rs[i])
    /\ \A j \in 1 .. i - 1 : authorized(s, rs[j])

MultiBegin(s, r) ==
    /\ r.op = "Multi"
    /\ Committed(s)
    /\ \A i \in DOMAIN r.requests : authorized(s, r.requests[i])
    /\ multi' = [phase |-> "run", session |-> s, requests |-> r.requests,
                 done |-> 0, undo |-> <<>>, before |-> tree]
    /\ UNCHANGED <<treeVars, watchVars, otherVars>>

MultiRefused(s, r) ==
    /\ r.op = "Multi"
    /\ Committed(s)
    /\ \E i \in DOMAIN r.requests :
           /\ firstUnauthorized(s, r.requests, i)
           /\ thrown' = IF checkAuthThrows(r.requests[i])
                         THEN "commit" ELSE thrown
    /\ UNCHANGED <<treeVars, watchVars, session_and_auth, session_id_counter,
                   finalized, multi>>

\* One turn of the loop over the sub-requests.
MultiStep ==
    /\ multi.phase = "run"
    /\ multi.done < Len(multi.requests)
    /\ LET s == multi.session
           r == multi.requests[multi.done + 1]
       IN  \/ /\ SubRequestError(s, r) = "ZOK"
              /\ SubRequestEffect(s, r, zxid)
              /\ multi' = [multi EXCEPT
                              !.done = @ + 1,
                              !.undo = <<[record |-> UndoRecord(s, r),
                                          was |-> tree]>> \o @]
           \/ /\ SubRequestError(s, r) # "ZOK"
              /\ multi' = [multi EXCEPT !.phase = "undo"]
              /\ UNCHANGED treeVars
    /\ UNCHANGED <<watchVars, sessionVars, otherVars, zxid>>

MultiUndo ==
    /\ multi.phase = "undo"
    /\ multi.undo # <<>>
    /\ Undo(Head(multi.undo).record)
    /\ multi' = [multi EXCEPT !.undo = Tail(@)]
    /\ UNCHANGED <<watchVars, sessionVars, otherVars, zxid>>

\* The response of a multi keeps the error code ZOK it was made with, whether
\* or not a sub-request failed: watches are looked up in both cases.
MultiEnd ==
    /\ \/ multi.phase = "run" /\ multi.done = Len(multi.requests)
       \/ multi.phase = "undo" /\ multi.undo = <<>>
    /\ processWatches({multi.requests[i] : i \in DOMAIN multi.requests})
    /\ multi' = NoMulti
    /\ UNCHANGED <<treeVars, sessionVars, otherVars, zxid>>

-----------------------------------------------------------------------------
\* Called once, when the server shuts down; the log may still be applied
\* afterwards.  The parents of the erased nodes are not updated.
finalize ==
    /\ Idle
    /\ ~finalized
    /\ finalized' = TRUE
    /\ container' =
           [p \in DOMAIN container \ {e[2] : e \in ephemerals} |-> container[p]]
    /\ ephemerals' = {}
    /\ watches' = {}
    /\ list_watches' = {}
    /\ sessions_and_watchers' = {}
    /\ session_expiry_queue' = {}
    /\ UNCHANGED <<acl_map, session_and_timeout, session_and_auth,
                   session_id_counter, zxid, thrown, multi>>

Next ==
    \/ \E t \in SessionTimeout : getSessionID(t)
    \/ \E s \in IssuedSession, r \in Requests : Write(s, r)
    \/ \E s \in IssuedSession, r \in Requests : SetACL(s, r)
    \/ \E s \in IssuedSession, r \in Requests : ReadFound(s, r)
    \/ \E s \in IssuedSession, r \in Requests : ExistsNot(s, r)
    \/ \E s \in IssuedSession, r \in Requests : Refused(s, r)
    \/ \E s \in IssuedSession, r \in Requests : Throws(s, r)
    \/ \E s \in IssuedSession, r \in Requests : Auth(s, r)
    \/ \E s \in IssuedSession, r \in Requests : MultiBegin(s, r)
    \/ \E s \in IssuedSession, r \in Requests : MultiRefused(s, r)
    \/ \E s \in IssuedSession : Heartbeat(s)
    \/ \E s \in IssuedSession : Close(s)
    \/ MultiStep
    \/ MultiUndo
    \/ MultiEnd
    \/ finalize

Spec == Init /\ [][Next]_vars

-----------------------------------------------------------------------------
Node ==
    [acl_id : Nat, ephemeralOwner : Nat, czxid : Nat, mzxid : Nat,
     pzxid : Nat, version : Int, cversion : Int, aversion : Int,
     numChildren : Int, seq_num : Int, children : SUBSET Component]

\* Whether an exception left processRequest(), and in which call of it.
Exceptions == {"never", "read", "commit"}

\* The fields of KeeperStorage and of the request being processed have their types.
TypeOK ==
    /\ DOMAIN container \subseteq Path
    /\ container \in [DOMAIN container -> Node]
    /\ ephemerals \subseteq Nat \X Path
    /\ DOMAIN acl_map.usage_counter \subseteq Nat
    /\ acl_map.usage_counter \in [DOMAIN acl_map.usage_counter -> Nat \ {0}]
    /\ acl_map.acl_to_num \in [DOMAIN acl_map.acl_to_num -> Nat]
    /\ DOMAIN acl_map.num_to_acl \subseteq Nat
    /\ acl_map.max_acl_id \in Nat \ {0}
    /\ watches \subseteq Path \X Nat
    /\ list_watches \subseteq Path \X Nat
    /\ sessions_and_watchers \subseteq Nat \X Path
    /\ DOMAIN session_and_timeout \subseteq IssuedSession
    /\ session_and_timeout \in [DOMAIN session_and_timeout -> Nat]
    /\ session_expiry_queue \subseteq IssuedSession
    /\ session_and_auth \subseteq Nat \X (AuthID \cup {SuperID})
    /\ session_id_counter \in Nat \ {0}
    /\ zxid \in Nat
    /\ finalized \in BOOLEAN
    /\ thrown \in Exceptions
    /\ multi.phase \in {"none", "run", "undo"}
    /\ multi.phase = "none" <=> multi = NoMulti
    /\ multi.phase # "none" =>
           /\ multi.session \in IssuedSession
           /\ multi.requests \in Seq(SubRequest)
           /\ multi.done \in 0 .. Len(multi.requests)

\* In the container c every node but the root has a parent that lists it, a
\* node lists exactly the names below it, and numChildren counts them.
WellLinked(c) ==
    \A p \in DOMAIN c :
        /\ p # Root => /\ parentPath(p) \in DOMAIN c
                       /\ getBaseName(p) \in c[parentPath(p)].children
        /\ \A name \in c[p].children : Append(p, name) \in DOMAIN c
        /\ c[p].numChildren = Cardinality(c[p].children)

\* In the tree t the index by session and the owners stored in the nodes say
\* the same, and no ephemeral node has children.
WellIndexed(t) ==
    /\ \A e \in t.ephemerals :
           /\ e[2] \in DOMAIN t.container
           /\ t.container[e[2]].ephemeralOwner = e[1]
    /\ \A p \in DOMAIN t.container :
           t.container[p].ephemeralOwner # 0 =>
               /\ <<t.container[p].ephemeralOwner, p>> \in t.ephemerals
               /\ t.container[p].children = {}

\* The tree hangs together, also half-way through a multi and its undo:
\* updateValue() on a missing parent is undefined, and Remove decides by
\* numChildren alone whether it would orphan a node.  (finalize() leaves the
\* names of the ephemeral nodes behind in their parents.)
TreeConsistent == ~finalized => WellLinked(container)

\* Close removes exactly the nodes its session owns, and none of them has
\* children it would orphan.
EphemeralsConsistent == WellIndexed(tree)

\* Whoever owns an ephemeral node, has a watch or is authenticated is
\* registered for expiry, also when that happened in a request that arrived
\* after the session's Close: some later Close will clean up.
NothingOutlivesItsSession ==
    /\ \A e \in ephemerals : e[1] \in session_expiry_queue
    /\ \A w \in watches \cup list_watches : w[2] \in session_expiry_queue
    /\ ~finalized => \A x \in session_and_auth : x[1] \in session_expiry_queue

\* Every watch is listed under its session, the only place where
\* clearDeadWatches() looks for the watches of a closed session.
WatchesTracked ==
    \A w \in watches \cup list_watches :
        <<w[2], w[1]>> \in sessions_and_watchers

\* A node counts as a user of its ACL number, so removeUsage() does not give
\* up the number while a node carries it.
ACLUsageCounted ==
    LET users(id) == {p \in DOMAIN container : container[p].acl_id = id}
    IN  \A id \in {container[p].acl_id : p \in DOMAIN container} \ {0} :
            /\ id \in DOMAIN acl_map.usage_counter
            /\ acl_map.usage_counter[id] >= Cardinality(users(id))

\* convertNumber() never meets a number it does not know: "Unknown ACL id {}.
\* It's a bug" (ACLMap.cpp:66).
NeverUnknownACL == thrown = "never"

\* Once the last undo closure of a failed multi has run, the tree is the one
\* the multi found: "Performs several operations in a transaction"
\* (ZooKeeper.h:177).
FailedMultiRestores ==
    ~finalized /\ multi.phase = "undo" /\ multi.undo = <<>> =>
        tree = multi.before

-----------------------------------------------------------------------------
\* The container as clients see it: nobody reads half-way through a multi.
committed ==
    IF multi = NoMulti THEN container ELSE multi.before.container

\* The same node exists before and after the step, or does not exist in both.
untouched(p, c1, c2) ==
    /\ p \in DOMAIN c1 <=> p \in DOMAIN c2
    /\ p \in DOMAIN c1 => /\ c1[p].czxid = c2[p].czxid
                          /\ c1[p].mzxid = c2[p].mzxid

\* A watch that survives a step was told nothing, and there was nothing to
\* tell: its node was not created, deleted or set, and for a list watch no
\* child came or went.
WatchedChangesNotify ==
    [][/\ \A w \in watches \cap watches' :
              untouched(w[1], committed, committed')
       /\ \A w \in list_watches \cap list_watches' :
              /\ w[1] \in DOMAIN committed /\ w[1] \in DOMAIN committed'
              /\ committed[w[1]].children = committed'[w[1]].children]_vars

\* A data watch is only used up by a change of its node or by the end of its
\* session: "If this requests processed successfully we need to check
\* watches" (KeeperStorage.cpp:1163).
WatchesFireOnChange ==
    [][\A w \in watches \ watches' :
           \/ ~untouched(w[1], committed, committed')
           \/ w[2] \notin session_expiry_queue']_vars

\* The node new is a later state of the node old, if both are the same
\* incarnation of it (czxid).
Advanced(old, new) ==
    old.czxid = new.czxid =>
        /\ old.version <= new.version
        /\ old.cversion <= new.cversion
        /\ old.aversion <= new.aversion
        /\ old.seq_num <= new.seq_num
        /\ old.version = new.version <=> old.mzxid = new.mzxid

\* Between two committed states the counters of one incarnation of a node
\* only grow, and its version tells apart any two states of its data: what
\* compare-and-set (Set and Check with a version) and sequential names rely
\* on, across failed multis too.
VersionsAdvance ==
    [][\A p \in DOMAIN committed \cap DOMAIN committed' :
           Advanced(committed[p], committed'[p])]_vars
=============================================================================
