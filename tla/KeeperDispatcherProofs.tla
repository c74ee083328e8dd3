----------------------- MODULE KeeperDispatcherProofs -----------------------
(***************************************************************************)
(* What holds of KeeperDispatcher for every set of connections and every   *)
(* value of the bounds: push_request_mutex is exclusive; shutdown() and    *)
(* the session cleaner, once they wait for each other, do so for ever; and *)
(* the variables have their types.  Then what a client may rely on: a read *)
(* sees the writes its session sent before, and the answers come in the    *)
(* order of the requests; before that, what both rest on: where requests   *)
(* come from, and what is under way for a connection without a session.    *)
(***************************************************************************)
EXTENDS KeeperDispatcher, Integers, TLAPS

\* Most steps are about sets and functions; those with arithmetic, sequences
\* or records say which other prover they need.
USE Zenon

\* The inductive invariant: who is inside the mutex, and that a connection is
\* in one of its phases, without which nothing is known of phase'.
IInv ==
    /\ phase \in [Client -> Phases]
    /\ MutexExclusive

\* No connection is taken for one of the two threads.
LEMMA NamesDistinct ==
    /\ {"cleaner"} # {"shutdown"}
    /\ \A c \in Client : {c} # {"cleaner"} /\ {c} # {"shutdown"} /\ {c} # {}
    /\ \A c, d \in Client : {c} = {d} => c = d
    /\ {"cleaner"} # {} /\ {"shutdown"} # {}
  BY DispatcherAssumption

\* Nobody is inside the mutex of a new dispatcher.
LEMMA InitEstablishes == Init => IInv
  BY NamesDistinct DEF Init, IInv, MutexExclusive, Joining, Phases

\* setResponse lets a connection that waits for its session id go on; it is
\* not inside the mutex then.
LEMMA ResponsePreserves ==
    ASSUME IInv, NEW r, setResponse(r),
           UNCHANGED << push_request_mutex, cpc, spc >>
    PROVE  IInv'
<1>1. /\ phase' \in [Client -> Phases]
      /\ \A c \in Client : phase'[c] = "pushing" <=> phase[c] = "pushing"
  BY DEF IInv, setResponse, Phases
<1> QED BY <1>1 DEF IInv, MutexExclusive, Joining

\* A step that leaves the mutex and all who use it alone.
LEMMA OthersPreserve ==
    ASSUME IInv, UNCHANGED << push_request_mutex, phase, cpc, spc >>
    PROVE  IInv'
  BY DEF IInv, MutexExclusive, Joining

\* The steps of a connection.
LEMMA ConnectionPreserves ==
    ASSUME IInv, NEW c \in Client, Connection(c) PROVE IInv'
<1> USE NamesDistinct DEF IInv, MutexExclusive, Joining, Phases, NotAConnection, cleaner, stop
<1>1. CASE getSessionID(c)
  BY <1>1, SMT DEF getSessionID
<1>2. CASE registerSession(c)
  BY <1>2, SMT DEF registerSession
<1>3. CASE SessionIDTimeout(c)
  BY <1>3, SMT DEF SessionIDTimeout, End
<1>4. CASE \E r \in NextRequests(c) : putRequest(c, r)
  BY <1>4, SMT DEF putRequest, End
<1>5. CASE PushRequest(c)
  BY <1>5, SMT DEF PushRequest, HasMutex, AfterPush
<1>6. CASE WaitForRoom(c)
  BY <1>6 DEF WaitForRoom, HasMutex
<1>7. CASE PutFails(c)
  BY <1>7 DEF PutFails, HasMutex, End
<1>8. CASE Disconnect(c)
  BY <1>8, SMT DEF Disconnect, End
<1> QED BY <1>1, <1>2, <1>3, <1>4, <1>5, <1>6, <1>7, <1>8 DEF Connection

\* requestThread, responseThread and Raft never touch the mutex.
LEMMA ThreadsPreserve ==
    ASSUME IInv, requestThread \/ responseThread \/ Raft PROVE IInv'
<1>1. CASE requestThread
  <2>1. UNCHANGED << push_request_mutex, phase, cpc, spc >>
    BY <1>1 DEF requestThread, PopRequest, Collect, forceWaitAndProcessResult,
                PutAccepted, PutRejected, PutReturns, PutReturnsNull,
                putLocalReadRequest, ReadFails, Caught, RequestThreadExits,
                NotTheRequestThread, clients, cleaner, stop
  <2> QED BY <2>1, OthersPreserve
<1>2. CASE PopResponse
  BY <1>2, ResponsePreserves DEF PopResponse, cleaner, stop
<1>3. CASE ResponseThreadExits
  BY <1>3, OthersPreserve DEF ResponseThreadExits, clients, cleaner, stop
<1>4. CASE Raft
  <2>1. UNCHANGED << push_request_mutex, phase, cpc, spc >>
    BY <1>4 DEF Raft, commit, ResultIsSet, ResultTimesOut, LoseLeadership, BecomeLeader,
                SessionExpires, NotRaft, clients, cleaner, stop
  <2> QED BY <2>1, OthersPreserve
<1> QED BY <1>1, <1>2, <1>3, <1>4 DEF responseThread

\* The session cleaner takes the mutex only when it is free.
LEMMA CleanerPreserves ==
    ASSUME IInv, sessionCleanerTask PROVE IInv'
<1> USE NamesDistinct DEF IInv, MutexExclusive, Joining, NotTheCleaner, clients, stop
<1>1. CASE CleanerWakes
  BY <1>1 DEF CleanerWakes
<1>2. CASE CleanerPushes
  BY <1>2 DEF CleanerPushes
<1>3. CASE CleanerWaitsForRoom
  BY <1>3 DEF CleanerWaitsForRoom
<1>4. CASE CleanerFinishes
  BY <1>4 DEF CleanerFinishes, FinishThen
<1> QED BY <1>1, <1>2, <1>3, <1>4 DEF sessionCleanerTask

\* shutdown() takes the mutex when it is free and gives back its own.
LEMMA ShutdownPreserves ==
    ASSUME IInv, BeginShutdown \/ shutdown PROVE IInv'
<1> USE NamesDistinct DEF IInv, MutexExclusive, Joining, clients, cleaner
<1>1. CASE BeginShutdown
  BY <1>1 DEF BeginShutdown
<1>2. CASE JoinCleaner
  BY <1>2 DEF JoinCleaner
<1>3. CASE JoinRequestThread
  BY <1>3 DEF JoinRequestThread
<1>4. CASE JoinResponseThread
  BY <1>4 DEF JoinResponseThread
<1>5. CASE JoinSnapshotThread
  BY <1>5 DEF JoinSnapshotThread
<1>6. CASE JoinUpdateConfigurationThread
  BY <1>6 DEF JoinUpdateConfigurationThread
<1>7. CASE ExpirePending
  BY <1>7, ResponsePreserves DEF ExpirePending, stop
<1>8. CASE EndShutdown
  BY <1>8 DEF EndShutdown
<1> QED BY <1>1, <1>2, <1>3, <1>4, <1>5, <1>6, <1>7, <1>8 DEF shutdown

\* The invariant is inductive.
LEMMA NextPreserves == IInv /\ [Next]_vars => IInv'
<1> SUFFICES ASSUME IInv, [Next]_vars PROVE IInv'
  OBVIOUS
<1>1. CASE UNCHANGED vars
  BY <1>1, OthersPreserve DEF vars, clients, cleaner, stop
<1>2. CASE Next
  BY <1>2, ConnectionPreserves, ThreadsPreserve, CleanerPreserves,
     ShutdownPreserves DEF Next
<1> QED BY <1>1, <1>2

\* It holds in every reachable state.
LEMMA Invariance == Spec => []IInv
  BY InitEstablishes, NextPreserves, PTL DEF Spec

-----------------------------------------------------------------------------
\* push_request_mutex is held by exactly whoever is inside it, for any number
\* of connections.
THEOREM MutexAlwaysExclusive == Spec => []MutexExclusive
  BY Invariance, PTL DEF IInv

\* While shutdown() waits for the session cleaner and the cleaner for the
\* mutex, every step of the others leaves both where they are.
LEMMA StuckStays == IInv /\ [Next]_vars => (CleanerStuck => CleanerStuck')
<1> SUFFICES ASSUME IInv, [Next]_vars, CleanerStuck PROVE CleanerStuck'
  OBVIOUS
<1> USE NamesDistinct DEF CleanerStuck
<1>1. push_request_mutex = {"shutdown"} /\ spc = "joinCleaner" /\ cpc = "locking"
  BY DEF IInv, MutexExclusive, Joining
<1>2. CASE UNCHANGED vars
  BY <1>2 DEF vars, cleaner, stop
<1>3. CASE \E c \in Client : Connection(c)
  BY <1>3 DEF Connection, getSessionID, registerSession, SessionIDTimeout,
              putRequest, PushRequest, WaitForRoom, PutFails, Disconnect,
              NotAConnection, cleaner, stop
<1>4. CASE requestThread
  BY <1>4 DEF requestThread, PopRequest, Collect, forceWaitAndProcessResult,
              PutAccepted, PutRejected, PutReturns, PutReturnsNull,
              putLocalReadRequest, ReadFails, Caught, RequestThreadExits,
              NotTheRequestThread, cleaner, stop
<1>5. CASE responseThread
  BY <1>5 DEF responseThread, PopResponse, ResponseThreadExits, cleaner, stop
<1>6. CASE sessionCleanerTask
  BY <1>1, <1>6 DEF sessionCleanerTask, CleanerWakes, CleanerPushes,
              CleanerWaitsForRoom, CleanerFinishes, FinishThen
<1>7. CASE Raft
  BY <1>7 DEF Raft, commit, ResultIsSet, ResultTimesOut, LoseLeadership, BecomeLeader,
              SessionExpires, NotRaft, cleaner, stop
<1>8. CASE BeginShutdown \/ shutdown
  BY <1>1, <1>8 DEF BeginShutdown, shutdown, JoinCleaner, JoinRequestThread,
              JoinResponseThread, JoinSnapshotThread,
         JoinUpdateConfigurationThread, ExpirePending, EndShutdown, cleaner, stop
<1> QED BY <1>2, <1>3, <1>4, <1>5, <1>6, <1>7, <1>8 DEF Next

\* A shutdown() that met the session cleaner about to push never ends: no step
\* of the system resolves the wait.
THEOREM DeadlockIsPermanent == Spec => StuckForever
<1>1. IInv /\ [Next]_vars => [CleanerStuck => CleanerStuck']_vars
  BY StuckStays
<1> QED BY <1>1, Invariance, PTL DEF Spec, StuckForever

-----------------------------------------------------------------------------
(***************************************************************************)
(* Types.  TypeOK is inductive together with the types it leaves open and  *)
(* with what the program counters of the threads say of their data.        *)
(***************************************************************************)

\* The requests without a number are the session id requests and heartbeats,
\* and only the session cleaner's Close has CloseXid.
Tagged(r) ==
    /\ r.op \in {"SessionID", "Heartbeat"} <=> r.xid = 0
    /\ r.xid = CloseXid => r.op = "Close"

Sent == {r \in Request : Tagged(r)}

Answer == [client : Client, xid : 0 .. CloseXid, op : Ops, error : Errors]

\* What is in responses_queue.
Reply == {a \in Answer : Tagged(a)}

Received == [xid : 0 .. CloseXid, error : Errors]

TablesOK ==
    /\ session_to_response_callback \subseteq Client
    /\ new_session_id_response_callback \subseteq Client

MutexOK == push_request_mutex \subseteq Client \cup {"cleaner", "shutdown"}

RequestsOK ==
    /\ requests_queue \in [queue : Seq(Sent), is_finished : BOOLEAN]
    /\ Len(requests_queue.queue) <= max_requests_batch_size

ResponsesOK ==
    responses_queue \in [queue : Seq(Reply), is_finished : BOOLEAN]

\* A connection that goes for the mutex has one request, the next of its
\* numbers or one without a number; the others have none.
Putting(c) ==
    IF phase[c] \in {"locking", "pushing"}
    THEN \E r \in Sent : /\ putting[c] = {r} /\ r.client = c
                         /\ r.xid = accepted[c] + 1 \/ r.xid = 0
                         /\ r.xid <= MaxXid
    ELSE putting[c] = {}

ClientsOK ==
    /\ phase \in [Client -> Phases]
    /\ putting \in [Client -> SUBSET Sent]
    /\ accepted \in [Client -> 0 .. MaxXid]
    /\ received \in [Client -> Seq(Received)]
    /\ \A c \in Client : Putting(c)

RequestThreadOK ==
    /\ rpc \in {"pop", "collect", "force", "put", "forceRead", "read", "exited"}
    /\ batch \in Seq(Sent) /\ prev_batch \in Seq(Sent)
    /\ read = {} \/ \E r \in Sent : read = {r}
    /\ dropped \subseteq Sent
    /\ prev_result \in {"null", "pending", "ok", "rejected", "timeout", "failed"}
    /\ Len(batch) <= max_requests_batch_size + 1
    /\ rpc = "collect" => Len(batch) <= max_requests_batch_size
    /\ rpc = "pop" => batch = << >>
    /\ rpc \in {"pop", "collect"} => read = {}
    /\ rpc \in {"put", "read"} => prev_result = "null"
    /\ rpc \in {"forceRead", "read"} => batch = << >>

RaftOK ==
    /\ raft_log \in Seq(Sent) /\ is_leader \in BOOLEAN
    /\ failures \in 0 .. MaxTrouble /\ expiries \in 0 .. MaxTrouble
    /\ dead \subseteq sessions /\ sessions \subseteq Client

CleanerOK ==
    /\ cpc \in {"sleep", "locking", "pushing", "finishing", "exited"}
    /\ dead_sessions \in Seq(Client)
    /\ cpc \in {"locking", "pushing", "finishing"} => dead_sessions # << >>

StopOK ==
    /\ spc \in Joining \cup {"no", "drain", "down"}
    /\ shutdown_called \in BOOLEAN /\ response_thread_alive \in BOOLEAN

\* Until shutdown() begins, the threads run and the queues are open.
RunningOK ==
    ~shutdown_called =>
        /\ response_thread_alive
        /\ ~requests_queue.is_finished /\ ~responses_queue.is_finished
        /\ spc = "no" /\ rpc # "exited"

Types ==
    /\ TablesOK /\ MutexOK /\ RequestsOK /\ ResponsesOK /\ ClientsOK
    /\ RequestThreadOK /\ RaftOK /\ CleanerOK /\ StopOK /\ RunningOK

\* What the constants are.
LEMMA Bounds ==
    /\ max_requests_batch_size \in Nat \ {0} /\ MaxXid \in Nat
    /\ MaxTrouble \in Nat /\ CloseXid \in Nat /\ CloseXid = MaxXid + 1
  BY DispatcherAssumption, SMT DEF CloseXid

\* What a request is.
LEMMA SentTypes ==
    ASSUME NEW r \in Sent
    PROVE  /\ r \in Request /\ Tagged(r) /\ r.client \in Client
           /\ r.xid \in 0 .. CloseXid /\ r.op \in Ops
  BY DEF Sent, Request

\* The elements of a sequence.
LEMMA IdsIn == ASSUME NEW T, NEW s \in Seq(T) PROVE Ids(s) \subseteq T
  BY SMT DEF Ids

\* Types has all that TypeOK says.
LEMMA TypesImplyTypeOK == Types => TypeOK
<1> SUFFICES ASSUME Types PROVE TypeOK
  OBVIOUS
<1>1. /\ Ids(requests_queue.queue) \subseteq Request
      /\ Ids(raft_log) \subseteq Request
      /\ Ids(batch) \cup Ids(prev_batch) \cup dropped \subseteq Request
  <2>1. /\ Ids(requests_queue.queue) \subseteq Sent /\ Ids(raft_log) \subseteq Sent
        /\ Ids(batch) \subseteq Sent /\ Ids(prev_batch) \subseteq Sent
        /\ dropped \subseteq Sent
    BY IdsIn DEF Types, RequestsOK, RaftOK, RequestThreadOK
  <2> QED BY <2>1 DEF Sent
<1>2. Ids(responses_queue.queue) \subseteq Answer
  <2>1. Ids(responses_queue.queue) \subseteq Reply
    BY IdsIn DEF Types, ResponsesOK
  <2> QED BY <2>1 DEF Reply
<1>3. ASSUME NEW c \in Client
      PROVE  /\ putting[c] \subseteq Request
             /\ phase[c] \in {"locking", "pushing"}
                   <=> \E r \in Request : putting[c] = {r}
  BY DEF Types, ClientsOK, Sent, Putting
<1>4. read = {} \/ \E r \in Request : read = {r}
  BY DEF Types, RequestThreadOK, Sent
<1>5. {requests_queue.is_finished, responses_queue.is_finished} \subseteq BOOLEAN
  BY DEF Types, RequestsOK, ResponsesOK
<1> QED BY <1>1, <1>2, <1>3, <1>4, <1>5
        DEF Types, TypeOK, TablesOK, MutexOK, RequestsOK, ClientsOK,
            RequestThreadOK, RaftOK, CleanerOK, StopOK, Answer, Received

\* A new dispatcher has its types.
LEMMA InitTypes == Init => Types
<1> SUFFICES ASSUME Init PROVE Types
  OBVIOUS
<1>1. TablesOK /\ MutexOK /\ StopOK /\ RunningOK
  BY DEF Init, TablesOK, MutexOK, StopOK, RunningOK, NewQueue
<1>2. RequestsOK /\ ResponsesOK
  BY Bounds, SMT DEF Init, RequestsOK, ResponsesOK, NewQueue
<1>3. ClientsOK
  BY Bounds, SMT DEF Init, ClientsOK, Putting, Phases
<1>4. RequestThreadOK /\ CleanerOK
  BY Bounds, SMT DEF Init, RequestThreadOK, CleanerOK
<1>5. RaftOK
  BY Bounds, SMT DEF Init, RaftOK
<1> QED BY <1>1, <1>2, <1>3, <1>4, <1>5 DEF Types

\* A push of a request into the queue, where there is room.
LEMMA EmplaceTypes ==
    ASSUME RequestsOK, NEW r \in Sent,
           CanEmplace(requests_queue, max_requests_batch_size),
           requests_queue' = Emplace(requests_queue, r)
    PROVE  RequestsOK' /\ requests_queue'.is_finished = requests_queue.is_finished
<1>1. CASE requests_queue.is_finished
  BY <1>1 DEF RequestsOK, Emplace
<1>2. CASE ~requests_queue.is_finished
  <2> DEFINE s == Append(requests_queue.queue, r)
  <2>0. s \in Seq(Sent) /\ Len(s) = Len(requests_queue.queue) + 1
    BY SMT DEF RequestsOK
  <2> HIDE DEF s
  <2>1. /\ requests_queue' \in [queue : Seq(Sent), is_finished : BOOLEAN]
        /\ requests_queue'.queue = s
        /\ requests_queue'.is_finished = requests_queue.is_finished
    BY <1>2, <2>0 DEF RequestsOK, Emplace, s
  <2>2. Len(requests_queue'.queue) <= max_requests_batch_size
    BY <1>2, <2>0, <2>1, Bounds, SMT DEF RequestsOK, CanEmplace
  <2> QED BY <2>1, <2>2 DEF RequestsOK
<1> QED BY <1>1, <1>2

\* A pop of a request.
LEMMA PopTypes ==
    ASSUME RequestsOK, CanPop(requests_queue),
           requests_queue' = Pop(requests_queue)
    PROVE  /\ RequestsOK' /\ Front(requests_queue) \in Sent
           /\ requests_queue'.is_finished = requests_queue.is_finished
           /\ requests_queue'.queue = Tail(requests_queue.queue)
<1>1. /\ requests_queue.queue \in Seq(Sent) /\ requests_queue.queue # << >>
      /\ requests_queue'.queue = Tail(requests_queue.queue)
      /\ requests_queue' \in [queue : Seq(Sent), is_finished : BOOLEAN]
      /\ requests_queue'.is_finished = requests_queue.is_finished
  BY SMT DEF RequestsOK, CanPop, Pop
<1>2. /\ Len(Tail(requests_queue.queue)) = Len(requests_queue.queue) - 1
      /\ Head(requests_queue.queue) \in Sent
  BY <1>1, SMT
<1> QED BY <1>1, <1>2, Bounds, SMT DEF RequestsOK, Front

\* A push of responses.
LEMMA PushTypes ==
    ASSUME ResponsesOK, NEW rs \in Seq(Reply), PushResponses(rs)
    PROVE  /\ ResponsesOK'
           /\ responses_queue'.is_finished = responses_queue.is_finished
           /\ responses_queue'.queue \in {responses_queue.queue,
                                          responses_queue.queue \o rs}
           /\ response_thread_alive /\ ~responses_queue.is_finished =>
                  responses_queue'.queue = responses_queue.queue \o rs
<1>1. CASE response_thread_alive /\ ~responses_queue.is_finished
  <2> DEFINE s == responses_queue.queue \o rs
  <2>1. s \in Seq(Reply)
    BY SMT DEF ResponsesOK
  <2> HIDE DEF s
  <2>2. responses_queue' = [responses_queue EXCEPT !.queue = s]
    BY <1>1 DEF PushResponses, EmplaceAll, s
  <2>3. /\ responses_queue' \in [queue : Seq(Reply), is_finished : BOOLEAN]
        /\ responses_queue'.queue = s
        /\ responses_queue'.is_finished = responses_queue.is_finished
    BY <2>1, <2>2 DEF ResponsesOK
  <2> QED BY <2>3 DEF ResponsesOK, s
<1>2. CASE ~(response_thread_alive /\ ~responses_queue.is_finished)
  BY <1>2 DEF ResponsesOK, PushResponses, EmplaceAll
<1> QED BY <1>1, <1>2

\* Responses to requests.
LEMMA ResponseTypes ==
    ASSUME NEW r \in Sent, NEW x \in 0 .. CloseXid, NEW e \in Errors
    PROVE  /\ Response(r, x, e) \in Answer
           /\ x = r.xid => Response(r, x, e) \in Reply
           /\ Response(r, x, e).client = r.client /\ Response(r, x, e).xid = x
           /\ Response(r, x, e).error = e /\ Response(r, x, e).op = r.op
  BY SentTypes DEF Response, Answer, Reply, Tagged

\* Error responses to the requests of a batch.
LEMMA ErrorTypes ==
    ASSUME NEW rs \in Seq(Sent), NEW e \in Errors
    PROVE  /\ ErrorResponses(rs, e) \in Seq(Reply)
           /\ DOMAIN ErrorResponses(rs, e) = DOMAIN rs
           /\ \A i \in DOMAIN rs :
                  ErrorResponses(rs, e)[i] = Response(rs[i], rs[i].xid, e)
<1>1. \A i \in DOMAIN rs : Response(rs[i], rs[i].xid, e) \in Reply
  <2> TAKE i \in DOMAIN rs
  <2>1. rs[i] \in Sent
    BY SMT
  <2>2. rs[i].xid \in 0 .. CloseXid
    BY <2>1, SentTypes
  <2> QED BY <2>1, <2>2, ResponseTypes
<1> QED BY <1>1, SMT DEF ErrorResponses

\* A response handed to its callback.
LEMMA SetResponseTypes ==
    ASSUME TablesOK, ClientsOK, NEW a \in Answer, setResponse(a),
           UNCHANGED << putting, accepted >>
    PROVE  TablesOK' /\ ClientsOK'
<1>1. TablesOK'
  BY DEF TablesOK, setResponse
<1>2. a.client \in Client /\ [xid |-> a.xid, error |-> a.error] \in Received
  BY DEF Answer, Received
<1>3. received' \in [Client -> Seq(Received)]
  <2>1. received \in [Client -> Seq(Received)]
    BY DEF ClientsOK
  <2>2. Append(received[a.client], [xid |-> a.xid, error |-> a.error])
            \in Seq(Received)
    BY <1>2, <2>1, SMT
  <2> QED BY <1>2, <2>1, <2>2 DEF setResponse
<1>4. /\ phase' \in [Client -> Phases]
      /\ \A c \in Client : phase'[c] = phase[c]
                               \/ (phase[c] = "waiting" /\ phase'[c] = "ready")
  <2>1. phase \in [Client -> Phases]
    BY DEF ClientsOK
  <2>2. CASE UNCHANGED phase
    BY <2>1, <2>2
  <2>3. CASE phase' = [phase EXCEPT ![a.client] =
                          IF @ = "waiting" THEN "ready" ELSE @]
    BY <1>2, <2>1, <2>3 DEF Phases
  <2> QED BY <2>2, <2>3 DEF setResponse
<1>5. ASSUME NEW c \in Client PROVE Putting(c)'
  <2>1. Putting(c)
    BY DEF ClientsOK
  <2>2. phase'[c] \in {"locking", "pushing"} <=> phase[c] \in {"locking", "pushing"}
    BY <1>4
  <2> QED BY <2>1, <2>2 DEF Putting
<1> QED BY <1>1, <1>3, <1>4, <1>5 DEF ClientsOK

\* The end of a connection.
LEMMA EndTypes ==
    ASSUME TablesOK, ClientsOK, NEW c \in Client, End(c),
           UNCHANGED new_session_id_response_callback
    PROVE  TablesOK' /\ ClientsOK'
<1>1. TablesOK'
  BY DEF TablesOK, End, finishSession
<1>2. /\ phase' = [phase EXCEPT ![c] = "gone"]
      /\ putting' = [putting EXCEPT ![c] = {}]
      /\ accepted' = [accepted EXCEPT ![c] = 0]
      /\ received' = [received EXCEPT ![c] = << >>]
  BY DEF End
<1>3. /\ phase' \in [Client -> Phases] /\ putting' \in [Client -> SUBSET Sent]
      /\ accepted' \in [Client -> 0 .. MaxXid]
      /\ received' \in [Client -> Seq(Received)]
  BY <1>2, Bounds, SMT DEF ClientsOK, Phases
<1>4. ASSUME NEW d \in Client PROVE Putting(d)'
  <2>1. CASE d = c
    BY <1>2, <2>1 DEF ClientsOK, Putting
  <2>2. CASE d # c
    BY <1>2, <2>2 DEF ClientsOK, Putting
  <2> QED BY <2>1, <2>2
<1> QED BY <1>1, <1>3, <1>4 DEF ClientsOK

\* Another request, or none, for one connection.
LEMMA PuttingTypes ==
    ASSUME ClientsOK, NEW c \in Client, NEW p \in Phases, NEW q \in SUBSET Sent,
           NEW x \in 0 .. MaxXid,
           IF p \in {"locking", "pushing"}
           THEN \E r \in Sent : /\ q = {r} /\ r.client = c
                                /\ r.xid = x + 1 \/ r.xid = 0
                                /\ r.xid <= MaxXid
           ELSE q = {},
           phase' = [phase EXCEPT ![c] = p],
           putting' = [putting EXCEPT ![c] = q],
           accepted' = [accepted EXCEPT ![c] = x],
           UNCHANGED received
    PROVE  ClientsOK'
<1>1. /\ phase' \in [Client -> Phases] /\ putting' \in [Client -> SUBSET Sent]
      /\ accepted' \in [Client -> 0 .. MaxXid]
      /\ received' \in [Client -> Seq(Received)]
  BY DEF ClientsOK
<1>2. ASSUME NEW d \in Client PROVE Putting(d)'
  <2>1. CASE d = c
    <3>1. phase'[d] = p /\ putting'[d] = q /\ accepted'[d] = x
      BY <2>1 DEF ClientsOK
    <3> QED BY <2>1, <3>1 DEF Putting
  <2>2. CASE d # c
    <3>1. /\ phase'[d] = phase[d] /\ putting'[d] = putting[d]
          /\ accepted'[d] = accepted[d]
      BY <2>2 DEF ClientsOK
    <3> QED BY <3>1 DEF ClientsOK, Putting
  <2> QED BY <2>1, <2>2
<1> QED BY <1>1, <1>2 DEF ClientsOK

\* The steps of a connection keep the types.
LEMMA ConnectionTypes ==
    ASSUME Types, NEW c \in Client, Connection(c) PROVE Types'
<1>1. /\ TablesOK /\ MutexOK /\ RequestsOK /\ ResponsesOK /\ ClientsOK
      /\ RequestThreadOK /\ RaftOK /\ CleanerOK /\ StopOK /\ RunningOK
  BY DEF Types
<1>2. /\ UNCHANGED NotAConnection /\ UNCHANGED responses_queue
      /\ MutexOK'
  BY <1>1 DEF Connection, getSessionID, registerSession, SessionIDTimeout,
        putRequest, PushRequest, WaitForRoom, PutFails, Disconnect, queues, MutexOK
<1>3. RequestThreadOK' /\ RaftOK' /\ CleanerOK' /\ StopOK' /\ ResponsesOK'
  <2>1. RequestThreadOK' /\ ResponsesOK'
    BY <1>1, <1>2 DEF NotAConnection, RequestThreadOK, request_thread, ResponsesOK
  <2>2. RaftOK'
    BY <1>1, <1>2 DEF NotAConnection, RaftOK, raft
  <2>3. CleanerOK' /\ StopOK'
    BY <1>1, <1>2 DEF NotAConnection, CleanerOK, cleaner, StopOK, stop
  <2> QED BY <2>1, <2>2, <2>3
<1>4. ASSUME RequestsOK', requests_queue'.is_finished = requests_queue.is_finished
      PROVE  RunningOK'
  BY <1>1, <1>2, <1>4 DEF RunningOK, NotAConnection, stop, request_thread
<1>5. ASSUME UNCHANGED requests_queue PROVE RequestsOK' /\ RunningOK'
  BY <1>1, <1>4, <1>5 DEF RequestsOK
<1>6. accepted[c] \in 0 .. MaxXid /\ accepted = [accepted EXCEPT ![c] = accepted[c]]
  BY <1>1 DEF ClientsOK
<1>7. putting[c] \in SUBSET Sent /\ Putting(c)
  BY <1>1 DEF ClientsOK
<1>8. CASE getSessionID(c)
  <2> DEFINE r == [client |-> c, xid |-> 0, op |-> "SessionID"]
  <2>1. r \in Sent /\ r.client = c /\ r.xid = 0
    BY Bounds, SMT DEF Sent, Request, Ops, Tagged
  <2> HIDE DEF r
  <2>2. /\ phase' = [phase EXCEPT ![c] = "locking"]
        /\ putting' = [putting EXCEPT ![c] = {r}]
        /\ UNCHANGED << accepted, received, requests_queue >> /\ TablesOK'
    BY <1>1, <1>8 DEF getSessionID, queues, TablesOK, r
  <2>3. ClientsOK'
    <3>1. "locking" \in Phases /\ {r} \in SUBSET Sent
      BY <2>1 DEF Phases
    <3>2. \E q \in Sent : /\ {r} = {q} /\ q.client = c
                          /\ q.xid = accepted[c] + 1 \/ q.xid = 0
                          /\ q.xid <= MaxXid
      BY <2>1, Bounds, SMT
    <3> QED BY <1>1, <1>6, <2>2, <3>1, <3>2, PuttingTypes
  <2> QED BY <1>2, <1>3, <1>5, <2>2, <2>3 DEF Types
<1>9. CASE registerSession(c)
  <2>1. /\ phase' = [phase EXCEPT ![c] = "idle"] /\ phase[c] = "ready"
        /\ UNCHANGED << putting, accepted, received, requests_queue >> /\ TablesOK'
    BY <1>1, <1>9 DEF registerSession, queues, TablesOK
  <2>2. putting[c] = {} /\ putting = [putting EXCEPT ![c] = {}]
    BY <1>1, <1>7, <2>1 DEF Putting, ClientsOK
  <2>3. ClientsOK'
    BY <1>1, <1>6, <2>1, <2>2, PuttingTypes DEF Phases
  <2> QED BY <1>2, <1>3, <1>5, <2>1, <2>3 DEF Types
<1>10. CASE SessionIDTimeout(c) \/ Disconnect(c) \/ PutFails(c)
  <2>1. /\ End(c) /\ UNCHANGED << requests_queue, new_session_id_response_callback >>
    BY <1>10 DEF SessionIDTimeout, Disconnect, PutFails, queues
  <2> QED BY <1>1, <1>2, <1>3, <1>5, <2>1, EndTypes DEF Types
<1>11. CASE \E r \in NextRequests(c) : putRequest(c, r)
  <2>1. PICK r \in NextRequests(c) : putRequest(c, r)
    BY <1>11
  <2>2. UNCHANGED << requests_queue, new_session_id_response_callback >>
    BY <2>1 DEF putRequest, queues
  <2>3. CASE c \in session_to_response_callback
    <3>1. /\ r \in Sent /\ r.client = c /\ r.xid <= MaxXid
          /\ r.xid = accepted[c] + 1 \/ r.xid = 0
      <4>1. CASE r = HeartbeatOf(c)
        BY <4>1, Bounds, SMT DEF HeartbeatOf, Sent, Request, Ops, Tagged
      <4>2. ASSUME NEW op \in {"Write", "Read", "Close"}, accepted[c] < MaxXid,
                   r = [client |-> c, xid |-> accepted[c] + 1, op |-> op]
            PROVE  /\ r \in Sent /\ r.client = c /\ r.xid <= MaxXid
                   /\ r.xid = accepted[c] + 1
        <5>1. /\ accepted[c] + 1 \in 0 .. CloseXid /\ accepted[c] + 1 <= MaxXid
              /\ accepted[c] + 1 # 0 /\ accepted[c] + 1 # CloseXid
          BY <1>6, <4>2, Bounds, SMT
        <5> QED BY <4>2, <5>1 DEF Sent, Request, Ops, Tagged
      <4> QED BY <2>1, <4>1, <4>2 DEF NextRequests
    <3>2. /\ phase' = [phase EXCEPT ![c] = "locking"]
          /\ putting' = [putting EXCEPT ![c] = {r}]
          /\ UNCHANGED << accepted, received, session_to_response_callback >>
      BY <2>1, <2>3 DEF putRequest
    <3>3. TablesOK'
      BY <1>1, <2>2, <3>2 DEF TablesOK
    <3>4. ClientsOK'
      <4>1. "locking" \in Phases /\ {r} \in SUBSET Sent
        BY <3>1 DEF Phases
      <4>2. \E q \in Sent : /\ {r} = {q} /\ q.client = c
                            /\ q.xid = accepted[c] + 1 \/ q.xid = 0
                            /\ q.xid <= MaxXid
        BY <3>1
      <4> QED BY <1>1, <1>6, <3>2, <4>1, <4>2, PuttingTypes
    <3> QED BY <1>2, <1>3, <1>5, <2>2, <3>3, <3>4 DEF Types
  <2>4. CASE c \notin session_to_response_callback
    <3>1. End(c)
      BY <2>1, <2>4 DEF putRequest
    <3> QED BY <1>1, <1>2, <1>3, <1>5, <2>2, <3>1, EndTypes DEF Types
  <2> QED BY <2>3, <2>4
<1>12. CASE PushRequest(c)
  <2>1. PICK r \in putting[c] :
            /\ requests_queue' = Emplace(requests_queue, r)
            /\ phase' = [phase EXCEPT ![c] = AfterPush(r.op)]
            /\ accepted' = IF r.xid > 0 THEN [accepted EXCEPT ![c] = r.xid]
                                        ELSE accepted
    BY <1>12 DEF PushRequest
  <2>2. /\ CanEmplace(requests_queue, max_requests_batch_size)
        /\ putting' = [putting EXCEPT ![c] = {}]
        /\ UNCHANGED << tables, received >>
    BY <1>12 DEF PushRequest
  <2>3. r \in Sent /\ r.xid <= MaxXid /\ r.xid \in Nat
    BY <1>7, <2>1, SentTypes, Bounds, SMT DEF Putting
  <2>4. RequestsOK' /\ RunningOK'
    BY <1>1, <1>4, <2>1, <2>2, <2>3, EmplaceTypes
  <2>5. /\ AfterPush(r.op) \in Phases
        /\ AfterPush(r.op) \notin {"locking", "pushing"}
    BY DEF AfterPush, Phases
  <2>6. PICK x \in 0 .. MaxXid : accepted' = [accepted EXCEPT ![c] = x]
    <3>1. CASE r.xid > 0
      BY <2>1, <2>3, <3>1, Bounds, SMT
    <3>2. CASE ~(r.xid > 0)
      BY <1>6, <2>1, <3>2
    <3> QED BY <3>1, <3>2
  <2>7. ClientsOK'
    BY <1>1, <2>1, <2>2, <2>5, <2>6, PuttingTypes
  <2>8. TablesOK'
    BY <1>1, <2>2 DEF TablesOK, tables
  <2> QED BY <1>2, <1>3, <2>4, <2>7, <2>8 DEF Types
<1>13. CASE WaitForRoom(c)
  <2>1. /\ phase' = [phase EXCEPT ![c] = "pushing"] /\ phase[c] = "locking"
        /\ UNCHANGED << putting, accepted, received, requests_queue, tables >>
    BY <1>13 DEF WaitForRoom, queues
  <2>2. putting = [putting EXCEPT ![c] = putting[c]]
    BY <1>1 DEF ClientsOK
  <2>3. ClientsOK'
    <3>1. \E r \in Sent : /\ putting[c] = {r} /\ r.client = c
                          /\ r.xid = accepted[c] + 1 \/ r.xid = 0
                          /\ r.xid <= MaxXid
      BY <1>7, <2>1 DEF Putting
    <3> QED BY <1>1, <1>6, <1>7, <2>1, <2>2, <3>1, PuttingTypes DEF Phases
  <2>4. TablesOK'
    BY <1>1, <2>1 DEF TablesOK, tables
  <2> QED BY <1>2, <1>3, <1>5, <2>1, <2>3, <2>4 DEF Types
<1> QED BY <1>8, <1>9, <1>10, <1>11, <1>12, <1>13 DEF Connection

\* The components a step leaves alone keep their types.
LEMMA SameTypes ==
    /\ TablesOK /\ UNCHANGED tables => TablesOK'
    /\ MutexOK /\ UNCHANGED push_request_mutex => MutexOK'
    /\ RequestsOK /\ UNCHANGED requests_queue => RequestsOK'
    /\ ResponsesOK /\ UNCHANGED responses_queue => ResponsesOK'
    /\ ClientsOK /\ UNCHANGED clients => ClientsOK'
    /\ RequestThreadOK /\ UNCHANGED request_thread => RequestThreadOK'
    /\ RaftOK /\ UNCHANGED raft => RaftOK'
    /\ CleanerOK /\ UNCHANGED cleaner => CleanerOK'
    /\ StopOK /\ UNCHANGED << stop, response_thread_alive >> => StopOK'
<1>1. TablesOK /\ UNCHANGED tables => TablesOK'
  BY DEF TablesOK, tables
<1>2. MutexOK /\ UNCHANGED push_request_mutex => MutexOK'
  BY DEF MutexOK
<1>3. RequestsOK /\ UNCHANGED requests_queue => RequestsOK'
  BY DEF RequestsOK
<1>4. ResponsesOK /\ UNCHANGED responses_queue => ResponsesOK'
  BY DEF ResponsesOK
<1>5. ClientsOK /\ UNCHANGED clients => ClientsOK'
  BY DEF ClientsOK, clients, Putting
<1>6. RequestThreadOK /\ UNCHANGED request_thread => RequestThreadOK'
  BY DEF RequestThreadOK, request_thread
<1>7. RaftOK /\ UNCHANGED raft => RaftOK'
  BY DEF RaftOK, raft
<1>8. CleanerOK /\ UNCHANGED cleaner => CleanerOK'
  BY DEF CleanerOK, cleaner
<1>9. StopOK /\ UNCHANGED << stop, response_thread_alive >> => StopOK'
  BY DEF StopOK, stop
<1> QED BY <1>1, <1>2, <1>3, <1>4, <1>5, <1>6, <1>7, <1>8, <1>9

\* requestThread ends.
LEMMA ExitTypes ==
    ASSUME RequestThreadOK, Exit PROVE RequestThreadOK'
  BY Bounds, SMT DEF RequestThreadOK, Exit

\* The first request of a batch, and the following ones.
LEMMA CollectTypes ==
    ASSUME RequestThreadOK, RequestsOK, PopRequest \/ Collect
    PROVE  RequestThreadOK' /\ (rpc' = "exited" => shutdown_called)
<1> DEFINE r == Front(requests_queue)
<1>1. r \in Sent
  BY PopTypes DEF PopRequest, Collect
<1> HIDE DEF r
<1>2. CASE shutdown_called
  <2>1. Exit
    BY <1>2 DEF PopRequest, Collect
  <2> QED BY <1>2, <2>1, ExitTypes
<1>3. CASE ~shutdown_called /\ PopRequest
  <2>1. /\ rpc = "pop" /\ UNCHANGED << prev_batch, prev_result, dropped >>
        /\ \/ rpc' = "force" /\ read' = {r} /\ batch' = batch
           \/ rpc' = "collect" /\ batch' = << r >> /\ read' = read
    BY <1>3 DEF PopRequest, r
  <2>2. << r >> \in Seq(Sent) /\ Len(<< r >>) = 1
    BY <1>1, SMT
  <2>3. CASE rpc' = "force" /\ read' = {r} /\ batch' = batch
    BY <1>1, <2>1, <2>3, Bounds DEF RequestThreadOK
  <2>4. CASE rpc' = "collect" /\ batch' = << r >> /\ read' = read
    <3>1. batch' \in Seq(Sent) /\ Len(batch') <= max_requests_batch_size
      BY <2>2, <2>4, Bounds, SMT
    <3> QED BY <2>1, <2>4, <3>1, Bounds, SMT DEF RequestThreadOK
  <2> QED BY <2>1, <2>3, <2>4
<1>4. CASE ~shutdown_called /\ Collect
  <2>1. /\ rpc = "collect" /\ UNCHANGED << prev_batch, prev_result, dropped >>
        /\ \/ rpc' = "force" /\ read' = {r} /\ batch' = batch
           \/ /\ batch' = Append(batch, r) /\ read' = read
              /\ rpc' = IF Len(batch') <= max_requests_batch_size
                        THEN "collect" ELSE "force"
    BY <1>4 DEF Collect, r
  <2>2. Append(batch, r) \in Seq(Sent) /\ Len(Append(batch, r)) = Len(batch) + 1
    BY <1>1, SMT DEF RequestThreadOK
  <2>3. CASE rpc' = "force" /\ read' = {r} /\ batch' = batch
    BY <1>1, <2>1, <2>3, Bounds DEF RequestThreadOK
  <2>4. CASE /\ batch' = Append(batch, r) /\ read' = read
             /\ rpc' = IF Len(batch') <= max_requests_batch_size
                       THEN "collect" ELSE "force"
    <3>1. batch' \in Seq(Sent) /\ Len(batch') <= max_requests_batch_size + 1
      BY <2>1, <2>2, <2>4, Bounds, SMT DEF RequestThreadOK
    <3> QED BY <2>1, <2>4, <3>1 DEF RequestThreadOK
  <2> QED BY <2>1, <2>3, <2>4
<1> QED BY <1>2, <1>3, <1>4

\* forceWaitAndProcessResult answers the requests of the batch or none.
LEMMA ProcessResultTypes ==
    ASSUME ResponsesOK, RequestThreadOK, ProcessResult
    PROVE  /\ ResponsesOK'
           /\ responses_queue'.is_finished = responses_queue.is_finished
<1>1. ASSUME NEW e \in Errors, addErrorResponses(prev_batch, e)
      PROVE  /\ ResponsesOK'
             /\ responses_queue'.is_finished = responses_queue.is_finished
  BY <1>1, ErrorTypes, PushTypes DEF addErrorResponses, RequestThreadOK
<1>2. CASE prev_result \in {"rejected", "timeout"}
  BY <1>1, <1>2 DEF ProcessResult, ProcessResultBy, Errors
<1>3. CASE prev_result = "failed"
  BY <1>1, <1>3 DEF ProcessResult, ProcessResultBy, Errors
<1>4. CASE prev_result \notin {"rejected", "timeout", "failed"}
  BY <1>4 DEF ProcessResult, ProcessResultBy, ResponsesOK
<1> QED BY <1>2, <1>3, <1>4

\* The steps of requestThread keep the types.
LEMMA RequestThreadTypes ==
    ASSUME Types, requestThread PROVE Types'
<1>1. /\ TablesOK /\ MutexOK /\ RequestsOK /\ ResponsesOK /\ ClientsOK
      /\ RequestThreadOK /\ RaftOK /\ CleanerOK /\ StopOK /\ RunningOK
  BY DEF Types
<1>2. UNCHANGED NotTheRequestThread
  BY DEF requestThread, PopRequest, Collect, forceWaitAndProcessResult,
         PutAccepted, PutRejected, PutReturns, PutReturnsNull,
         putLocalReadRequest, ReadFails, Caught, RequestThreadExits
<1>3. TablesOK' /\ MutexOK' /\ ClientsOK' /\ CleanerOK' /\ StopOK'
  BY <1>1, <1>2, SameTypes DEF NotTheRequestThread
<1>4. UNCHANGED << shutdown_called, spc, response_thread_alive >>
  BY <1>2 DEF NotTheRequestThread, stop
<1>5. ASSUME requests_queue'.is_finished = requests_queue.is_finished,
             responses_queue'.is_finished = responses_queue.is_finished,
             ~shutdown_called => rpc' # "exited"
      PROVE  RunningOK'
  BY <1>1, <1>4, <1>5 DEF RunningOK
<1>6. MoreTrouble => failures + 1 \in 0 .. MaxTrouble
  BY <1>1, Bounds, SMT DEF MoreTrouble, RaftOK
<1>7. CASE PopRequest \/ Collect
  <2>1. /\ CanPop(requests_queue) /\ requests_queue' = Pop(requests_queue)
        /\ UNCHANGED << responses_queue, raft >>
    BY <1>7 DEF PopRequest, Collect
  <2>2. RequestsOK' /\ requests_queue'.is_finished = requests_queue.is_finished
    BY <1>1, <2>1, PopTypes
  <2>3. RequestThreadOK' /\ (rpc' = "exited" => shutdown_called)
    BY <1>1, <1>7, CollectTypes
  <2>4. ResponsesOK' /\ RaftOK'
    BY <1>1, <2>1, SameTypes
  <2>5. RunningOK'
    BY <1>5, <2>1, <2>2, <2>3
  <2> QED BY <1>3, <2>2, <2>3, <2>4, <2>5 DEF Types
<1>8. CASE forceWaitAndProcessResult
  <2>1. /\ ProcessResult /\ UNCHANGED << batch, read, dropped, requests_queue, raft >>
        /\ prev_result' = "null" /\ prev_batch' = << >>
        /\ rpc' = IF rpc # "forceRead" /\ batch # << >> THEN "put" ELSE "read"
    BY <1>8 DEF forceWaitAndProcessResult
  <2>2. /\ ResponsesOK'
        /\ responses_queue'.is_finished = responses_queue.is_finished
    BY <1>1, <2>1, ProcessResultTypes
  <2>3. RequestThreadOK'
    BY <1>1, <2>1, SMT DEF RequestThreadOK
  <2>4. RequestsOK' /\ RaftOK'
    BY <1>1, <2>1, SameTypes
  <2>5. RunningOK'
    BY <1>5, <2>1, <2>2
  <2> QED BY <1>3, <2>2, <2>3, <2>4, <2>5 DEF Types
<1>9. CASE PutAccepted \/ PutRejected
  <2>1. /\ rpc = "put" /\ prev_batch' = batch /\ batch' = << >>
        /\ prev_result' \in {"pending", "rejected"}
        /\ rpc' = IF read = {} THEN "pop" ELSE "forceRead"
        /\ UNCHANGED << read, dropped, requests_queue, responses_queue, is_leader,
                        expiries, sessions, dead >>
    BY <1>9 DEF PutAccepted, PutRejected, PutReturns, queues
  <2>2. RequestThreadOK'
    BY <1>1, <2>1, Bounds, SMT DEF RequestThreadOK
  <2>3. raft_log' \in Seq(Sent) /\ failures' \in 0 .. MaxTrouble
    <3>1. CASE PutAccepted
      BY <1>1, <3>1, SMT DEF PutAccepted, AppendToRaft, RaftOK, RequestThreadOK
    <3>2. CASE PutRejected
      BY <1>1, <1>6, <3>2 DEF PutRejected, RaftOK
    <3> QED BY <1>9, <3>1, <3>2
  <2>4. RaftOK'
    BY <1>1, <2>1, <2>3 DEF RaftOK
  <2>5. RequestsOK' /\ ResponsesOK'
    BY <1>1, <2>1, SameTypes
  <2>6. RunningOK'
    BY <1>5, <2>1
  <2> QED BY <1>3, <2>2, <2>4, <2>5, <2>6 DEF Types
<1>10. CASE PutReturnsNull
  <2>1. /\ rpc = "put" /\ MoreTrouble /\ failures' = failures + 1
        /\ addErrorResponses(batch, "ZCONNECTIONLOSS") /\ batch' = << >>
        /\ rpc' = IF read = {} THEN "pop" ELSE "read"
        /\ UNCHANGED << read, dropped, prev_batch, prev_result, requests_queue, raft_log,
                        is_leader, expiries, sessions, dead >>
    BY <1>10 DEF PutReturnsNull
  <2>2. /\ ResponsesOK'
        /\ responses_queue'.is_finished = responses_queue.is_finished
    BY <1>1, <2>1, ErrorTypes, PushTypes DEF addErrorResponses, RequestThreadOK, Errors
  <2>3. RequestThreadOK'
    BY <1>1, <2>1, Bounds, SMT DEF RequestThreadOK
  <2>4. RaftOK'
    BY <1>1, <1>6, <2>1 DEF RaftOK
  <2>5. RequestsOK'
    BY <1>1, <2>1, SameTypes
  <2>6. RunningOK'
    BY <1>5, <2>1, <2>2
  <2> QED BY <1>3, <2>2, <2>3, <2>4, <2>5, <2>6 DEF Types
<1>11. CASE putLocalReadRequest \/ ReadFails
  <2>1. /\ rpc = "read" /\ read' = {} /\ rpc' = "pop"
        /\ UNCHANGED << batch, dropped, prev_batch, prev_result, requests_queue, raft_log,
                        is_leader, expiries, sessions >>
        /\ dead' \subseteq dead
        /\ failures' = failures \/ (MoreTrouble /\ failures' = failures + 1)
    BY <1>11 DEF putLocalReadRequest, ReadFails
  <2>2. /\ ResponsesOK'
        /\ responses_queue'.is_finished = responses_queue.is_finished
    <3>1. PICK r \in read :
              \/ PushResponses(<< Response(r, r.xid, "ZOK") >>)
              \/ addErrorResponses(<< r >>, "ZCONNECTIONLOSS")
      BY <1>11 DEF putLocalReadRequest, ReadFails
    <3>2. r \in Sent
      BY <1>1, <3>1 DEF RequestThreadOK
    <3>3. r.xid \in 0 .. CloseXid
      BY <3>2, SentTypes
    <3>4. << Response(r, r.xid, "ZOK") >> \in Seq(Reply)
      BY <3>2, <3>3, ResponseTypes, SMT DEF Errors
    <3>5. ErrorResponses(<< r >>, "ZCONNECTIONLOSS") \in Seq(Reply)
      <4>1. << r >> \in Seq(Sent)
        BY <3>2, SMT
      <4> QED BY <4>1, ErrorTypes DEF Errors
    <3> QED BY <1>1, <3>1, <3>4, <3>5, PushTypes DEF addErrorResponses
  <2>3. RequestThreadOK'
    BY <1>1, <2>1, Bounds DEF RequestThreadOK
  <2>4. RaftOK'
    BY <1>1, <1>6, <2>1 DEF RaftOK
  <2>5. RequestsOK'
    BY <1>1, <2>1, SameTypes
  <2>6. RunningOK'
    BY <1>5, <2>1, <2>2
  <2> QED BY <1>3, <2>2, <2>3, <2>4, <2>5, <2>6 DEF Types
<1>12. CASE RequestThreadExits
  <2>1. Exit /\ shutdown_called /\ UNCHANGED << requests_queue, responses_queue, raft >>
    BY <1>12 DEF RequestThreadExits, queues
  <2>2. RequestThreadOK'
    BY <1>1, <2>1, ExitTypes
  <2>3. RequestsOK' /\ ResponsesOK' /\ RaftOK'
    BY <1>1, <2>1, SameTypes
  <2>4. RunningOK'
    BY <1>5, <2>1
  <2> QED BY <1>3, <2>2, <2>3, <2>4 DEF Types
<1>13. CASE Caught
  <2>1. /\ dropped' = dropped \cup Ids(batch) \cup read
        /\ batch' = << >> /\ read' = {} /\ rpc' = "pop"
        /\ UNCHANGED << prev_batch, prev_result, requests_queue, responses_queue,
                        raft_log, is_leader, expiries, sessions >>
        /\ dead' \subseteq dead /\ MoreTrouble /\ failures' = failures + 1
    BY <1>13 DEF Caught, queues
  <2>2. dropped' \subseteq Sent
    <3>1. Ids(batch) \subseteq Sent /\ read \subseteq Sent /\ dropped \subseteq Sent
      BY <1>1, IdsIn DEF RequestThreadOK
    <3> QED BY <2>1, <3>1
  <2>3. RequestThreadOK'
    BY <1>1, <2>1, <2>2, Bounds, SMT DEF RequestThreadOK
  <2>4. RaftOK'
    BY <1>1, <1>6, <2>1 DEF RaftOK
  <2>5. RequestsOK' /\ ResponsesOK'
    BY <1>1, <2>1, SameTypes
  <2>6. RunningOK'
    BY <1>5, <2>1
  <2> QED BY <1>3, <2>3, <2>4, <2>5, <2>6 DEF Types
<1> QED BY <1>7, <1>8, <1>9, <1>10, <1>11, <1>12, <1>13 DEF requestThread

\* The steps of responseThread keep the types.
LEMMA ResponseThreadTypes ==
    ASSUME Types, responseThread PROVE Types'
<1>1. /\ TablesOK /\ MutexOK /\ RequestsOK /\ ResponsesOK /\ ClientsOK
      /\ RequestThreadOK /\ RaftOK /\ CleanerOK /\ StopOK /\ RunningOK
  BY DEF Types
<1>2. UNCHANGED << requests_queue, push_request_mutex, request_thread, raft,
                   cleaner, stop >>
  BY DEF responseThread, PopResponse, ResponseThreadExits
<1>3. MutexOK' /\ RequestsOK' /\ RequestThreadOK' /\ RaftOK' /\ CleanerOK'
  BY <1>1, <1>2, SameTypes
<1>4. CASE PopResponse
  <2>1. /\ responses_queue' = [responses_queue EXCEPT !.queue = Tail(@)]
        /\ responses_queue.queue # << >>
        /\ setResponse(Head(responses_queue.queue))
        /\ UNCHANGED << putting, accepted, response_thread_alive >>
    BY <1>4 DEF PopResponse, CanPop, Pop, Front
  <2>2. /\ Head(responses_queue.queue) \in Reply
        /\ Tail(responses_queue.queue) \in Seq(Reply)
    BY <1>1, <2>1, SMT DEF ResponsesOK
  <2>3. /\ ResponsesOK'
        /\ responses_queue'.is_finished = responses_queue.is_finished
    <3> DEFINE q == Tail(responses_queue.queue)
    <3>1. q \in Seq(Reply) /\ responses_queue' = [responses_queue EXCEPT !.queue = q]
      BY <2>1, <2>2
    <3> HIDE DEF q
    <3> QED BY <1>1, <3>1 DEF ResponsesOK
  <2>4. TablesOK' /\ ClientsOK'
    BY <1>1, <2>1, <2>2, SetResponseTypes DEF Reply
  <2>5. StopOK'
    BY <1>1, <1>2, <2>1, SameTypes
  <2>6. RunningOK'
    BY <1>1, <1>2, <2>1, <2>3 DEF RunningOK, stop, request_thread
  <2> QED BY <1>3, <2>3, <2>4, <2>5, <2>6 DEF Types
<1>5. CASE ResponseThreadExits
  <2>1. /\ shutdown_called /\ response_thread_alive' = FALSE
        /\ responses_queue' = [responses_queue EXCEPT !.queue = << >>]
        /\ UNCHANGED << tables, clients >>
    BY <1>5 DEF ResponseThreadExits
  <2>2. ResponsesOK'
    <3> DEFINE q == << >>
    <3>1. q \in Seq(Reply) /\ responses_queue' = [responses_queue EXCEPT !.queue = q]
      BY <2>1, SMT
    <3> HIDE DEF q
    <3> QED BY <1>1, <3>1 DEF ResponsesOK
  <2>3. TablesOK' /\ ClientsOK'
    BY <1>1, <2>1, SameTypes
  <2>4. StopOK' /\ RunningOK'
    BY <1>1, <1>2, <2>1 DEF StopOK, RunningOK, stop
  <2> QED BY <1>3, <2>2, <2>3, <2>4 DEF Types
<1> QED BY <1>4, <1>5 DEF responseThread

\* The list of the dead sessions is a list of sessions, and not empty.
LEMMA DeadSessionsTypes ==
    ASSUME RaftOK, NEW s \in getDeadSessions
    PROVE  s \in Seq(Client) /\ s # << >>
<1>1. PICK n \in 1 .. MaxTrouble : s \in [1 .. n -> dead]
  BY DEF getDeadSessions
<1>2. s \in Seq(dead) /\ Len(s) = n
  BY <1>1, Bounds, SMT
<1> QED BY <1>1, <1>2, Bounds, SMT DEF RaftOK

\* The steps of the session cleaner keep the types.
LEMMA CleanerTypes ==
    ASSUME Types, sessionCleanerTask PROVE Types'
<1>1. /\ TablesOK /\ MutexOK /\ RequestsOK /\ ResponsesOK /\ ClientsOK
      /\ RequestThreadOK /\ RaftOK /\ CleanerOK /\ StopOK /\ RunningOK
  BY DEF Types
<1>2. UNCHANGED << clients, responses_queue, request_thread, raft,
                   response_thread_alive, stop >>
  BY DEF sessionCleanerTask, CleanerWakes, CleanerPushes, CleanerWaitsForRoom,
         CleanerFinishes, FinishThen, NotTheCleaner, queues
<1>3. ClientsOK' /\ ResponsesOK' /\ RequestThreadOK' /\ RaftOK' /\ StopOK'
  BY <1>1, <1>2, SameTypes
<1>4. ASSUME requests_queue'.is_finished = requests_queue.is_finished
      PROVE  RunningOK'
  BY <1>1, <1>2, <1>4 DEF RunningOK, stop, request_thread
<1>5. MutexOK'
  BY <1>1 DEF sessionCleanerTask, CleanerWakes, CleanerPushes,
         CleanerWaitsForRoom, CleanerFinishes, FinishThen, MutexOK
<1>6. CASE CleanerWakes
  <2>1. UNCHANGED << tables, requests_queue >>
    BY <1>6 DEF CleanerWakes, queues
  <2>2. CleanerOK'
    <3>1. CASE shutdown_called
      BY <1>1, <1>6, <3>1 DEF CleanerWakes, CleanerOK
    <3>2. CASE ~shutdown_called
      <4>1. dead # {} /\ cpc' = "locking" /\ dead_sessions' \in getDeadSessions
        BY <1>6, <3>2 DEF CleanerWakes
      <4>2. dead_sessions' \in Seq(Client) /\ dead_sessions' # << >>
        BY <1>1, <4>1, DeadSessionsTypes
      <4> QED BY <4>1, <4>2 DEF CleanerOK
    <3> QED BY <3>1, <3>2
  <2> QED BY <1>1, <1>3, <1>4, <1>5, <2>1, <2>2, SameTypes DEF Types
<1>7. CASE CleanerPushes
  <2>1. /\ cpc \in {"locking", "pushing"} /\ cpc' = "finishing"
        /\ CanEmplace(requests_queue, max_requests_batch_size)
        /\ requests_queue' = Emplace(requests_queue, CloseOf(Head(dead_sessions)))
        /\ UNCHANGED << tables, dead_sessions >>
    BY <1>7 DEF CleanerPushes
  <2>2. CloseOf(Head(dead_sessions)) \in Sent
    <3>1. Head(dead_sessions) \in Client
      BY <1>1, <2>1, SMT DEF CleanerOK
    <3> QED BY <3>1, Bounds, SMT DEF CloseOf, Sent, Request, Ops, Tagged
  <2>3. RequestsOK' /\ requests_queue'.is_finished = requests_queue.is_finished
    BY <1>1, <2>1, <2>2, EmplaceTypes
  <2>4. CleanerOK'
    BY <1>1, <2>1 DEF CleanerOK
  <2> QED BY <1>1, <1>3, <1>4, <1>5, <2>1, <2>3, <2>4, SameTypes DEF Types
<1>8. CASE CleanerWaitsForRoom
  <2>1. /\ cpc = "locking" /\ cpc' = "pushing"
        /\ UNCHANGED << tables, requests_queue, dead_sessions >>
    BY <1>8 DEF CleanerWaitsForRoom, queues
  <2>2. CleanerOK'
    BY <1>1, <2>1 DEF CleanerOK
  <2> QED BY <1>1, <1>3, <1>4, <1>5, <2>1, <2>2, SameTypes DEF Types
<1>9. CASE CleanerFinishes
  <2>1. /\ cpc = "finishing" /\ dead_sessions' = Tail(dead_sessions)
        /\ cpc' = IF Len(dead_sessions) = 1 THEN "sleep" ELSE "locking"
        /\ session_to_response_callback' \subseteq session_to_response_callback
        /\ UNCHANGED << new_session_id_response_callback, requests_queue >>
    BY <1>9 DEF CleanerFinishes, FinishThen, finishSession, queues
  <2>2. /\ dead_sessions # << >> /\ Tail(dead_sessions) \in Seq(Client)
        /\ Len(Tail(dead_sessions)) = Len(dead_sessions) - 1
    BY <1>1, <2>1, SMT DEF CleanerOK
  <2>3. CleanerOK'
    <3>1. Len(dead_sessions) # 1 => Len(Tail(dead_sessions)) # 0
      BY <1>1, <2>2, SMT DEF CleanerOK
    <3> QED BY <2>1, <2>2, <3>1, Len(<< >>) = 0 DEF CleanerOK
  <2>4. TablesOK'
    BY <1>1, <2>1 DEF TablesOK
  <2> QED BY <1>1, <1>3, <1>4, <1>5, <2>1, <2>3, <2>4, SameTypes DEF Types
<1> QED BY <1>6, <1>7, <1>8, <1>9 DEF sessionCleanerTask

\* The steps of shutdown() keep the types.
LEMMA ShutdownTypes ==
    ASSUME Types, BeginShutdown \/ shutdown PROVE Types'
<1>1. /\ TablesOK /\ MutexOK /\ RequestsOK /\ ResponsesOK /\ ClientsOK
      /\ RequestThreadOK /\ RaftOK /\ CleanerOK /\ StopOK /\ RunningOK
  BY DEF Types
<1>2. /\ UNCHANGED << request_thread, raft, response_thread_alive, cleaner >>
      /\ shutdown_called' = TRUE
  BY <1>1 DEF BeginShutdown, shutdown, JoinCleaner, JoinRequestThread,
         JoinResponseThread, JoinSnapshotThread,
         JoinUpdateConfigurationThread, ExpirePending, EndShutdown, stop, RunningOK, StopOK, Joining
<1>3. /\ RequestThreadOK' /\ RaftOK' /\ CleanerOK' /\ RunningOK'
  BY <1>1, <1>2, SameTypes DEF RunningOK
<1>4. MutexOK' /\ StopOK'
  BY <1>1, <1>2 DEF BeginShutdown, shutdown, JoinCleaner, JoinRequestThread,
         JoinResponseThread, JoinSnapshotThread,
         JoinUpdateConfigurationThread, ExpirePending, EndShutdown, stop, MutexOK, StopOK, Joining
<1>5. CASE \/ BeginShutdown \/ JoinResponseThread
           \/ JoinSnapshotThread \/ JoinUpdateConfigurationThread
  BY <1>1, <1>3, <1>4, <1>5, SameTypes
     DEF BeginShutdown, JoinResponseThread, JoinSnapshotThread,
         JoinUpdateConfigurationThread, queues, Types
<1>6. CASE JoinCleaner
  <2>1. /\ requests_queue' = [requests_queue EXCEPT !.is_finished = TRUE]
        /\ UNCHANGED << tables, responses_queue, clients >>
    BY <1>6 DEF JoinCleaner, finish
  <2>2. RequestsOK'
    BY <1>1, <2>1 DEF RequestsOK
  <2> QED BY <1>1, <1>3, <1>4, <2>1, <2>2, SameTypes DEF Types
<1>7. CASE JoinRequestThread
  <2>1. /\ responses_queue' = [responses_queue EXCEPT !.is_finished = TRUE]
        /\ UNCHANGED << tables, requests_queue, clients >>
    BY <1>7 DEF JoinRequestThread, finish
  <2>2. ResponsesOK'
    BY <1>1, <2>1 DEF ResponsesOK
  <2> QED BY <1>1, <1>3, <1>4, <2>1, <2>2, SameTypes DEF Types
<1>8. CASE ExpirePending
  <2>1. /\ CanPop(requests_queue) /\ requests_queue' = Pop(requests_queue)
        /\ setResponse(Response(Front(requests_queue), 0, "ZSESSIONEXPIRED"))
        /\ UNCHANGED << responses_queue, putting, accepted >>
    BY <1>8 DEF ExpirePending
  <2>2. RequestsOK' /\ Front(requests_queue) \in Sent
    BY <1>1, <2>1, PopTypes
  <2>3. Response(Front(requests_queue), 0, "ZSESSIONEXPIRED") \in Answer
    BY <2>2, ResponseTypes, Bounds, SMT DEF Errors
  <2>4. TablesOK' /\ ClientsOK'
    BY <1>1, <2>1, <2>3, SetResponseTypes
  <2> QED BY <1>1, <1>3, <1>4, <2>1, <2>2, <2>4, SameTypes DEF Types
<1>9. CASE EndShutdown
  <2>1. /\ session_to_response_callback' = {}
        /\ UNCHANGED << new_session_id_response_callback, requests_queue,
                        responses_queue, clients >>
    BY <1>9 DEF EndShutdown, queues
  <2>2. TablesOK'
    BY <1>1, <2>1 DEF TablesOK
  <2> QED BY <1>1, <1>3, <1>4, <2>1, <2>2, SameTypes DEF Types
<1> QED BY <1>5, <1>6, <1>7, <1>8, <1>9 DEF shutdown

\* The steps of Raft and of the storage keep the types.
LEMMA RaftTypes ==
    ASSUME Types, Raft PROVE Types'
<1>1. /\ TablesOK /\ MutexOK /\ RequestsOK /\ ResponsesOK /\ ClientsOK
      /\ RequestThreadOK /\ RaftOK /\ CleanerOK /\ StopOK /\ RunningOK
  BY DEF Types
<1>2. UNCHANGED << tables, push_request_mutex, clients, rpc, batch, read,
                   prev_batch, dropped, response_thread_alive, cleaner, stop,
                   requests_queue >>
  BY DEF Raft, commit, ResultIsSet, ResultTimesOut, LoseLeadership, BecomeLeader,
         SessionExpires, NotRaft, queues
<1>3. TablesOK' /\ MutexOK' /\ RequestsOK' /\ ClientsOK' /\ CleanerOK' /\ StopOK'
  BY <1>1, <1>2, SameTypes
<1>4. RequestThreadOK'
  <2>1. \/ prev_result' = prev_result
        \/ prev_result = "pending" /\ prev_result' \in {"ok", "timeout", "failed"}
    BY DEF Raft, commit, ResultIsSet, ResultTimesOut, LoseLeadership, BecomeLeader, SessionExpires
  <2> QED BY <1>1, <1>2, <2>1 DEF RequestThreadOK
<1>5. MoreTrouble => failures + 1 \in 0 .. MaxTrouble /\ expiries + 1 \in 0 .. MaxTrouble
  BY <1>1, Bounds, SMT DEF MoreTrouble, RaftOK
<1>6. ASSUME responses_queue'.is_finished = responses_queue.is_finished
      PROVE  RunningOK'
  BY <1>1, <1>2, <1>6 DEF RunningOK, stop
<1>7. CASE commit
  <2> DEFINE r == Head(raft_log)
  <2>1. r \in Sent /\ Tail(raft_log) \in Seq(Sent)
    BY <1>1, <1>7, SMT DEF commit, RaftOK
  <2>2. r.xid \in 0 .. CloseXid /\ r.client \in Client
    BY <2>1, SentTypes
  <2>3. << Response(r, r.xid, "ZOK") >> \in Seq(Reply)
    BY <2>1, <2>2, ResponseTypes, SMT DEF Errors
  <2>4. /\ ResponsesOK'
        /\ responses_queue'.is_finished = responses_queue.is_finished
    BY <1>1, <1>7, <2>3, PushTypes DEF commit
  <2> HIDE DEF r
  <2>5. /\ raft_log' = Tail(raft_log) /\ UNCHANGED << is_leader, failures, expiries >>
        /\ dead' = dead \ {r.client}
        /\ \/ sessions' = sessions \cup {r.client}
           \/ sessions' = sessions \ {r.client}
           \/ sessions' = sessions
    BY <1>7 DEF commit, r
  <2>6. RaftOK'
    BY <1>1, <2>1, <2>2, <2>5 DEF RaftOK
  <2> QED BY <1>3, <1>4, <1>6, <2>4, <2>6 DEF Types
<1>8. CASE ResultIsSet \/ ResultTimesOut \/ LoseLeadership \/ BecomeLeader
  <2>1. UNCHANGED << responses_queue, expiries, sessions, dead >>
    BY <1>8 DEF ResultIsSet, ResultTimesOut, LoseLeadership, BecomeLeader, queues, raft
  <2>2. /\ failures' = failures \/ (MoreTrouble /\ failures' = failures + 1)
        /\ raft_log' \in {<< >>, raft_log}
    BY <1>8 DEF ResultIsSet, ResultTimesOut, LoseLeadership, BecomeLeader, raft
  <2>3. RaftOK'
    <3>0. is_leader' \in BOOLEAN
      BY <1>1, <1>8 DEF RaftOK, ResultIsSet, ResultTimesOut, LoseLeadership,
         BecomeLeader, raft
    <3>1. raft_log' \in Seq(Sent)
      <4>1. << >> \in Seq(Sent)
        BY SMT
      <4> QED BY <1>1, <2>2, <4>1 DEF RaftOK
    <3>2. failures' \in 0 .. MaxTrouble
      BY <1>1, <1>5, <2>2 DEF RaftOK
    <3> QED BY <1>1, <2>1, <3>0, <3>1, <3>2 DEF RaftOK
  <2> QED BY <1>1, <1>3, <1>4, <1>6, <2>1, <2>3, SameTypes DEF Types
<1>9. CASE \E c \in Client : SessionExpires(c)
  <2>1. PICK c \in Client : SessionExpires(c)
    BY <1>9
  <2>2. /\ UNCHANGED << responses_queue, raft_log, is_leader, failures, sessions >>
        /\ c \in sessions /\ dead' = dead \cup {c}
        /\ MoreTrouble /\ expiries' = expiries + 1
    BY <2>1 DEF SessionExpires, queues
  <2>3. RaftOK'
    BY <1>1, <1>5, <2>2 DEF RaftOK
  <2> QED BY <1>1, <1>3, <1>4, <1>6, <2>2, <2>3, SameTypes DEF Types
<1> QED BY <1>7, <1>8, <1>9 DEF Raft

\* Every step keeps the types.
LEMMA NextTypes == Types /\ [Next]_vars => Types'
<1> SUFFICES ASSUME Types, [Next]_vars PROVE Types'
  OBVIOUS
<1>1. CASE UNCHANGED vars
  <2>1. UNCHANGED << tables, requests_queue, responses_queue, push_request_mutex,
                     clients, request_thread, raft, response_thread_alive,
                     cleaner, stop >>
    BY <1>1 DEF vars, queues
  <2>2. RunningOK'
    BY <2>1 DEF Types, RunningOK, stop, request_thread
  <2> QED BY <2>1, <2>2, SameTypes DEF Types
<1>2. CASE Next
  BY <1>2, ConnectionTypes, RequestThreadTypes, ResponseThreadTypes,
     CleanerTypes, RaftTypes, ShutdownTypes DEF Next
<1> QED BY <1>1, <1>2

\* The types hold in every reachable state.
LEMMA TypesInvariant == Spec => []Types
  BY InitTypes, NextTypes, PTL DEF Spec

\* The dispatcher's variables have their types, for any number of connections
\* and every size of the queues and batches: requests_queue never exceeds its
\* bound, a batch never by more than one request, a connection puts one
\* request at a time.
THEOREM TypesAlwaysOK == Spec => []TypeOK
  BY TypesInvariant, TypesImplyTypeOK, PTL

-----------------------------------------------------------------------------
(***************************************************************************)
(* Sequences of requests and responses, and the order in them.             *)
(***************************************************************************)

\* Requests and responses with a number of the client: not the session id
\* requests, the heartbeats and the Close of the session cleaner.
Numbered(r, c) == r.client = c /\ r.xid \in 1 .. MaxXid

\* The numbers of the client's requests in a set.
Xids(S, c) == {r.xid : r \in {q \in S : Numbered(q, c)}}

\* The client's requests are in the order in which it has sent them.
Sorted(s, c) ==
    \A i, j \in DOMAIN s :
        i < j /\ Numbered(s[i], c) /\ Numbered(s[j], c) => s[i].xid < s[j].xid

Below(S, T) == \A x \in S, y \in T : x < y

\* The elements of the empty sequence, ...
LEMMA IdsEmpty == Ids(<< >>) = {}
  BY SMT DEF Ids

\* ... of a sequence with one more, ...
LEMMA IdsAppend ==
    ASSUME NEW T, NEW s \in Seq(T), NEW x \in T
    PROVE  Ids(Append(s, x)) = Ids(s) \cup {x}
<1>1. /\ DOMAIN Append(s, x) = 1 .. Len(s) + 1 /\ Len(s) \in Nat
      /\ \A i \in 1 .. Len(s) : Append(s, x)[i] = s[i]
      /\ Append(s, x)[Len(s) + 1] = x /\ DOMAIN s = 1 .. Len(s)
  BY SMT
<1>2. Ids(Append(s, x)) \subseteq Ids(s) \cup {x}
  BY <1>1, SMT DEF Ids
<1>3. Ids(s) \subseteq Ids(Append(s, x))
  BY <1>1, SMT DEF Ids
<1>4. x \in Ids(Append(s, x))
  BY <1>1, SMT DEF Ids
<1> QED BY <1>2, <1>3, <1>4

\* ... of a sequence of one, ...
LEMMA IdsOne == ASSUME NEW x PROVE Ids(<< x >>) = {x}
  BY SMT DEF Ids

\* ... of two sequences, one behind the other, ...
LEMMA IdsConcat ==
    ASSUME NEW T, NEW s \in Seq(T), NEW t \in Seq(T)
    PROVE  Ids(s \o t) = Ids(s) \cup Ids(t)
<1>1. /\ DOMAIN (s \o t) = 1 .. Len(s) + Len(t) /\ Len(s) \in Nat /\ Len(t) \in Nat
      /\ DOMAIN s = 1 .. Len(s) /\ DOMAIN t = 1 .. Len(t)
      /\ \A i \in 1 .. Len(s) : (s \o t)[i] = s[i]
      /\ \A i \in 1 .. Len(t) : (s \o t)[Len(s) + i] = t[i]
  BY SMT
<1>2. Ids(s \o t) \subseteq Ids(s) \cup Ids(t)
  <2> SUFFICES ASSUME NEW i \in 1 .. Len(s) + Len(t)
               PROVE  (s \o t)[i] \in Ids(s) \cup Ids(t)
    BY <1>1 DEF Ids
  <2>1. CASE i <= Len(s)
    BY <1>1, <2>1, SMT DEF Ids
  <2>2. CASE ~(i <= Len(s))
    <3>1. i - Len(s) \in 1 .. Len(t) /\ i = Len(s) + (i - Len(s))
      BY <1>1, <2>2, SMT
    <3>2. (s \o t)[i] = t[i - Len(s)]
      BY <1>1, <3>1
    <3> QED BY <1>1, <3>1, <3>2 DEF Ids
  <2> QED BY <2>1, <2>2
<1>3. Ids(s) \subseteq Ids(s \o t)
  BY <1>1, SMT DEF Ids
<1>4. Ids(t) \subseteq Ids(s \o t)
  <2> SUFFICES ASSUME NEW i \in 1 .. Len(t) PROVE t[i] \in Ids(s \o t)
    BY <1>1 DEF Ids
  <2>1. Len(s) + i \in DOMAIN (s \o t) /\ (s \o t)[Len(s) + i] = t[i]
    BY <1>1, SMT
  <2> QED BY <2>1 DEF Ids
<1> QED BY <1>2, <1>3, <1>4

\* ... and of a sequence without its first.
LEMMA IdsTail ==
    ASSUME NEW T, NEW s \in Seq(T), s # << >>
    PROVE  Ids(s) = {Head(s)} \cup Ids(Tail(s))
<1>1. /\ DOMAIN Tail(s) = 1 .. Len(s) - 1 /\ Len(s) \in Nat /\ Len(s) >= 1
      /\ DOMAIN s = 1 .. Len(s) /\ Head(s) = s[1]
      /\ \A i \in 1 .. Len(s) - 1 : Tail(s)[i] = s[i + 1]
  BY SMT
<1>2. Ids(s) \subseteq {Head(s)} \cup Ids(Tail(s))
  <2> SUFFICES ASSUME NEW i \in 1 .. Len(s), i # 1 PROVE s[i] \in Ids(Tail(s))
    BY <1>1 DEF Ids
  <2>1. i - 1 \in 1 .. Len(s) - 1 /\ Tail(s)[i - 1] = s[i]
    BY <1>1, SMT
  <2> QED BY <1>1, <2>1 DEF Ids
<1>3. Head(s) \in Ids(s)
  BY <1>1, SMT DEF Ids
<1>4. Ids(Tail(s)) \subseteq Ids(s)
  <2> SUFFICES ASSUME NEW i \in 1 .. Len(s) - 1 PROVE Tail(s)[i] \in Ids(s)
    BY <1>1 DEF Ids
  <2>1. i + 1 \in DOMAIN s /\ Tail(s)[i] = s[i + 1]
    BY <1>1, SMT
  <2> QED BY <2>1 DEF Ids
<1> QED BY <1>2, <1>3, <1>4

\* The numbers in sets.
LEMMA XidsUnion ==
    ASSUME NEW S, NEW T, NEW c PROVE Xids(S \cup T, c) = Xids(S, c) \cup Xids(T, c)
  BY DEF Xids

\* One request has one number or none.
LEMMA XidsOne ==
    ASSUME NEW r, NEW c
    PROVE  Xids({r}, c) = IF Numbered(r, c) THEN {r.xid} ELSE {}
  BY DEF Xids

\* No requests, no numbers.
LEMMA XidsEmpty == ASSUME NEW c PROVE Xids({}, c) = {}
  BY DEF Xids

\* The rest of a sequence that is in order, and its first element.
LEMMA SortedTail ==
    ASSUME NEW T, NEW s \in Seq(T), s # << >>, NEW c, Sorted(s, c)
    PROVE  /\ Sorted(Tail(s), c)
           /\ Below(Xids({Head(s)}, c), Xids(Ids(Tail(s)), c))
<1>1. /\ DOMAIN Tail(s) = 1 .. Len(s) - 1 /\ Len(s) \in Nat /\ Len(s) >= 1
      /\ DOMAIN s = 1 .. Len(s) /\ Head(s) = s[1]
      /\ \A i \in 1 .. Len(s) - 1 : Tail(s)[i] = s[i + 1]
  BY SMT
<1>2. Sorted(Tail(s), c)
  <2> SUFFICES ASSUME NEW i \in 1 .. Len(s) - 1, NEW j \in 1 .. Len(s) - 1, i < j,
                      Numbered(Tail(s)[i], c), Numbered(Tail(s)[j], c)
               PROVE  Tail(s)[i].xid < Tail(s)[j].xid
    BY <1>1 DEF Sorted
  <2>1. i + 1 \in DOMAIN s /\ j + 1 \in DOMAIN s /\ i + 1 < j + 1
    BY <1>1, SMT
  <2>2. Tail(s)[i] = s[i + 1] /\ Tail(s)[j] = s[j + 1]
    BY <1>1
  <2> QED BY <2>1, <2>2 DEF Sorted
<1>3. ASSUME NEW i \in 1 .. Len(s) - 1, Numbered(Head(s), c), Numbered(Tail(s)[i], c)
      PROVE  Head(s).xid < Tail(s)[i].xid
  <2>1. i + 1 \in DOMAIN s /\ 1 \in DOMAIN s /\ 1 < i + 1
    BY <1>1, SMT
  <2>2. Tail(s)[i] = s[i + 1] /\ Head(s) = s[1]
    BY <1>1
  <2> QED BY <1>3, <2>1, <2>2 DEF Sorted
<1>4. Below(Xids({Head(s)}, c), Xids(Ids(Tail(s)), c))
  BY <1>1, <1>3 DEF Below, Xids, Ids
<1> QED BY <1>2, <1>4

\* An element behind all the others.
LEMMA SortedAppend ==
    ASSUME NEW T, NEW s \in Seq(T), NEW r \in T, NEW c, Sorted(s, c),
           Below(Xids(Ids(s), c), Xids({r}, c))
    PROVE  Sorted(Append(s, r), c)
<1>1. /\ DOMAIN Append(s, r) = 1 .. Len(s) + 1 /\ Len(s) \in Nat
      /\ \A i \in 1 .. Len(s) : Append(s, r)[i] = s[i]
      /\ Append(s, r)[Len(s) + 1] = r /\ DOMAIN s = 1 .. Len(s)
  BY SMT
<1> SUFFICES ASSUME NEW i \in 1 .. Len(s) + 1, NEW j \in 1 .. Len(s) + 1, i < j,
                    Numbered(Append(s, r)[i], c), Numbered(Append(s, r)[j], c)
             PROVE  Append(s, r)[i].xid < Append(s, r)[j].xid
  BY <1>1 DEF Sorted
<1>2. i \in DOMAIN s /\ Append(s, r)[i] = s[i]
  BY <1>1, SMT
<1>3. CASE j \in DOMAIN s
  BY <1>1, <1>2, <1>3 DEF Sorted
<1>4. CASE j \notin DOMAIN s
  <2>1. Append(s, r)[j] = r
    BY <1>1, <1>4, SMT
  <2>2. s[i].xid \in Xids(Ids(s), c)
    BY <1>2 DEF Xids, Ids
  <2>3. r.xid \in Xids({r}, c)
    BY <2>1 DEF Xids
  <2> QED BY <1>2, <2>1, <2>2, <2>3 DEF Below
<1> QED BY <1>3, <1>4

\* One element is in order, ...
LEMMA SortedOne == ASSUME NEW r, NEW c PROVE Sorted(<< r >>, c)
  BY SMT DEF Sorted

\* ... and so is none.
LEMMA SortedEmpty == ASSUME NEW c PROVE Sorted(<< >>, c)
  BY SMT DEF Sorted

-----------------------------------------------------------------------------
(***************************************************************************)
(* Where requests come from: nothing but a connection and the session      *)
(* cleaner brings a request in, all others pass on what there is.          *)
(***************************************************************************)

\* The requests and responses under way.
Flying ==
    Ids(requests_queue.queue) \cup Ids(batch) \cup read \cup Ids(prev_batch)
        \cup Ids(raft_log) \cup Ids(responses_queue.queue)

\* q is one of them, or the response to one.
Covered(q) == \E r \in Flying : q.client = r.client /\ q.xid = r.xid

\* What a push of error responses adds.
LEMMA ErrorsPushed ==
    ASSUME ResponsesOK, NEW rs \in Seq(Sent), NEW e \in Errors,
           addErrorResponses(rs, e)
    PROVE  /\ \A a \in Ids(responses_queue'.queue) :
                  \/ a \in Ids(responses_queue.queue)
                  \/ \E r \in Ids(rs) : a.client = r.client /\ a.xid = r.xid
           /\ Ids(responses_queue.queue) \subseteq Ids(responses_queue'.queue)
           /\ response_thread_alive /\ ~responses_queue.is_finished =>
                  \A r \in Ids(rs) : \E a \in Ids(responses_queue'.queue) :
                      a.client = r.client /\ a.xid = r.xid /\ a.error = e
<1> DEFINE es == ErrorResponses(rs, e)
<1>1. /\ es \in Seq(Reply) /\ DOMAIN es = DOMAIN rs
      /\ \A i \in DOMAIN rs :
             es[i].client = rs[i].client /\ es[i].xid = rs[i].xid /\ es[i].error = e
  <2>1. /\ es \in Seq(Reply) /\ DOMAIN es = DOMAIN rs
        /\ \A i \in DOMAIN rs : es[i] = Response(rs[i], rs[i].xid, e)
    BY ErrorTypes
  <2>2. \A i \in DOMAIN rs : rs[i] \in Sent
    BY SMT
  <2> HIDE DEF es
  <2> QED BY <2>1, <2>2, SentTypes, ResponseTypes, SMT
<1> HIDE DEF es
<1>2. responses_queue.queue \in Seq(Reply)
  BY DEF ResponsesOK
<1>3. Ids(responses_queue.queue \o es) = Ids(responses_queue.queue) \cup Ids(es)
  BY <1>1, <1>2, IdsConcat, SMT
<1>4. /\ responses_queue'.queue \in {responses_queue.queue, responses_queue.queue \o es}
      /\ response_thread_alive /\ ~responses_queue.is_finished =>
             responses_queue'.queue = responses_queue.queue \o es
  BY <1>1, PushTypes DEF addErrorResponses, es
<1>5. \A a \in Ids(es) : \E r \in Ids(rs) : a.client = r.client /\ a.xid = r.xid
  BY <1>1, SMT DEF Ids
<1>6. \A r \in Ids(rs) : \E a \in Ids(es) :
          a.client = r.client /\ a.xid = r.xid /\ a.error = e
  BY <1>1, SMT DEF Ids
<1> QED BY <1>3, <1>4, <1>5, <1>6

\* The same for one response.
LEMMA OnePushed ==
    ASSUME ResponsesOK, NEW a \in Reply, PushResponses(<< a >>)
    PROVE  /\ Ids(responses_queue'.queue) \subseteq Ids(responses_queue.queue) \cup {a}
           /\ Ids(responses_queue.queue) \subseteq Ids(responses_queue'.queue)
           /\ response_thread_alive /\ ~responses_queue.is_finished =>
                  responses_queue'.queue = Append(responses_queue.queue, a)
<1>1. responses_queue.queue \in Seq(Reply) /\ << a >> \in Seq(Reply)
  BY SMT DEF ResponsesOK
<1>2. /\ responses_queue'.queue \in {responses_queue.queue, responses_queue.queue \o << a >>}
      /\ response_thread_alive /\ ~responses_queue.is_finished =>
             responses_queue'.queue = responses_queue.queue \o << a >>
  BY <1>1, PushTypes
<1>3. responses_queue.queue \o << a >> = Append(responses_queue.queue, a)
  BY <1>1, SMT
<1>4. Ids(Append(responses_queue.queue, a)) = Ids(responses_queue.queue) \cup {a}
  BY <1>1, IdsAppend, SMT
<1> QED BY <1>2, <1>3, <1>4

\* A pop of a request.
LEMMA RequestPopped ==
    ASSUME RequestsOK, CanPop(requests_queue), requests_queue' = Pop(requests_queue)
    PROVE  /\ Ids(requests_queue.queue) =
                  {Front(requests_queue)} \cup Ids(requests_queue'.queue)
           /\ Front(requests_queue) \in Sent
  BY PopTypes, IdsTail DEF RequestsOK, CanPop, Front

\* A push of a request.
LEMMA RequestPushed ==
    ASSUME RequestsOK, NEW r \in Sent, requests_queue' = Emplace(requests_queue, r)
    PROVE  /\ Ids(requests_queue'.queue) \subseteq Ids(requests_queue.queue) \cup {r}
           /\ ~requests_queue.is_finished =>
                  requests_queue'.queue = Append(requests_queue.queue, r)
<1>1. requests_queue.queue \in Seq(Sent)
  BY DEF RequestsOK
<1>2. Ids(Append(requests_queue.queue, r)) = Ids(requests_queue.queue) \cup {r}
  BY <1>1, IdsAppend, SMT
<1>3. /\ requests_queue'.queue \in {requests_queue.queue, Append(requests_queue.queue, r)}
      /\ ~requests_queue.is_finished =>
             requests_queue'.queue = Append(requests_queue.queue, r)
  BY DEF RequestsOK, Emplace
<1> QED BY <1>2, <1>3

\* requestThread brings no request in.
LEMMA RequestThreadMoves ==
    ASSUME Types, requestThread, NEW q \in Flying' PROVE Covered(q)
<1>1. /\ RequestsOK /\ ResponsesOK /\ RequestThreadOK /\ RaftOK
      /\ batch \in Seq(Sent) /\ prev_batch \in Seq(Sent) /\ raft_log \in Seq(Sent)
  BY DEF Types, RequestThreadOK, RaftOK
<1>2. CASE PopRequest \/ Collect
  <2> DEFINE r == Front(requests_queue)
  <2>1. /\ Ids(requests_queue.queue) = {r} \cup Ids(requests_queue'.queue) /\ r \in Sent
    BY <1>1, <1>2, RequestPopped DEF PopRequest, Collect
  <2> HIDE DEF r
  <2>2. /\ UNCHANGED << responses_queue, raft_log >>
        /\ batch' \in {<< >>, batch, << r >>, Append(batch, r)}
        /\ read' \in {read, {r}} /\ prev_batch' \in {<< >>, prev_batch}
    BY <1>2 DEF PopRequest, Collect, Exit, raft, r
  <2>3. Ids(Append(batch, r)) = Ids(batch) \cup {r}
    BY <1>1, <2>1, IdsAppend, SMT
  <2>4. Ids(batch') \subseteq Ids(batch) \cup {r} /\ Ids(prev_batch') \subseteq Ids(prev_batch)
    BY <2>2, <2>3, IdsEmpty, IdsOne
  <2> QED BY <2>1, <2>2, <2>4 DEF Flying, Covered
<1>3. CASE forceWaitAndProcessResult
  <2>1. /\ ProcessResult /\ UNCHANGED << batch, read, requests_queue, raft_log >>
        /\ prev_batch' = << >>
    BY <1>3 DEF forceWaitAndProcessResult, raft
  <2>2. \/ UNCHANGED responses_queue
        \/ \E e \in Errors : addErrorResponses(prev_batch, e)
    BY <2>1 DEF ProcessResult, ProcessResultBy, Errors
  <2>3. \A a \in Ids(responses_queue'.queue) :
            \/ a \in Ids(responses_queue.queue)
            \/ \E r \in Ids(prev_batch) : a.client = r.client /\ a.xid = r.xid
    BY <1>1, <2>2, ErrorsPushed
  <2> QED BY <2>1, <2>3, IdsEmpty DEF Flying, Covered
<1>4. CASE PutAccepted \/ PutRejected
  <2>1. /\ prev_batch' = batch /\ batch' = << >>
        /\ raft_log' \in {raft_log, raft_log \o batch}
        /\ UNCHANGED << read, requests_queue, responses_queue >>
    BY <1>4 DEF PutAccepted, PutRejected, PutReturns, AppendToRaft, queues
  <2>2. Ids(raft_log \o batch) = Ids(raft_log) \cup Ids(batch)
    BY <1>1, IdsConcat, SMT
  <2> QED BY <2>1, <2>2, IdsEmpty DEF Flying, Covered
<1>5. CASE PutReturnsNull
  <2>1. /\ addErrorResponses(batch, "ZCONNECTIONLOSS") /\ batch' = << >>
        /\ UNCHANGED << read, prev_batch, requests_queue, raft_log >>
    BY <1>5 DEF PutReturnsNull
  <2>2. \A a \in Ids(responses_queue'.queue) :
            \/ a \in Ids(responses_queue.queue)
            \/ \E r \in Ids(batch) : a.client = r.client /\ a.xid = r.xid
    BY <1>1, <2>1, ErrorsPushed DEF Errors
  <2> QED BY <2>1, <2>2, IdsEmpty DEF Flying, Covered
<1>6. CASE putLocalReadRequest \/ ReadFails
  <2>1. read' = {} /\ UNCHANGED << batch, prev_batch, requests_queue, raft_log >>
    BY <1>6 DEF putLocalReadRequest, ReadFails
  <2>2. PICK r \in read :
            \/ PushResponses(<< Response(r, r.xid, "ZOK") >>)
            \/ addErrorResponses(<< r >>, "ZCONNECTIONLOSS")
    BY <1>6 DEF putLocalReadRequest, ReadFails
  <2>3. r \in Sent /\ r.xid \in 0 .. CloseXid /\ << r >> \in Seq(Sent)
    BY <1>1, <2>2, SentTypes, SMT DEF RequestThreadOK
  <2>4. \A a \in Ids(responses_queue'.queue) :
            \/ a \in Ids(responses_queue.queue)
            \/ a.client = r.client /\ a.xid = r.xid
    <3>1. CASE PushResponses(<< Response(r, r.xid, "ZOK") >>)
      BY <1>1, <2>3, <3>1, OnePushed, ResponseTypes, SMT DEF Errors
    <3>2. CASE addErrorResponses(<< r >>, "ZCONNECTIONLOSS")
      <4>1. \A a \in Ids(responses_queue'.queue) :
                \/ a \in Ids(responses_queue.queue)
                \/ \E z \in Ids(<< r >>) : a.client = z.client /\ a.xid = z.xid
        BY <1>1, <2>3, <3>2, ErrorsPushed DEF Errors
      <4> QED BY <4>1, IdsOne
    <3> QED BY <2>2, <3>1, <3>2
  <2> QED BY <2>1, <2>2, <2>4 DEF Flying, Covered
<1>7. CASE RequestThreadExits
  <2>1. /\ batch' = << >> /\ prev_batch' = << >>
        /\ UNCHANGED << read, requests_queue, responses_queue, raft_log >>
    BY <1>7 DEF RequestThreadExits, Exit, queues, raft
  <2> QED BY <2>1, IdsEmpty DEF Flying, Covered
<1>8. CASE Caught
  <2>1. /\ batch' = << >> /\ read' = {}
        /\ UNCHANGED << prev_batch, requests_queue, responses_queue, raft_log >>
    BY <1>8 DEF Caught, queues
  <2> QED BY <2>1, IdsEmpty DEF Flying, Covered
<1> QED BY <1>2, <1>3, <1>4, <1>5, <1>6, <1>7, <1>8 DEF requestThread

\* Nor do responseThread, Raft and shutdown().
LEMMA OthersMove ==
    ASSUME Types, responseThread \/ Raft \/ BeginShutdown \/ shutdown,
           NEW q \in Flying'
    PROVE  Covered(q)
<1>1. /\ RequestsOK /\ ResponsesOK /\ RaftOK
      /\ raft_log \in Seq(Sent) /\ responses_queue.queue \in Seq(Reply)
  BY DEF Types, RaftOK, ResponsesOK
<1>2. UNCHANGED << batch, read, prev_batch >>
  BY DEF responseThread, PopResponse, ResponseThreadExits, Raft, commit,
         ResultIsSet, ResultTimesOut, LoseLeadership, BecomeLeader, SessionExpires, NotRaft,
         BeginShutdown, shutdown, JoinCleaner, JoinRequestThread,
         JoinResponseThread, JoinSnapshotThread,
         JoinUpdateConfigurationThread, ExpirePending, EndShutdown, request_thread
<1>3. CASE responseThread
  <2>1. UNCHANGED << requests_queue, raft_log >>
    BY <1>3 DEF responseThread, PopResponse, ResponseThreadExits, raft
  <2>2. Ids(responses_queue'.queue) \subseteq Ids(responses_queue.queue)
    <3>1. CASE PopResponse
      <4>1. /\ responses_queue.queue # << >>
            /\ responses_queue'.queue = Tail(responses_queue.queue)
        BY <1>1, <3>1 DEF PopResponse, CanPop, Pop, ResponsesOK
      <4> QED BY <1>1, <4>1, IdsTail
    <3>2. CASE ResponseThreadExits
      <4>1. responses_queue'.queue = << >>
        BY <1>1, <3>2 DEF ResponseThreadExits, ResponsesOK
      <4> QED BY <4>1, IdsEmpty
    <3> QED BY <1>3, <3>1, <3>2 DEF responseThread
  <2> QED BY <1>2, <2>1, <2>2 DEF Flying, Covered
<1>4. CASE commit
  <2> DEFINE r == Head(raft_log)
  <2>1. /\ raft_log # << >> /\ raft_log' = Tail(raft_log) /\ UNCHANGED requests_queue
        /\ PushResponses(<< Response(r, r.xid, "ZOK") >>)
    BY <1>4 DEF commit
  <2>2. r \in Sent /\ Ids(raft_log) = {r} \cup Ids(raft_log')
    BY <1>1, <2>1, IdsTail, SMT
  <2> HIDE DEF r
  <2>3. r.xid \in 0 .. CloseXid
    BY <2>2, SentTypes
  <2>4. \A a \in Ids(responses_queue'.queue) :
            \/ a \in Ids(responses_queue.queue)
            \/ a.client = r.client /\ a.xid = r.xid
    BY <1>1, <2>1, <2>2, <2>3, OnePushed, ResponseTypes, SMT DEF Errors
  <2> QED BY <1>2, <2>1, <2>2, <2>4 DEF Flying, Covered
<1>5. CASE ResultIsSet \/ ResultTimesOut \/ LoseLeadership \/ BecomeLeader
           \/ \E c \in Client : SessionExpires(c)
  <2>1. UNCHANGED << requests_queue, responses_queue >> /\ raft_log' \in {<< >>, raft_log}
    BY <1>5 DEF ResultIsSet, ResultTimesOut, LoseLeadership, BecomeLeader, SessionExpires, queues, raft
  <2> QED BY <1>2, <2>1, IdsEmpty DEF Flying, Covered
<1>6. CASE BeginShutdown \/ shutdown
  <2>1. UNCHANGED raft_log /\ responses_queue'.queue = responses_queue.queue
    BY <1>1, <1>6 DEF BeginShutdown, shutdown, JoinCleaner, JoinRequestThread,
         JoinResponseThread, JoinSnapshotThread,
         JoinUpdateConfigurationThread, ExpirePending, EndShutdown, queues, raft, finish, ResponsesOK
  <2>2. Ids(requests_queue'.queue) \subseteq Ids(requests_queue.queue)
    <3>1. CASE ExpirePending
      BY <1>1, <3>1, RequestPopped DEF ExpirePending
    <3>2. CASE ~ExpirePending
      BY <1>1, <1>6, <3>2 DEF BeginShutdown, shutdown, JoinCleaner, JoinRequestThread,
         JoinResponseThread, JoinSnapshotThread,
         JoinUpdateConfigurationThread, EndShutdown, queues, finish, RequestsOK
    <3> QED BY <3>1, <3>2
  <2> QED BY <1>2, <2>1, <2>2 DEF Flying, Covered
<1> QED BY <1>3, <1>4, <1>5, <1>6 DEF Raft

\* The session cleaner brings in its Close requests.
LEMMA CleanerMoves ==
    ASSUME Types, sessionCleanerTask, NEW q \in Flying'
    PROVE  Covered(q) \/ q.xid = CloseXid
<1>1. /\ RequestsOK /\ CleanerOK
      /\ UNCHANGED << batch, read, prev_batch, raft_log, responses_queue >>
  BY DEF Types, sessionCleanerTask, CleanerWakes, CleanerPushes, CleanerWaitsForRoom,
         CleanerFinishes, FinishThen, NotTheCleaner, queues, request_thread, raft
<1>2. CASE CleanerPushes
  <2> DEFINE r == CloseOf(Head(dead_sessions))
  <2>1. r \in Sent /\ r.xid = CloseXid
    <3>1. Head(dead_sessions) \in Client
      BY <1>1, <1>2, SMT DEF CleanerOK, CleanerPushes
    <3> QED BY <3>1, Bounds, SMT DEF CloseOf, Sent, Request, Ops, Tagged
  <2>2. requests_queue' = Emplace(requests_queue, r)
    BY <1>2 DEF CleanerPushes
  <2> HIDE DEF r
  <2>3. Ids(requests_queue'.queue) \subseteq Ids(requests_queue.queue) \cup {r}
    BY <1>1, <2>1, <2>2, RequestPushed
  <2> QED BY <1>1, <2>1, <2>3 DEF Flying, Covered
<1>3. CASE ~CleanerPushes
  <2>1. UNCHANGED requests_queue
    BY <1>3 DEF sessionCleanerTask, CleanerWakes, CleanerWaitsForRoom,
         CleanerFinishes, FinishThen, queues
  <2> QED BY <1>1, <2>1 DEF Flying, Covered
<1> QED BY <1>2, <1>3

\* A connection brings in what it is putting.
LEMMA ConnectionMoves ==
    ASSUME Types, NEW c \in Client, Connection(c), NEW q \in Flying'
    PROVE  Covered(q) \/ (PushRequest(c) /\ q \in putting[c])
<1>1. /\ RequestsOK /\ putting[c] \subseteq Sent
      /\ UNCHANGED << batch, read, prev_batch, raft_log, responses_queue >>
  BY DEF Types, ClientsOK, Connection, getSessionID, registerSession, SessionIDTimeout,
         putRequest, PushRequest, WaitForRoom, PutFails, Disconnect, NotAConnection,
         queues, request_thread, raft
<1>2. CASE PushRequest(c)
  <2>1. PICK r \in putting[c] : requests_queue' = Emplace(requests_queue, r)
    BY <1>2 DEF PushRequest
  <2>2. Ids(requests_queue'.queue) \subseteq Ids(requests_queue.queue) \cup {r}
    BY <1>1, <2>1, RequestPushed
  <2> QED BY <1>1, <1>2, <2>1, <2>2 DEF Flying, Covered
<1>3. CASE ~PushRequest(c)
  <2>1. UNCHANGED requests_queue
    BY <1>3 DEF Connection, getSessionID, registerSession, SessionIDTimeout,
         putRequest, WaitForRoom, PutFails, Disconnect, queues
  <2> QED BY <1>1, <2>1 DEF Flying, Covered
<1> QED BY <1>2, <1>3

-----------------------------------------------------------------------------
(***************************************************************************)
(* A connection without a session yet has no numbered request anywhere.    *)
(***************************************************************************)
Unregistered(c) ==
    \/ phase[c] \in {"new", "waiting", "ready"}
    \/ \E r \in putting[c] : r.op = "SessionID"

Unknown(c) ==
    /\ \A q \in Flying : ~Numbered(q, c)
    /\ accepted[c] = 0 /\ received[c] = << >>
    /\ c \notin session_to_response_callback

Registration == \A c \in Client : Unregistered(c) => Unknown(c)

\* At first nobody has sent anything.
LEMMA InitRegistration == Init => Registration
  BY IdsEmpty, SMT DEF Init, Registration, Unknown, Flying, NewQueue

\* What setResponse does to the connections.
LEMMA SetResponseEffects ==
    ASSUME ClientsOK, NEW a \in Answer, setResponse(a), NEW c \in Client
    PROVE  /\ session_to_response_callback' \subseteq session_to_response_callback
           /\ phase'[c] = phase[c] \/ (phase[c] = "waiting" /\ phase'[c] = "ready")
           /\ \/ received'[c] = received[c]
              \/ /\ a.client = c /\ c \in session_to_response_callback
                 /\ a.op \notin {"SessionID", "Heartbeat"}
                 /\ received'[c] = Append(received[c], [xid |-> a.xid, error |-> a.error])
                 /\ a.op = "Close" => c \notin session_to_response_callback'
           /\ a.client = c /\ c \in session_to_response_callback
                  /\ a.op \notin {"SessionID", "Heartbeat"} =>
                  received'[c] = Append(received[c], [xid |-> a.xid, error |-> a.error])
<1>1. a.client \in Client
  BY DEF Answer
<1>2. phase \in [Client -> Phases] /\ received \in [Client -> Seq(Received)]
  BY DEF ClientsOK
<1>3. session_to_response_callback' \subseteq session_to_response_callback
  BY DEF setResponse
<1>4. phase'[c] = phase[c] \/ (phase[c] = "waiting" /\ phase'[c] = "ready")
  <2>1. CASE UNCHANGED phase
    BY <2>1
  <2>2. CASE phase' = [phase EXCEPT ![a.client] =
                          IF @ = "waiting" THEN "ready" ELSE @]
    BY <1>1, <1>2, <2>2
  <2> QED BY <2>1, <2>2 DEF setResponse
<1> DEFINE app == /\ a.client \in session_to_response_callback
                  /\ a.op \notin {"SessionID", "Heartbeat"}
<1>5. CASE app
  <2>1. /\ received' = [received EXCEPT ![a.client] =
                           Append(@, [xid |-> a.xid, error |-> a.error])]
        /\ a.op = "Close" => a.client \notin session_to_response_callback'
    BY <1>5 DEF setResponse
  <2>2. received'[c] = IF c = a.client
                       THEN Append(received[c], [xid |-> a.xid, error |-> a.error])
                       ELSE received[c]
    BY <1>1, <1>2, <2>1
  <2> QED BY <1>3, <1>4, <1>5, <2>1, <2>2
<1>6. CASE ~app
  <2>1. received' = received
    BY <1>6 DEF setResponse
  <2> QED BY <1>3, <1>4, <1>6, <2>1
<1> QED BY <1>5, <1>6

\* Steps that leave the connection alone, but for its responses.
LEMMA QuietRegistration ==
    ASSUME Registration, NEW c \in Client, Unregistered(c)',
           phase'[c] = phase[c] \/ (phase[c] = "waiting" /\ phase'[c] = "ready"),
           putting'[c] = putting[c], accepted'[c] = accepted[c],
           c \notin session_to_response_callback => received'[c] = received[c],
           c \in session_to_response_callback' => c \in session_to_response_callback,
           \A q \in Flying' : Numbered(q, c) => Covered(q)
    PROVE  Unknown(c)'
<1>1. Unregistered(c)
  BY DEF Unregistered
<1>2. Unknown(c)
  BY <1>1 DEF Registration
<1>3. ASSUME NEW q \in Flying', Numbered(q, c) PROVE FALSE
  <2>1. PICK r \in Flying : q.client = r.client /\ q.xid = r.xid
    BY <1>3 DEF Covered
  <2> QED BY <1>2, <1>3, <2>1 DEF Unknown, Numbered
<1> QED BY <1>2, <1>3 DEF Unknown

\* A connection's own steps.
LEMMA OwnRegistration ==
    ASSUME Types, Registration, NEW c \in Client, Connection(c), Unregistered(c)'
    PROVE  Unknown(c)'
<1>1. /\ ClientsOK /\ Putting(c) /\ putting[c] \subseteq Sent
      /\ phase \in [Client -> Phases] /\ putting \in [Client -> SUBSET Sent]
      /\ accepted \in [Client -> 0 .. MaxXid] /\ received \in [Client -> Seq(Received)]
  BY DEF Types, ClientsOK
<1>2. ASSUME NEW q \in Flying' PROVE Covered(q) \/ (PushRequest(c) /\ q \in putting[c])
  BY ConnectionMoves
<1>3. ASSUME Unregistered(c), accepted'[c] = accepted[c], received'[c] = received[c],
             c \in session_to_response_callback' => c \in session_to_response_callback,
             \A q \in Flying' : Numbered(q, c) => Covered(q)
      PROVE  Unknown(c)'
  <2>1. Unknown(c)
    BY <1>3 DEF Registration
  <2>2. ASSUME NEW q \in Flying', Numbered(q, c) PROVE FALSE
    <3>1. PICK r \in Flying : q.client = r.client /\ q.xid = r.xid
      BY <1>3, <2>2 DEF Covered
    <3> QED BY <2>1, <2>2, <3>1 DEF Unknown, Numbered
  <2> QED BY <1>3, <2>1, <2>2 DEF Unknown
<1>4. CASE End(c)
  <2>1. phase'[c] = "gone" /\ putting'[c] = {}
    BY <1>1, <1>4 DEF End
  <2> QED BY <2>1 DEF Unregistered
<1>5. CASE getSessionID(c)
  <2>1. /\ phase[c] = "new" /\ ~PushRequest(c)
        /\ UNCHANGED << accepted, received, session_to_response_callback >>
    BY <1>5 DEF getSessionID, PushRequest, HasMutex
  <2> QED BY <1>2, <1>3, <2>1 DEF Unregistered
<1>6. CASE registerSession(c)
  <2>1. phase[c] = "ready" /\ phase'[c] = "idle" /\ putting'[c] = putting[c]
    BY <1>1, <1>6 DEF registerSession
  <2>2. putting[c] = {}
    BY <1>1, <2>1 DEF Putting
  <2> QED BY <2>1, <2>2 DEF Unregistered
<1>7. CASE SessionIDTimeout(c) \/ PutFails(c) \/ Disconnect(c)
  BY <1>4, <1>7 DEF SessionIDTimeout, PutFails, Disconnect
<1>8. CASE \E r \in NextRequests(c) : putRequest(c, r)
  <2>1. PICK r \in NextRequests(c) : putRequest(c, r)
    BY <1>8
  <2>2. r.op # "SessionID"
    BY SMT DEF NextRequests, HeartbeatOf
  <2>3. CASE c \in session_to_response_callback
    <3>1. phase'[c] = "locking" /\ putting'[c] = {r}
      BY <1>1, <2>1, <2>3 DEF putRequest
    <3> QED BY <2>2, <3>1 DEF Unregistered
  <2>4. CASE c \notin session_to_response_callback
    BY <1>4, <2>1, <2>4 DEF putRequest
  <2> QED BY <2>3, <2>4
<1>9. CASE PushRequest(c)
  <2>1. PICK r \in putting[c] :
            /\ phase' = [phase EXCEPT ![c] = AfterPush(r.op)]
            /\ accepted' = IF r.xid > 0 THEN [accepted EXCEPT ![c] = r.xid]
                                        ELSE accepted
    BY <1>9 DEF PushRequest
  <2>2. /\ putting'[c] = {} /\ UNCHANGED << received, session_to_response_callback >>
        /\ phase'[c] = AfterPush(r.op)
    BY <1>1, <1>9, <2>1 DEF PushRequest, tables
  <2>3. r.op = "SessionID"
    BY <2>2 DEF Unregistered, AfterPush
  <2>4. r.xid = 0
    BY <1>1, <2>1, <2>3, SentTypes DEF Tagged
  <2>5. Unregistered(c) /\ accepted' = accepted
    BY <2>1, <2>3, <2>4, SMT DEF Unregistered
  <2>6. putting[c] = {r}
    BY <1>1, <2>1 DEF Putting
  <2>7. \A q \in Flying' : Numbered(q, c) => Covered(q)
    BY <1>2, <2>4, <2>6, Bounds, SMT DEF Numbered
  <2> QED BY <1>3, <2>2, <2>5, <2>7
<1>10. CASE WaitForRoom(c)
  <2>1. /\ phase[c] = "locking" /\ phase'[c] = "pushing"
        /\ UNCHANGED << putting, accepted, received, session_to_response_callback,
                        requests_queue >>
    BY <1>1, <1>10 DEF WaitForRoom, tables, queues
  <2>2. Unregistered(c)
    BY <2>1 DEF Unregistered
  <2>3. \A q \in Flying' : Covered(q)
    <3>1. UNCHANGED << batch, read, prev_batch, raft_log, responses_queue >>
      BY <1>10 DEF WaitForRoom, NotAConnection, queues, request_thread, raft
    <3> QED BY <2>1, <3>1 DEF Flying, Covered
  <2> QED BY <1>3, <2>1, <2>2, <2>3
<1> QED BY <1>5, <1>6, <1>7, <1>8, <1>9, <1>10 DEF Connection

\* The steps of the other connections.
LEMMA OtherConnection ==
    ASSUME Types, NEW d \in Client, Connection(d), NEW c \in Client, c # d
    PROVE  /\ phase'[c] = phase[c] /\ putting'[c] = putting[c]
           /\ accepted'[c] = accepted[c] /\ received'[c] = received[c]
           /\ c \in session_to_response_callback' <=> c \in session_to_response_callback
<1>1. /\ phase \in [Client -> Phases] /\ putting \in [Client -> SUBSET Sent]
      /\ accepted \in [Client -> 0 .. MaxXid] /\ received \in [Client -> Seq(Received)]
  BY DEF Types, ClientsOK
<1>2. CASE End(d)
  BY <1>1, <1>2 DEF End, finishSession
<1>3. CASE getSessionID(d) \/ registerSession(d) \/ WaitForRoom(d)
  BY <1>1, <1>3 DEF getSessionID, registerSession, WaitForRoom, tables
<1>4. CASE SessionIDTimeout(d) \/ PutFails(d) \/ Disconnect(d)
  BY <1>2, <1>4 DEF SessionIDTimeout, PutFails, Disconnect
<1>5. CASE \E r \in NextRequests(d) : putRequest(d, r)
  BY <1>1, <1>2, <1>5 DEF putRequest
<1>6. CASE PushRequest(d)
  BY <1>1, <1>6 DEF PushRequest, tables
<1> QED BY <1>3, <1>4, <1>5, <1>6 DEF Connection

\* Every step keeps it so.
LEMMA NextRegistration ==
    ASSUME Types, Types', Registration, [Next]_vars PROVE Registration'
<1> SUFFICES ASSUME NEW c \in Client, Unregistered(c)' PROVE Unknown(c)'
  BY DEF Registration
<1>0. ClientsOK /\ ResponsesOK /\ RequestsOK
  BY DEF Types
<1>1. CASE UNCHANGED vars
  <2>1. /\ UNCHANGED << phase, putting, accepted, received, session_to_response_callback >>
        /\ UNCHANGED Flying
    BY <1>1 DEF vars, tables, queues, clients, request_thread, raft, Flying
  <2>2. Unregistered(c) /\ Unknown(c)
    BY <2>1 DEF Unregistered, Registration
  <2> QED BY <2>1, <2>2 DEF Unknown
<1>2. CASE Connection(c)
  BY <1>2, OwnRegistration
<1>3. ASSUME NEW d \in Client, d # c, Connection(d) PROVE Unknown(c)'
  <2>1. ASSUME NEW q \in Flying', Numbered(q, c) PROVE Covered(q)
    <3>1. Covered(q) \/ (PushRequest(d) /\ q \in putting[d])
      BY <1>3, ConnectionMoves
    <3>2. q \notin putting[d]
      <4>1. Putting(d)
        BY <1>0 DEF ClientsOK
      <4> QED BY <1>3, <2>1, <4>1 DEF Putting, Numbered
    <3> QED BY <3>1, <3>2
  <2> QED BY <1>3, <2>1, OtherConnection, QuietRegistration
<1>4. CASE requestThread
  <2>1. \A q \in Flying' : Covered(q)
    BY <1>4, RequestThreadMoves
  <2>2. UNCHANGED << phase, putting, accepted, received, session_to_response_callback >>
    BY <1>4 DEF requestThread, PopRequest, Collect, forceWaitAndProcessResult,
         PutAccepted, PutRejected, PutReturns, PutReturnsNull,
         putLocalReadRequest, ReadFails, Caught, RequestThreadExits,
         NotTheRequestThread, clients, tables
  <2> QED BY <2>1, <2>2, QuietRegistration
<1>5. CASE responseThread \/ Raft \/ BeginShutdown \/ shutdown
  <2>1. \A q \in Flying' : Covered(q)
    BY <1>5, OthersMove
  <2>2. CASE \E a \in Answer : setResponse(a) /\ UNCHANGED << putting, accepted >>
    BY <1>0, <2>1, <2>2, SetResponseEffects, QuietRegistration
  <2>3. CASE PopResponse
    <3>1. Front(responses_queue) \in Answer
      BY <1>0, <2>3, SMT DEF PopResponse, CanPop, Front, ResponsesOK, Reply
    <3> QED BY <2>2, <2>3, <3>1 DEF PopResponse
  <2>4. CASE ExpirePending
    <3>1. Response(Front(requests_queue), 0, "ZSESSIONEXPIRED") \in Answer
      <4>1. Front(requests_queue) \in Sent
        BY <1>0, <2>4, PopTypes DEF ExpirePending
      <4>2. "ZSESSIONEXPIRED" \in Errors
        BY DEF Errors
      <4> QED BY <4>1, <4>2, ResponseTypes, Bounds, SMT
    <3> QED BY <2>2, <2>4, <3>1 DEF ExpirePending
  <2>5. CASE ~PopResponse /\ ~ExpirePending
    <3>1. /\ UNCHANGED << phase, putting, accepted, received >>
          /\ session_to_response_callback' \subseteq session_to_response_callback
      BY <1>5, <2>5 DEF responseThread, ResponseThreadExits, Raft, commit,
         ResultIsSet, ResultTimesOut, LoseLeadership, BecomeLeader, SessionExpires, NotRaft,
         BeginShutdown, shutdown, JoinCleaner, JoinRequestThread,
         JoinResponseThread, JoinSnapshotThread,
         JoinUpdateConfigurationThread, EndShutdown, clients, tables
    <3> QED BY <2>1, <3>1, QuietRegistration
  <2> QED BY <2>3, <2>4, <2>5
<1>6. CASE sessionCleanerTask
  <2>1. \A q \in Flying' : Numbered(q, c) => Covered(q)
    BY <1>6, CleanerMoves, Bounds, SMT DEF Numbered
  <2>2. /\ UNCHANGED << phase, putting, accepted, received >>
        /\ session_to_response_callback' \subseteq session_to_response_callback
    BY <1>6 DEF sessionCleanerTask, CleanerWakes, CleanerPushes, CleanerWaitsForRoom,
         CleanerFinishes, FinishThen, finishSession, clients, tables
  <2> QED BY <2>1, <2>2, QuietRegistration
<1> QED BY <1>1, <1>2, <1>3, <1>4, <1>5, <1>6 DEF Next


-----------------------------------------------------------------------------
(***************************************************************************)
(* The way of a client's requests: the numbers n + 1 to a are on their way *)
(* after n answers.  They are, from the last to the first, in requests_    *)
(* queue (E), read (D), batch (C), raft_log (B) and responses_queue (A).   *)
(***************************************************************************)
Chain(n, A, B, C, D, E, a) ==
    /\ n \in Nat /\ a \in Nat /\ n <= a
    /\ A \cup B \cup C \cup D \cup E = n + 1 .. a
    /\ Below(A, B) /\ Below(A, C) /\ Below(A, D) /\ Below(A, E)
    /\ Below(B, C) /\ Below(B, D) /\ Below(B, E)
    /\ Below(C, D) /\ Below(C, E) /\ Below(D, E)

\* putRequest accepts the next request.
LEMMA ChainAccept ==
    ASSUME NEW n, NEW A, NEW B, NEW C, NEW D, NEW E, NEW a,
           Chain(n, A, B, C, D, E, a)
    PROVE  Chain(n, A, B, C, D, E \cup {a + 1}, a + 1) /\ Below(E, {a + 1})
<1>1. n + 1 .. a + 1 = (n + 1 .. a) \cup {a + 1}
  BY SMT DEF Chain
<1>2. ASSUME NEW x \in n + 1 .. a PROVE x < a + 1
  BY SMT DEF Chain
<1> QED BY <1>1, <1>2, SMT DEF Chain, Below

\* requestThread takes the first request of the queue into its batch, ...
LEMMA ChainCollect ==
    ASSUME NEW n, NEW A, NEW B, NEW C, NEW E, NEW X, NEW a,
           Chain(n, A, B, C, {}, X \cup E, a), Below(X, E)
    PROVE  Chain(n, A, B, C \cup X, {}, E, a) /\ Below(C, X)
  BY DEF Chain, Below

\* ... or for a read.
LEMMA ChainTake ==
    ASSUME NEW n, NEW A, NEW B, NEW C, NEW E, NEW X, NEW a,
           Chain(n, A, B, C, {}, X \cup E, a), Below(X, E)
    PROVE  Chain(n, A, B, C, X, E, a)
  BY DEF Chain, Below

\* The batch is given to Raft, which has committed all before it.
LEMMA ChainPut ==
    ASSUME NEW n, NEW A, NEW C, NEW D, NEW E, NEW a,
           Chain(n, A, {}, C, D, E, a)
    PROVE  Chain(n, A, C, {}, D, E, a)
  BY DEF Chain, Below

\* The read is executed, with nothing before it in Raft or the batch.
LEMMA ChainRead ==
    ASSUME NEW n, NEW A, NEW D, NEW E, NEW a,
           Chain(n, A, {}, {}, D, E, a)
    PROVE  Chain(n, A \cup D, {}, {}, {}, E, a) /\ Below(A, D)
  BY DEF Chain, Below

\* Raft commits its first entry.
LEMMA ChainCommit ==
    ASSUME NEW n, NEW A, NEW B, NEW C, NEW D, NEW E, NEW X, NEW a,
           Chain(n, A, X \cup B, C, D, E, a), Below(X, B)
    PROVE  Chain(n, A \cup X, B, C, D, E, a) /\ Below(A, X)
  BY DEF Chain, Below

\* responseThread hands on the first response: it is the next one.
LEMMA ChainDeliver ==
    ASSUME NEW n, NEW A, NEW B, NEW C, NEW D, NEW E, NEW x, NEW a,
           Chain(n, {x} \cup A, B, C, D, E, a), Below({x}, A)
    PROVE  x = n + 1 /\ Chain(n + 1, A, B, C, D, E, a)
<1> DEFINE U == A \cup B \cup C \cup D \cup E
<1>1. /\ {x} \cup U = n + 1 .. a /\ n \in Nat /\ a \in Nat
      /\ \A y \in U : x < y
  BY DEF Chain, Below
<1>2. x = n + 1 /\ U = n + 2 .. a /\ n + 1 <= a
  <2> HIDE DEF U
  <2>1. x \in n + 1 .. a /\ n + 1 \in n + 1 .. a
    BY <1>1, SMT
  <2>2. x = n + 1
    BY <1>1, <2>1, SMT
  <2>3. U \subseteq n + 2 .. a
    BY <1>1, <2>2, SMT
  <2>4. n + 2 .. a \subseteq U
    BY <1>1, <2>2, SMT
  <2>5. U = n + 2 .. a
    BY <2>3, <2>4
  <2>6. n + 1 <= a
    BY <1>1, <2>1, SMT
  <2> QED BY <2>2, <2>5, <2>6
<1>3. (n + 1) + 1 .. a = n + 2 .. a
  BY <1>1, SMT
<1> QED BY <1>1, <1>2, <1>3, SMT DEF Chain, Below

-----------------------------------------------------------------------------
(***************************************************************************)
(* What requestThread knows of the entries that Raft has not committed.    *)
(***************************************************************************)

\* The client knows that w has failed, or is about to know.
Told(w) ==
    \/ \E a \in Ids(received[w.client]) : a.xid = w.xid /\ a.error # "ZOK"
    \/ \E a \in Ids(responses_queue.queue) :
           a.xid = w.xid /\ a.client = w.client /\ a.error # "ZOK"

\* Such an entry is of the last batch, whose result is still to be looked at,
\* or was answered with an error.
Known(w) == (w \in Ids(prev_batch) /\ prev_result \in {"pending", "timeout", "failed"})
            \/ Told(w)

Connected(w) == w.client \in session_to_response_callback /\ w.xid \in 1 .. MaxXid

UncommittedKnown ==
    /\ prev_result = "null" => prev_batch = << >>
    /\ prev_result = "ok" => Ids(prev_batch) \cap Ids(raft_log) = {}
    /\ ~shutdown_called => \A w \in Ids(raft_log) : Connected(w) => Known(w)

\* At first Raft has no entries.
LEMMA InitKnown == Init => UncommittedKnown
  BY IdsEmpty DEF Init, UncommittedKnown

\* What a client is told stays told.
LEMMA ToldStays ==
    ASSUME NEW w, Told(w), received'[w.client] = received[w.client],
           Ids(responses_queue.queue) \subseteq Ids(responses_queue'.queue)
    PROVE  Told(w)'
  BY DEF Told

\* Steps that leave the last batch and its result alone.
LEMMA KnownStays ==
    ASSUME UncommittedKnown, UNCHANGED << prev_batch, prev_result >>,
           Ids(raft_log') \subseteq Ids(raft_log),
           ~shutdown_called' => ~shutdown_called,
           ~shutdown_called' =>
               \A w \in Ids(raft_log') :
                   Connected(w)' => Connected(w) /\ (Told(w) => Told(w)')
    PROVE  UncommittedKnown'
  BY DEF UncommittedKnown, Known

\* The steps of the connections.
LEMMA ConnectionKnown ==
    ASSUME Types, Registration, UncommittedKnown, NEW c \in Client, Connection(c)
    PROVE  UncommittedKnown'
<1>1. /\ UNCHANGED << prev_batch, prev_result, raft_log, shutdown_called, responses_queue >>
  BY DEF Connection, getSessionID, registerSession, SessionIDTimeout,
         putRequest, PushRequest, WaitForRoom, PutFails, Disconnect, NotAConnection,
         queues, request_thread, raft, stop
<1> SUFFICES ASSUME NEW w \in Ids(raft_log), Connected(w)'
             PROVE  Connected(w) /\ (Told(w) => Told(w)')
  BY <1>1, KnownStays
<1>2. w \in Sent /\ w.client \in Client
  BY IdsIn, SentTypes DEF Types, RaftOK
<1>3. CASE w.client # c
  BY <1>1, <1>2, <1>3, OtherConnection, ToldStays DEF Connected
<1>4. CASE w.client = c
  <2>1. ~End(c)
    BY <1>4 DEF Connected, End, finishSession
  <2>2. received' = received
    BY <2>1 DEF Connection, getSessionID, registerSession, SessionIDTimeout,
         putRequest, PushRequest, WaitForRoom, PutFails, Disconnect
  <2>3. ~registerSession(c)
    <3>1. registerSession(c) => Unknown(c)
      BY DEF registerSession, Registration, Unregistered
    <3>2. w \in Flying /\ Numbered(w, c)
      BY <1>4 DEF Flying, Connected, Numbered
    <3> QED BY <3>1, <3>2 DEF Unknown
  <2>4. session_to_response_callback' = session_to_response_callback
    BY <2>1, <2>3 DEF Connection, getSessionID, SessionIDTimeout,
         putRequest, PushRequest, WaitForRoom, PutFails, Disconnect, tables
  <2> QED BY <1>1, <2>2, <2>4, ToldStays DEF Connected
<1> QED BY <1>3, <1>4

\* The steps of requestThread.
LEMMA RequestThreadKnown ==
    ASSUME Types, UncommittedKnown, requestThread
    PROVE  UncommittedKnown'
<1>1. /\ RequestsOK /\ ResponsesOK /\ RequestThreadOK /\ RunningOK
      /\ batch \in Seq(Sent) /\ prev_batch \in Seq(Sent) /\ raft_log \in Seq(Sent)
  BY DEF Types, RequestThreadOK, RaftOK
<1>2. UNCHANGED << shutdown_called, session_to_response_callback, received >>
  BY DEF requestThread, PopRequest, Collect, forceWaitAndProcessResult,
         PutAccepted, PutRejected, PutReturns, PutReturnsNull,
         putLocalReadRequest, ReadFails, Caught, RequestThreadExits, NotTheRequestThread,
         tables, clients, stop
<1>3. ASSUME UNCHANGED << prev_batch, prev_result, raft_log >>,
             Ids(responses_queue.queue) \subseteq Ids(responses_queue'.queue)
      PROVE  UncommittedKnown'
  <2>1. ASSUME NEW w \in Ids(raft_log') PROVE Connected(w)' => Connected(w)
    BY <1>2 DEF Connected
  <2>2. ASSUME NEW w \in Ids(raft_log'), Told(w) PROVE Told(w)'
    BY <1>2, <1>3, <2>2, ToldStays
  <2> QED BY <1>2, <1>3, <2>1, <2>2, KnownStays
<1>4. CASE Exit
  <2>1. shutdown_called /\ prev_batch' = << >> /\ prev_result' = "null"
    BY <1>1, <1>2, <1>4 DEF Exit, requestThread, PopRequest, Collect,
       forceWaitAndProcessResult, PutAccepted, PutRejected, PutReturns, PutReturnsNull,
       putLocalReadRequest, ReadFails, Caught, RequestThreadExits
  <2> QED BY <1>2, <2>1 DEF UncommittedKnown
<1>5. CASE PopRequest \/ Collect \/ RequestThreadExits
  <2>1. Exit \/ UNCHANGED << prev_batch, prev_result, raft_log, responses_queue >>
    BY <1>5 DEF PopRequest, Collect, RequestThreadExits, raft
  <2> QED BY <1>3, <1>4, <2>1
<1>6. CASE forceWaitAndProcessResult
  <2>1. /\ ProcessResult /\ prev_result # "pending" /\ raft_log' = raft_log
        /\ prev_batch' = << >> /\ prev_result' = "null"
    BY <1>6 DEF forceWaitAndProcessResult, raft
  <2>2. ASSUME ~shutdown_called, NEW w \in Ids(raft_log), Connected(w)
        PROVE  Told(w)'
    <3>1. response_thread_alive /\ ~responses_queue.is_finished /\ Known(w)
      BY <1>1, <2>2 DEF RunningOK, UncommittedKnown
    <3>2. CASE Told(w)
      <4>1. Ids(responses_queue.queue) \subseteq Ids(responses_queue'.queue)
        <5>1. \/ responses_queue' = responses_queue
              \/ \E e \in Errors : addErrorResponses(prev_batch, e)
          BY <2>1 DEF ProcessResult, ProcessResultBy, Errors
        <5> QED BY <1>1, <5>1, ErrorsPushed
      <4> QED BY <1>2, <3>2, <4>1, ToldStays
    <3>3. CASE w \in Ids(prev_batch) /\ prev_result \in {"timeout", "failed"}
      <4>1. \E e \in Errors : addErrorResponses(prev_batch, e) /\ e # "ZOK"
        BY <2>1, <3>3 DEF ProcessResult, ProcessResultBy, Errors
      <4>2. \E a \in Ids(responses_queue'.queue) :
                a.xid = w.xid /\ a.client = w.client /\ a.error # "ZOK"
        BY <1>1, <3>1, <3>3, <4>1, ErrorsPushed, SMT
      <4> QED BY <4>2 DEF Told
    <3> QED BY <2>1, <3>1, <3>2, <3>3 DEF Known
  <2> QED BY <1>2, <2>1, <2>2 DEF UncommittedKnown, Known, Connected
<1>7. CASE PutAccepted \/ PutRejected
  <2>1. /\ rpc = "put" /\ prev_batch' = batch /\ UNCHANGED responses_queue
        /\ \/ prev_result' = "pending" /\ raft_log' = raft_log \o batch
           \/ prev_result' = "rejected" /\ raft_log' = raft_log
    BY <1>7 DEF PutAccepted, PutRejected, PutReturns, AppendToRaft, queues
  <2>2. prev_result = "null" /\ Ids(prev_batch) = {}
    BY <1>1, <2>1, IdsEmpty DEF RequestThreadOK, UncommittedKnown
  <2>3. ASSUME ~shutdown_called, NEW w \in Ids(raft_log), Connected(w)
        PROVE  Told(w)'
    <3>1. Told(w)
      BY <2>2, <2>3 DEF UncommittedKnown, Known
    <3> QED BY <1>2, <2>1, <3>1, ToldStays
  <2>4. Ids(raft_log \o batch) = Ids(raft_log) \cup Ids(batch)
    BY <1>1, IdsConcat, SMT
  <2> QED BY <1>2, <2>1, <2>3, <2>4 DEF UncommittedKnown, Known, Connected
<1>8. CASE PutReturnsNull
  <2>1. /\ addErrorResponses(batch, "ZCONNECTIONLOSS")
        /\ UNCHANGED << prev_batch, prev_result, raft_log >>
    BY <1>8 DEF PutReturnsNull
  <2>2. Ids(responses_queue.queue) \subseteq Ids(responses_queue'.queue)
    BY <1>1, <2>1, ErrorsPushed DEF Errors
  <2> QED BY <1>3, <2>1, <2>2
<1>9. CASE putLocalReadRequest \/ ReadFails
  <2>1. UNCHANGED << prev_batch, prev_result, raft_log >>
    BY <1>9 DEF putLocalReadRequest, ReadFails
  <2>2. PICK r \in read :
            \/ PushResponses(<< Response(r, r.xid, "ZOK") >>)
            \/ addErrorResponses(<< r >>, "ZCONNECTIONLOSS")
    BY <1>9 DEF putLocalReadRequest, ReadFails
  <2>3. r \in Sent /\ r.xid \in 0 .. CloseXid /\ << r >> \in Seq(Sent)
    BY <1>1, <2>2, SentTypes, SMT DEF RequestThreadOK
  <2>4. Response(r, r.xid, "ZOK") \in Reply
    BY <2>3, ResponseTypes DEF Errors
  <2>5. Ids(responses_queue.queue) \subseteq Ids(responses_queue'.queue)
    BY <1>1, <2>2, <2>3, <2>4, ErrorsPushed, OnePushed DEF Errors
  <2> QED BY <1>3, <2>1, <2>5
<1>10. CASE Caught
  BY <1>3, <1>10 DEF Caught, queues
<1> QED BY <1>5, <1>6, <1>7, <1>8, <1>9, <1>10 DEF requestThread

\* A response that is handed on tells its client.
LEMMA ResponseKnown ==
    ASSUME Types, UncommittedKnown, PopResponse
    PROVE  UncommittedKnown'
<1> DEFINE a == Head(responses_queue.queue)
<1>1. /\ UNCHANGED << prev_batch, prev_result, raft_log, shutdown_called >>
      /\ responses_queue.queue # << >> /\ setResponse(a)
      /\ responses_queue' = [responses_queue EXCEPT !.queue = Tail(@)]
  BY DEF PopResponse, CanPop, Pop, Front, request_thread, raft, stop
<1>2. /\ responses_queue'.queue = Tail(responses_queue.queue)
      /\ responses_queue.queue \in Seq(Reply)
  BY <1>1 DEF Types, ResponsesOK
<1>3. /\ a \in Reply /\ a \in Answer
      /\ Ids(responses_queue.queue) = {a} \cup Ids(responses_queue'.queue)
  BY <1>1, <1>2, IdsTail, SMT DEF Reply
<1> HIDE DEF a
<1> SUFFICES ASSUME NEW w \in Ids(raft_log), Connected(w)'
             PROVE  Connected(w) /\ (Told(w) => Told(w)')
  BY <1>1, KnownStays
<1>4. w \in Sent /\ w.client \in Client
  BY IdsIn, SentTypes DEF Types, RaftOK
<1> DEFINE c == w.client
           e == [xid |-> a.xid, error |-> a.error]
<1>5. /\ c \in session_to_response_callback
      /\ received'[c] = received[c] \/ received'[c] = Append(received[c], e)
      /\ a.client = c /\ a.op \notin {"SessionID", "Heartbeat"} =>
             received'[c] = Append(received[c], e)
  BY <1>1, <1>3, <1>4, SetResponseEffects DEF Connected, Types
<1>6. received[c] \in Seq(Received) /\ e \in Received
  BY <1>3, <1>4 DEF Types, ClientsOK, Answer, Received
<1>7. Ids(Append(received[c], e)) = Ids(received[c]) \cup {e}
  BY <1>6, IdsAppend, SMT
<1>8. CASE \E b \in Ids(received[c]) : b.xid = w.xid /\ b.error # "ZOK"
  BY <1>5, <1>7, <1>8 DEF Told, Connected
<1>9. CASE \E b \in Ids(responses_queue'.queue) :
               b.xid = w.xid /\ b.client = w.client /\ b.error # "ZOK"
  BY <1>5, <1>9 DEF Told, Connected
<1>10. CASE a.xid = w.xid /\ a.client = w.client /\ a.error # "ZOK"
  <2>1. a.op \notin {"SessionID", "Heartbeat"}
    BY <1>3, <1>10, SMT DEF Connected, Reply, Tagged
  <2>2. e \in Ids(received'[c]) /\ e.xid = w.xid /\ e.error # "ZOK"
    BY <1>5, <1>7, <1>10, <2>1
  <2> QED BY <1>5, <2>2 DEF Told, Connected
<1>11. Connected(w)
  BY <1>5 DEF Connected
<1> QED BY <1>3, <1>8, <1>9, <1>10, <1>11 DEF Told

\* The steps of Raft.
LEMMA RaftKnown ==
    ASSUME Types, UncommittedKnown, Raft
    PROVE  UncommittedKnown'
<1>1. /\ ResponsesOK /\ RequestThreadOK /\ raft_log \in Seq(Sent)
  BY DEF Types, RaftOK
<1>2. UNCHANGED << shutdown_called, session_to_response_callback, received, prev_batch >>
  BY DEF Raft, commit, ResultIsSet, ResultTimesOut, LoseLeadership, BecomeLeader,
         SessionExpires, NotRaft, tables, clients, stop
<1>3. ASSUME NEW w PROVE Connected(w)' => Connected(w)
  BY <1>2 DEF Connected
<1>4. CASE commit
  <2> DEFINE r == Head(raft_log)
  <2>1. /\ raft_log # << >> /\ raft_log' = Tail(raft_log) /\ UNCHANGED prev_result
        /\ PushResponses(<< Response(r, r.xid, "ZOK") >>)
    BY <1>4 DEF commit
  <2>2. r \in Sent /\ Ids(raft_log) = {r} \cup Ids(raft_log')
    BY <1>1, <2>1, IdsTail, SMT
  <2> HIDE DEF r
  <2>3. Response(r, r.xid, "ZOK") \in Reply
    BY <2>2, SentTypes, ResponseTypes DEF Errors
  <2>4. Ids(responses_queue.queue) \subseteq Ids(responses_queue'.queue)
    BY <1>1, <2>1, <2>3, OnePushed
  <2>5. ASSUME NEW w, Told(w) PROVE Told(w)'
    BY <1>2, <2>4, <2>5, ToldStays
  <2> QED BY <1>2, <1>3, <2>1, <2>2, <2>5, KnownStays
<1>5. CASE ResultIsSet \/ ResultTimesOut \/ LoseLeadership \/ BecomeLeader
           \/ \E c \in Client : SessionExpires(c)
  <2>1. /\ UNCHANGED responses_queue /\ raft_log' \in {<< >>, raft_log}
        /\ \/ UNCHANGED prev_result
           \/ prev_result = "pending" /\ prev_result' \in {"timeout", "failed"}
           \/ /\ prev_result = "pending" /\ prev_result' = "ok"
              /\ Ids(prev_batch) \cap Ids(raft_log) = {}
    BY <1>5 DEF ResultIsSet, ResultTimesOut, LoseLeadership, BecomeLeader, SessionExpires, queues, raft
  <2>2. Ids(raft_log') \subseteq Ids(raft_log)
    BY <2>1, IdsEmpty
  <2>3. ASSUME NEW w, Told(w) PROVE Told(w)'
    BY <1>2, <2>1, <2>3, ToldStays
  <2> QED BY <1>2, <1>3, <2>1, <2>2, <2>3 DEF UncommittedKnown, Known
<1> QED BY <1>4, <1>5 DEF Raft

\* Every step keeps UncommittedKnown.
LEMMA NextKnown ==
    ASSUME Types, Registration, UncommittedKnown, [Next]_vars
    PROVE  UncommittedKnown'
<1>1. ASSUME UNCHANGED << prev_batch, prev_result, raft_log, received, responses_queue >>,
             session_to_response_callback' \subseteq session_to_response_callback,
             ~shutdown_called' => ~shutdown_called
      PROVE  UncommittedKnown'
  <2>1. ASSUME NEW w PROVE Connected(w)' => Connected(w)
    BY <1>1 DEF Connected
  <2>2. ASSUME NEW w, Told(w) PROVE Told(w)'
    BY <1>1, <2>2, ToldStays
  <2> QED BY <1>1, <2>1, <2>2, KnownStays
<1>2. CASE UNCHANGED vars
  BY <1>1, <1>2 DEF vars, tables, queues, clients, request_thread, raft, stop
<1>3. CASE sessionCleanerTask
  BY <1>1, <1>3 DEF sessionCleanerTask, CleanerWakes, CleanerPushes,
     CleanerWaitsForRoom, CleanerFinishes, FinishThen, finishSession, NotTheCleaner,
     tables, queues, clients, request_thread, raft, stop
<1>4. CASE ResponseThreadExits \/ BeginShutdown \/ shutdown
  <2>1. shutdown_called'
    BY <1>4, SMT DEF Types, RunningOK, ResponseThreadExits, BeginShutdown, shutdown,
       JoinCleaner, JoinRequestThread, JoinResponseThread, JoinSnapshotThread,
         JoinUpdateConfigurationThread, ExpirePending, EndShutdown, stop
  <2>2. UNCHANGED << prev_batch, prev_result, raft_log >>
    BY <1>4 DEF ResponseThreadExits, BeginShutdown, shutdown, JoinCleaner,
       JoinRequestThread, JoinResponseThread, JoinSnapshotThread,
         JoinUpdateConfigurationThread, ExpirePending, EndShutdown,
       request_thread, raft
  <2> QED BY <2>1, <2>2 DEF UncommittedKnown
<1> QED BY <1>2, <1>3, <1>4, ConnectionKnown, RequestThreadKnown, ResponseKnown,
           RaftKnown DEF Next, responseThread

\* The three together are inductive.
ReadInv == Types /\ Registration /\ UncommittedKnown

\* They hold in every reachable state.
LEMMA ReadInvariant == Spec => []ReadInv
<1>1. Init => ReadInv
  BY InitTypes, InitRegistration, InitKnown DEF ReadInv
<1>2. ReadInv /\ [Next]_vars => ReadInv'
  BY NextTypes, NextRegistration, NextKnown DEF ReadInv
<1> QED BY <1>1, <1>2, PTL DEF Spec

\* When requestThread executes a read of a connected session, no write that
\* the session sent before waits in Raft untold: it has waited for the result
\* of the batch before, for any number of connections and failures.
THEOREM ReadsAlwaysSeeOwnWrites == Spec => []ReadsSeeOwnWrites
<1>1. ReadInv => ReadsSeeOwnWrites
  <2> SUFFICES ASSUME ReadInv, rpc = "read", ~shutdown_called,
                      NEW r \in read, r.client \in session_to_response_callback,
                      NEW w \in Ids(raft_log), w.client = r.client,
                      w.xid \in 1 .. r.xid - 1
               PROVE  Told(w)
    BY SMT DEF ReadsSeeOwnWrites, Told
  <2>1. r \in Sent /\ r.xid \in 0 .. CloseXid
    BY SentTypes DEF ReadInv, Types, RequestThreadOK
  <2>2. Connected(w)
    BY <2>1, Bounds, SMT DEF Connected
  <2>3. Ids(prev_batch) = {}
    BY IdsEmpty DEF ReadInv, Types, RequestThreadOK, UncommittedKnown
  <2> QED BY <2>2, <2>3 DEF ReadInv, UncommittedKnown, Known
<1> QED BY <1>1, ReadInvariant, PTL

-----------------------------------------------------------------------------
(***************************************************************************)
(* The order of the answers, as long as Raft does not fail.                *)
(***************************************************************************)

\* Until a failure or shutdown(), Raft has nothing that is not of the batch
\* requestThread waits for, and there are no errors.
Smooth ==
    failures = 0 /\ ~shutdown_called =>
        /\ prev_result \in {"null", "pending", "ok"}
        /\ prev_result # "pending" => raft_log = << >>
        /\ Ids(raft_log) \subseteq Ids(prev_batch)
        /\ \A a \in Ids(responses_queue.queue) : a.error = "ZOK"

\* A client has the answers to its first requests; the other ones are on their
\* way, in order.
Delivered(c) ==
    /\ \A i \in DOMAIN received[c] : received[c][i] = [xid |-> i, error |-> "ZOK"]
    /\ Chain(Len(received[c]), Xids(Ids(responses_queue.queue), c),
             Xids(Ids(raft_log), c), Xids(Ids(batch), c), Xids(read, c),
             Xids(Ids(requests_queue.queue), c), accepted[c])
    /\ Sorted(responses_queue.queue, c) /\ Sorted(raft_log, c)
    /\ Sorted(batch, c) /\ Sorted(requests_queue.queue, c)

\* shutdown() adds answers of one kind.
Tidy(c) ==
    \A i \in DOMAIN received[c] :
        \/ received[c][i] = [xid |-> i, error |-> "ZOK"]
        \/ received[c][i].error = "ZSESSIONEXPIRED"

Pipeline ==
    failures = 0 =>
        \A c \in session_to_response_callback :
            (~shutdown_called => Delivered(c)) /\ Tidy(c)

OrderInv == ReadInv /\ Smooth /\ Pipeline /\ AnswersInOrder

\* At first there are no answers.
LEMMA InitOrder == Init => Smooth /\ Pipeline /\ AnswersInOrder
  BY IdsEmpty, SMT DEF Init, Smooth, Pipeline, AnswersInOrder, NewQueue

\* A sequence without elements.
LEMMA NoIds == ASSUME NEW T, NEW s \in Seq(T), Ids(s) = {} PROVE s = << >>
<1>1. Len(s) # 0 => 1 \in DOMAIN s
  BY SMT
<1>2. Len(s) = 0
  BY <1>1 DEF Ids
<1> QED BY <1>2, SMT

\* Failures are counted.
LEMMA CalmBefore ==
    ASSUME Types, [Next]_vars, failures' = 0
    PROVE  /\ failures = 0
           /\ ~PutRejected /\ ~PutReturnsNull /\ ~ReadFails /\ ~Caught
           /\ ~ResultTimesOut /\ ~LoseLeadership
<1>1. failures \in Nat
  BY Bounds, SMT DEF Types, RaftOK
<1>2. /\ ~PutRejected /\ ~PutReturnsNull /\ ~ReadFails /\ ~Caught
      /\ ~ResultTimesOut /\ ~LoseLeadership
  BY <1>1, SMT DEF PutRejected, PutReturnsNull, ReadFails, Caught, ResultTimesOut,
         LoseLeadership
<1>3. failures' = failures
  <2>1. CASE UNCHANGED vars
    BY <2>1 DEF vars, raft
  <2>2. CASE requestThread
    BY <1>2, <2>2 DEF requestThread, PopRequest, Collect, forceWaitAndProcessResult,
         PutAccepted, AppendToRaft, putLocalReadRequest, RequestThreadExits, raft
  <2>3. CASE Raft
    BY <1>2, <2>3 DEF Raft, commit, ResultIsSet, BecomeLeader, SessionExpires, raft
  <2>4. CASE \E c \in Client : Connection(c)
    BY <2>4 DEF Connection, getSessionID, registerSession, SessionIDTimeout,
         putRequest, PushRequest, WaitForRoom, PutFails, Disconnect, NotAConnection, raft
  <2>5. CASE responseThread \/ sessionCleanerTask
    BY <2>5 DEF responseThread, PopResponse, ResponseThreadExits, sessionCleanerTask,
         CleanerWakes, CleanerPushes, CleanerWaitsForRoom, CleanerFinishes, FinishThen,
         NotTheCleaner, raft
  <2>6. CASE BeginShutdown \/ shutdown
    BY <2>6 DEF BeginShutdown, shutdown, JoinCleaner, JoinRequestThread,
         JoinResponseThread, JoinSnapshotThread,
         JoinUpdateConfigurationThread, ExpirePending, EndShutdown, raft
  <2> QED BY <2>1, <2>2, <2>3, <2>4, <2>5, <2>6 DEF Next
<1> QED BY <1>2, <1>3

\* Once called, shutdown stays called.
LEMMA RunningBefore ==
    ASSUME [Next]_vars, ~shutdown_called' PROVE ~shutdown_called
<1>1. CASE requestThread \/ responseThread \/ UNCHANGED vars
  BY <1>1 DEF requestThread, PopRequest, Collect, forceWaitAndProcessResult,
         PutAccepted, PutRejected, PutReturns, PutReturnsNull,
         putLocalReadRequest, ReadFails, Caught, RequestThreadExits, NotTheRequestThread,
         responseThread, PopResponse, ResponseThreadExits, stop, vars
<1>2. CASE Raft \/ sessionCleanerTask
  BY <1>2 DEF Raft, commit, ResultIsSet, ResultTimesOut, LoseLeadership, BecomeLeader,
         SessionExpires, NotRaft, sessionCleanerTask, CleanerWakes, CleanerPushes,
         CleanerWaitsForRoom, CleanerFinishes, FinishThen, NotTheCleaner, stop
<1>3. CASE \E c \in Client : Connection(c)
  BY <1>3 DEF Connection, getSessionID, registerSession, SessionIDTimeout,
         putRequest, PushRequest, WaitForRoom, PutFails, Disconnect, NotAConnection, stop
<1>4. CASE BeginShutdown \/ shutdown
  BY <1>4 DEF BeginShutdown, shutdown, JoinCleaner, JoinRequestThread,
         JoinResponseThread, JoinSnapshotThread,
         JoinUpdateConfigurationThread, ExpirePending, EndShutdown, stop
<1> QED BY <1>1, <1>2, <1>3, <1>4 DEF Next

\* Smooth is kept.
LEMMA NextSmooth ==
    ASSUME Types, Smooth, [Next]_vars PROVE Smooth'
<1> SUFFICES ASSUME failures' = 0, ~shutdown_called'
             PROVE  /\ prev_result' \in {"null", "pending", "ok"}
                    /\ prev_result' # "pending" => raft_log' = << >>
                    /\ Ids(raft_log') \subseteq Ids(prev_batch')
                    /\ \A a \in Ids(responses_queue'.queue) : a.error = "ZOK"
  BY DEF Smooth
<1>1. /\ failures = 0 /\ ~shutdown_called
      /\ ~PutRejected /\ ~PutReturnsNull /\ ~ReadFails /\ ~Caught
      /\ ~ResultTimesOut /\ ~LoseLeadership
  BY CalmBefore, RunningBefore
<1>2. /\ prev_result \in {"null", "pending", "ok"}
      /\ prev_result # "pending" => raft_log = << >>
      /\ Ids(raft_log) \subseteq Ids(prev_batch)
      /\ \A a \in Ids(responses_queue.queue) : a.error = "ZOK"
  BY <1>1 DEF Smooth
<1>3. /\ ResponsesOK /\ RequestThreadOK /\ raft_log \in Seq(Sent)
      /\ batch \in Seq(Sent) /\ responses_queue.queue \in Seq(Reply)
  BY DEF Types, RaftOK, RequestThreadOK, ResponsesOK
<1>4. ASSUME UNCHANGED << prev_result, prev_batch, raft_log, responses_queue >>
      PROVE  /\ prev_result' \in {"null", "pending", "ok"}
             /\ prev_result' # "pending" => raft_log' = << >>
             /\ Ids(raft_log') \subseteq Ids(prev_batch')
             /\ \A a \in Ids(responses_queue'.queue) : a.error = "ZOK"
  BY <1>2, <1>4
<1>5. CASE UNCHANGED vars
  BY <1>4, <1>5 DEF vars, queues, request_thread, raft
<1>6. CASE (\E c \in Client : Connection(c)) \/ sessionCleanerTask
  <2>1. UNCHANGED << prev_result, prev_batch, raft_log, responses_queue >>
    BY <1>6 DEF Connection, getSessionID, registerSession, SessionIDTimeout,
         putRequest, PushRequest, WaitForRoom, PutFails, Disconnect, NotAConnection,
         sessionCleanerTask, CleanerWakes, CleanerPushes, CleanerWaitsForRoom,
         CleanerFinishes, FinishThen, NotTheCleaner, queues, request_thread, raft
  <2> QED BY <1>4, <2>1
<1>7. CASE PopRequest \/ Collect \/ RequestThreadExits
  <2>1. UNCHANGED << prev_result, prev_batch, raft_log, responses_queue >>
    BY <1>1, <1>7 DEF PopRequest, Collect, RequestThreadExits, raft
  <2> QED BY <1>4, <2>1
<1>8. CASE forceWaitAndProcessResult
  <2>1. /\ ProcessResult /\ prev_result # "pending" /\ raft_log' = raft_log
        /\ prev_batch' = << >> /\ prev_result' = "null"
    BY <1>8 DEF forceWaitAndProcessResult, raft
  <2>2. responses_queue' = responses_queue
    BY <1>2, <2>1 DEF ProcessResult, ProcessResultBy
  <2> QED BY <1>2, <2>1, <2>2, IdsEmpty
<1>9. CASE PutAccepted
  <2>1. /\ rpc = "put" /\ prev_batch' = batch /\ prev_result' = "pending"
        /\ raft_log' = raft_log \o batch /\ UNCHANGED responses_queue
    BY <1>9 DEF PutAccepted, PutReturns, AppendToRaft, queues
  <2>2. raft_log = << >>
    BY <1>2, <1>3, <2>1 DEF RequestThreadOK
  <2>3. Ids(raft_log') = Ids(batch)
    BY <1>3, <2>1, <2>2, IdsConcat, IdsEmpty, SMT
  <2> QED BY <1>2, <2>1, <2>3
<1>10. CASE putLocalReadRequest
  <2>1. UNCHANGED << prev_batch, prev_result, raft_log >>
    BY <1>10 DEF putLocalReadRequest
  <2>2. PICK r \in read : PushResponses(<< Response(r, r.xid, "ZOK") >>)
    BY <1>10 DEF putLocalReadRequest
  <2>3. r \in Sent /\ r.xid \in 0 .. CloseXid
    BY <1>3, <2>2, SentTypes DEF RequestThreadOK
  <2>4. Response(r, r.xid, "ZOK") \in Reply /\ Response(r, r.xid, "ZOK").error = "ZOK"
    BY <2>3, ResponseTypes, SMT DEF Errors
  <2> QED BY <1>2, <1>3, <2>1, <2>2, <2>4, OnePushed
<1>11. CASE PopResponse
  <2>1. /\ responses_queue.queue # << >>
        /\ responses_queue'.queue = Tail(responses_queue.queue)
        /\ UNCHANGED << prev_batch, prev_result, raft_log >>
    BY <1>3, <1>11 DEF PopResponse, CanPop, Pop, ResponsesOK, request_thread, raft
  <2>2. Ids(responses_queue'.queue) \subseteq Ids(responses_queue.queue)
    BY <1>3, <2>1, IdsTail
  <2> QED BY <1>2, <2>1, <2>2
<1>12. CASE commit
  <2> DEFINE r == Head(raft_log)
  <2>1. /\ raft_log # << >> /\ raft_log' = Tail(raft_log)
        /\ UNCHANGED << prev_result, prev_batch >>
        /\ PushResponses(<< Response(r, r.xid, "ZOK") >>)
    BY <1>12 DEF commit, NotRaft
  <2>2. r \in Sent /\ Ids(raft_log) = {r} \cup Ids(raft_log')
    BY <1>3, <2>1, IdsTail, SMT
  <2> HIDE DEF r
  <2>3. Response(r, r.xid, "ZOK") \in Reply /\ Response(r, r.xid, "ZOK").error = "ZOK"
    BY <2>2, SentTypes, ResponseTypes, SMT DEF Errors
  <2> QED BY <1>2, <1>3, <2>1, <2>2, <2>3, OnePushed
<1>13. CASE ResultIsSet
  <2>1. /\ UNCHANGED << prev_batch, raft_log, responses_queue >> /\ prev_result' = "ok"
        /\ Ids(prev_batch) \cap Ids(raft_log) = {}
    BY <1>13 DEF ResultIsSet, NotRaft, queues, raft
  <2>2. raft_log = << >>
    BY <1>2, <1>3, <2>1, NoIds
  <2> QED BY <1>2, <2>1, <2>2
<1>14. CASE BecomeLeader \/ \E c \in Client : SessionExpires(c)
  BY <1>4, <1>14 DEF BecomeLeader, SessionExpires, NotRaft, queues
<1>15. CASE ResponseThreadExits \/ BeginShutdown \/ shutdown
  BY <1>1, <1>15 DEF Types, RunningOK, ResponseThreadExits, BeginShutdown, shutdown,
       JoinCleaner, JoinRequestThread, JoinResponseThread, JoinSnapshotThread,
         JoinUpdateConfigurationThread, ExpirePending, EndShutdown
<1> QED BY <1>1, <1>5, <1>6, <1>7, <1>8, <1>9, <1>10, <1>11, <1>12, <1>13, <1>14, <1>15
        DEF Next, requestThread, responseThread, Raft

\* A step that touches none of the places.
LEMMA SameDelivered ==
    ASSUME NEW c, Delivered(c), received'[c] = received[c], accepted'[c] = accepted[c],
           responses_queue'.queue = responses_queue.queue,
           UNCHANGED << raft_log, batch, read >>,
           requests_queue'.queue = requests_queue.queue
    PROVE  Delivered(c)'
  BY DEF Delivered

\* A new session: there is nothing of it yet.
LEMMA NewDelivered ==
    ASSUME Types, Registration, NEW c \in Client, registerSession(c)
    PROVE  Delivered(c)'
<1>1. /\ UNCHANGED << accepted, received, requests_queue, responses_queue, raft_log,
                      batch, read >>
      /\ phase[c] = "ready"
  BY DEF registerSession, NotAConnection, queues, request_thread, raft
<1>2. Unknown(c)
  BY <1>1 DEF Registration, Unregistered
<1>3. ASSUME NEW S, S \subseteq Flying PROVE Xids(S, c) = {}
  BY <1>2, <1>3 DEF Xids, Unknown
<1>4. ASSUME NEW s, Ids(s) \subseteq Flying PROVE Sorted(s, c)
  BY <1>2, <1>4 DEF Sorted, Unknown, Ids
<1>5. /\ Xids(Ids(responses_queue.queue), c) = {} /\ Xids(Ids(raft_log), c) = {}
      /\ Xids(Ids(batch), c) = {} /\ Xids(read, c) = {}
      /\ Xids(Ids(requests_queue.queue), c) = {}
  BY <1>3 DEF Flying
<1>6. /\ Sorted(responses_queue.queue, c) /\ Sorted(raft_log, c)
      /\ Sorted(batch, c) /\ Sorted(requests_queue.queue, c)
  BY <1>4 DEF Flying
<1>7. Chain(0, {}, {}, {}, {}, {}, 0)
  BY SMT DEF Chain, Below
<1>8. accepted[c] = 0 /\ received[c] = << >> /\ Len(received[c]) = 0
  BY <1>2 DEF Unknown
<1>9. Delivered(c)
  BY <1>5, <1>6, <1>7, <1>8, SMT DEF Delivered
<1> QED BY <1>1, <1>9, SameDelivered

\* A request comes into the queue.
LEMMA PushDelivered ==
    ASSUME RequestsOK, NEW c, Delivered(c), NEW r \in Sent,
           requests_queue'.queue = Append(requests_queue.queue, r),
           \/ ~Numbered(r, c) /\ accepted'[c] = accepted[c]
           \/ Numbered(r, c) /\ r.xid = accepted[c] + 1 /\ accepted'[c] = r.xid,
           received'[c] = received[c],
           UNCHANGED << responses_queue, raft_log, batch, read >>
    PROVE  Delivered(c)'
<1> DEFINE E == Xids(Ids(requests_queue.queue), c)
           X == Xids({r}, c)
<1>1. requests_queue.queue \in Seq(Sent)
  BY DEF RequestsOK
<1>2. Ids(requests_queue'.queue) = Ids(requests_queue.queue) \cup {r}
  BY <1>1, IdsAppend, SMT
<1>3. Xids(Ids(requests_queue'.queue), c) = E \cup X
  BY <1>2, XidsUnion, SMT
<1>4. /\ Chain(Len(received[c]), Xids(Ids(responses_queue.queue), c),
               Xids(Ids(raft_log), c), Xids(Ids(batch), c), Xids(read, c),
               E, accepted[c])
      /\ Sorted(requests_queue.queue, c)
  BY DEF Delivered
<1> HIDE DEF E
<1>5. /\ Chain(Len(received[c]), Xids(Ids(responses_queue.queue), c),
               Xids(Ids(raft_log), c), Xids(Ids(batch), c), Xids(read, c),
               E \cup X, accepted'[c])
      /\ Below(E, X)
  <2>1. CASE ~Numbered(r, c)
    <3>1. X = {} /\ E \cup X = E /\ accepted'[c] = accepted[c]
      BY <2>1, XidsOne
    <3> QED BY <1>4, <3>1 DEF Below
  <2>2. CASE Numbered(r, c)
    <3>1. X = {accepted[c] + 1} /\ accepted'[c] = accepted[c] + 1
      BY <2>2, XidsOne
    <3>2. /\ Chain(Len(received[c]), Xids(Ids(responses_queue.queue), c),
                   Xids(Ids(raft_log), c), Xids(Ids(batch), c), Xids(read, c),
                   E \cup {accepted[c] + 1}, accepted[c] + 1)
          /\ Below(E, {accepted[c] + 1})
      BY <1>4, ChainAccept
    <3> QED BY <3>1, <3>2
  <2> QED BY <2>1, <2>2
<1>6. Sorted(requests_queue'.queue, c)
  BY <1>1, <1>4, <1>5, SortedAppend DEF E
<1> QED BY <1>3, <1>5, <1>6 DEF Delivered

\* requestThread takes a request.
LEMMA PopDelivered ==
    ASSUME Types, NEW c, Delivered(c), PopRequest \/ Collect, ~shutdown_called
    PROVE  Delivered(c)'
<1> DEFINE r == Front(requests_queue)
           E == Xids(Ids(requests_queue'.queue), c)
           X == Xids({r}, c)
           C == Xids(Ids(batch), c)
<1>1. /\ RequestsOK /\ requests_queue.queue \in Seq(Sent) /\ batch \in Seq(Sent)
      /\ CanPop(requests_queue) /\ requests_queue' = Pop(requests_queue)
      /\ UNCHANGED << received, accepted, raft_log, responses_queue >>
      /\ read = {} /\ (rpc = "pop" => batch = << >>)
  BY DEF Types, RequestsOK, RequestThreadOK, PopRequest, Collect, NotTheRequestThread,
         clients, raft
<1>2. /\ requests_queue'.queue = Tail(requests_queue.queue)
      /\ Ids(requests_queue.queue) = {r} \cup Ids(requests_queue'.queue)
      /\ r \in Sent /\ requests_queue.queue # << >> /\ r = Head(requests_queue.queue)
  BY <1>1, PopTypes, RequestPopped DEF CanPop, Front
<1>3. \/ batch' = batch /\ read' = {r}
      \/ batch' = Append(batch, r) /\ read' = read
  <2>1. CASE PopRequest
    <3>1. batch = << >> /\ << r >> = Append(batch, r)
      BY <1>1, <2>1, SMT DEF PopRequest
    <3> QED BY <2>1, <3>1 DEF PopRequest
  <2>2. CASE Collect
    BY <2>2 DEF Collect
  <2> QED BY <2>1, <2>2
<1> HIDE DEF r
<1>4. Xids(Ids(requests_queue.queue), c) = X \cup E
  BY <1>2, XidsUnion, SMT
<1>5. Sorted(requests_queue'.queue, c) /\ Below(X, E)
  BY <1>1, <1>2, SortedTail DEF Delivered
<1>6. Xids(read, c) = {}
  BY <1>1, XidsEmpty
<1>7. Chain(Len(received[c]), Xids(Ids(responses_queue.queue), c),
            Xids(Ids(raft_log), c), C, {}, X \cup E, accepted[c])
  BY <1>4, <1>6 DEF Delivered
<1>8. CASE batch' = batch /\ read' = {r}
  <2>1. Chain(Len(received[c]), Xids(Ids(responses_queue.queue), c),
              Xids(Ids(raft_log), c), C, X, E, accepted[c])
    <3> HIDE DEF X, E, C
    <3> QED BY <1>5, <1>7, ChainTake
  <2> QED BY <1>1, <1>5, <1>8, <2>1 DEF Delivered
<1>9. CASE batch' = Append(batch, r) /\ read' = read
  <2>1. /\ Chain(Len(received[c]), Xids(Ids(responses_queue.queue), c),
                 Xids(Ids(raft_log), c), C \cup X, {}, E, accepted[c])
        /\ Below(C, X)
    <3> HIDE DEF X, E, C
    <3> QED BY <1>5, <1>7, ChainCollect
  <2>2. Xids(Ids(batch'), c) = C \cup X
    BY <1>1, <1>2, <1>9, IdsAppend, XidsUnion, SMT
  <2>3. Sorted(batch', c)
    BY <1>1, <1>2, <1>9, <2>1, SortedAppend DEF Delivered
  <2> QED BY <1>1, <1>5, <1>6, <1>9, <2>1, <2>2, <2>3 DEF Delivered
<1> QED BY <1>3, <1>8, <1>9

\* The batch is given to Raft.
LEMMA PutDelivered ==
    ASSUME Types, raft_log = << >>, NEW c, Delivered(c), PutAccepted
    PROVE  Delivered(c)'
<1>1. /\ batch \in Seq(Sent) /\ raft_log' = raft_log \o batch /\ batch' = << >>
      /\ UNCHANGED << received, accepted, responses_queue, read, requests_queue >>
  BY DEF Types, RequestThreadOK, PutAccepted, PutReturns, AppendToRaft,
         NotTheRequestThread, clients, queues
<1>2. raft_log' = batch
  BY <1>1, SMT
<1>3. Xids(Ids(raft_log), c) = {} /\ Xids(Ids(batch'), c) = {} /\ Sorted(batch', c)
  BY <1>1, IdsEmpty, XidsEmpty, SortedEmpty
<1>4. Chain(Len(received[c]), Xids(Ids(responses_queue.queue), c), {},
            Xids(Ids(batch), c), Xids(read, c),
            Xids(Ids(requests_queue.queue), c), accepted[c])
  BY <1>3 DEF Delivered
<1>5. Chain(Len(received[c]), Xids(Ids(responses_queue.queue), c),
            Xids(Ids(batch), c), {}, Xids(read, c),
            Xids(Ids(requests_queue.queue), c), accepted[c])
  BY <1>4, ChainPut
<1> QED BY <1>1, <1>2, <1>3, <1>5 DEF Delivered

\* A response comes into the queue: the numbers and the order in it.
LEMMA ResponseDelivered ==
    ASSUME ResponsesOK, NEW r \in Sent, NEW c, Sorted(responses_queue.queue, c),
           PushResponses(<< Response(r, r.xid, "ZOK") >>),
           response_thread_alive, ~responses_queue.is_finished,
           Below(Xids(Ids(responses_queue.queue), c), Xids({r}, c))
    PROVE  /\ Xids(Ids(responses_queue'.queue), c) =
                  Xids(Ids(responses_queue.queue), c) \cup Xids({r}, c)
           /\ Sorted(responses_queue'.queue, c)
<1> DEFINE a == Response(r, r.xid, "ZOK")
<1>1. a \in Reply /\ a.client = r.client /\ a.xid = r.xid
  BY SentTypes, ResponseTypes, SMT DEF Errors
<1> HIDE DEF a
<1>2. responses_queue.queue \in Seq(Reply)
  BY DEF ResponsesOK
<1>3. responses_queue'.queue = Append(responses_queue.queue, a)
  BY <1>1, OnePushed DEF a
<1>4. Xids({a}, c) = Xids({r}, c)
  <2>1. Numbered(a, c) <=> Numbered(r, c)
    BY <1>1 DEF Numbered
  <2>2. /\ Xids({a}, c) = IF Numbered(a, c) THEN {a.xid} ELSE {}
        /\ Xids({r}, c) = IF Numbered(r, c) THEN {r.xid} ELSE {}
    BY XidsOne
  <2> QED BY <1>1, <2>1, <2>2
<1>5. Ids(responses_queue'.queue) = Ids(responses_queue.queue) \cup {a}
  BY <1>1, <1>2, <1>3, IdsAppend, SMT
<1>6. Sorted(responses_queue'.queue, c)
  BY <1>1, <1>2, <1>3, <1>4, SortedAppend
<1> QED BY <1>4, <1>5, <1>6, XidsUnion, SMT

\* A read is executed, with nothing before it.
LEMMA ReadDelivered ==
    ASSUME Types, raft_log = << >>, ~shutdown_called, NEW c, Delivered(c),
           putLocalReadRequest
    PROVE  Delivered(c)'
<1>1. /\ ResponsesOK /\ rpc = "read" /\ read' = {} /\ batch = << >>
      /\ response_thread_alive /\ ~responses_queue.is_finished
      /\ UNCHANGED << batch, raft_log, received, accepted, requests_queue >>
  BY DEF Types, RequestThreadOK, RunningOK, putLocalReadRequest,
         NotTheRequestThread, clients
<1>2. PICK r \in read : PushResponses(<< Response(r, r.xid, "ZOK") >>)
  BY DEF putLocalReadRequest
<1>3. r \in Sent /\ read = {r}
  BY <1>2 DEF Types, RequestThreadOK
<1>4. /\ Xids(Ids(raft_log), c) = {} /\ Xids(Ids(batch), c) = {} /\ Xids(read', c) = {}
  BY <1>1, IdsEmpty, XidsEmpty
<1>5. Chain(Len(received[c]), Xids(Ids(responses_queue.queue), c), {}, {},
            Xids({r}, c), Xids(Ids(requests_queue.queue), c), accepted[c])
  BY <1>3, <1>4 DEF Delivered
<1>6. /\ Chain(Len(received[c]),
               Xids(Ids(responses_queue.queue), c) \cup Xids({r}, c), {}, {},
               {}, Xids(Ids(requests_queue.queue), c), accepted[c])
      /\ Below(Xids(Ids(responses_queue.queue), c), Xids({r}, c))
  BY <1>5, ChainRead
<1>7. /\ Xids(Ids(responses_queue'.queue), c) =
             Xids(Ids(responses_queue.queue), c) \cup Xids({r}, c)
      /\ Sorted(responses_queue'.queue, c)
  BY <1>1, <1>2, <1>3, <1>6, ResponseDelivered DEF Delivered
<1> QED BY <1>1, <1>4, <1>6, <1>7 DEF Delivered

\* Raft commits its first entry.
LEMMA CommitDelivered ==
    ASSUME Types, ~shutdown_called, NEW c, Delivered(c), commit
    PROVE  Delivered(c)'
<1> DEFINE r == Head(raft_log)
<1>1. /\ ResponsesOK /\ response_thread_alive /\ ~responses_queue.is_finished
      /\ raft_log \in Seq(Sent) /\ raft_log # << >> /\ raft_log' = Tail(raft_log)
      /\ PushResponses(<< Response(r, r.xid, "ZOK") >>)
      /\ UNCHANGED << batch, read, received, accepted, requests_queue >>
  BY DEF Types, RaftOK, RunningOK, commit, NotRaft, clients
<1>2. r \in Sent /\ Ids(raft_log) = {r} \cup Ids(raft_log')
  BY <1>1, IdsTail, SMT
<1>3. Sorted(raft_log', c) /\ Below(Xids({r}, c), Xids(Ids(raft_log'), c))
  BY <1>1, SortedTail DEF Delivered
<1> HIDE DEF r
<1>4. Xids(Ids(raft_log), c) = Xids({r}, c) \cup Xids(Ids(raft_log'), c)
  BY <1>2, XidsUnion, SMT
<1>5. Chain(Len(received[c]), Xids(Ids(responses_queue.queue), c),
            Xids({r}, c) \cup Xids(Ids(raft_log'), c), Xids(Ids(batch), c),
            Xids(read, c), Xids(Ids(requests_queue.queue), c), accepted[c])
  BY <1>4 DEF Delivered
<1>6. /\ Chain(Len(received[c]),
               Xids(Ids(responses_queue.queue), c) \cup Xids({r}, c),
               Xids(Ids(raft_log'), c), Xids(Ids(batch), c),
               Xids(read, c), Xids(Ids(requests_queue.queue), c), accepted[c])
      /\ Below(Xids(Ids(responses_queue.queue), c), Xids({r}, c))
  BY <1>3, <1>5, ChainCommit, ZenonT(60)
<1>7. /\ Xids(Ids(responses_queue'.queue), c) =
             Xids(Ids(responses_queue.queue), c) \cup Xids({r}, c)
      /\ Sorted(responses_queue'.queue, c)
  BY <1>1, <1>2, <1>6, ResponseDelivered DEF Delivered
<1> QED BY <1>1, <1>3, <1>6, <1>7 DEF Delivered

\* responseThread hands on a response: it is the answer to the next request,
\* to a heartbeat or to a session id request, or the Close of the cleaner.
LEMMA HandedOn ==
    ASSUME Types, Smooth, failures = 0, PopResponse, NEW c \in Client,
           c \in session_to_response_callback, Delivered(c)
    PROVE  /\ c \in session_to_response_callback' => Delivered(c)'
           /\ \/ received'[c] = received[c]
              \/ \E e \in Received :
                     /\ received'[c] = Append(received[c], e)
                     /\ \/ e = [xid |-> Len(received[c]) + 1, error |-> "ZOK"]
                        \/ e.xid = CloseXid
<1> DEFINE a == Head(responses_queue.queue)
           e == [xid |-> a.xid, error |-> a.error]
           A == Xids(Ids(responses_queue'.queue), c)
           n == Len(received[c])
<1>1. /\ UNCHANGED << batch, read, raft_log, requests_queue, accepted >>
      /\ responses_queue.queue # << >> /\ setResponse(a) /\ ~shutdown_called
      /\ responses_queue' = [responses_queue EXCEPT !.queue = Tail(@)]
  BY DEF PopResponse, CanPop, Pop, Front, request_thread, raft
<1>2. /\ responses_queue'.queue = Tail(responses_queue.queue)
      /\ responses_queue.queue \in Seq(Reply)
  BY <1>1 DEF Types, ResponsesOK
<1>3. /\ a \in Reply /\ a \in Answer
      /\ Ids(responses_queue.queue) = {a} \cup Ids(responses_queue'.queue)
  BY <1>1, <1>2, IdsTail, SMT DEF Reply
<1>4. Sorted(responses_queue'.queue, c) /\ Below(Xids({a}, c), A)
  BY <1>1, <1>2, SortedTail DEF Delivered
<1> HIDE DEF a
<1>5. /\ a.error = "ZOK" /\ Tagged(a) /\ a.xid \in 0 .. CloseXid
      /\ received[c] \in Seq(Received) /\ e \in Received
  BY <1>1, <1>3 DEF Smooth, Reply, Answer, Received, Types, ClientsOK
<1>6. /\ \/ received'[c] = received[c]
         \/ /\ a.client = c /\ a.op \notin {"SessionID", "Heartbeat"}
            /\ received'[c] = Append(received[c], e)
            /\ a.op = "Close" => c \notin session_to_response_callback'
      /\ a.client = c /\ a.op \notin {"SessionID", "Heartbeat"} =>
             received'[c] = Append(received[c], e)
  BY <1>1, <1>3, SetResponseEffects, SMT DEF Types
<1>7. Xids(Ids(responses_queue.queue), c) = Xids({a}, c) \cup A
  BY <1>3, XidsUnion, SMT
<1>8. Chain(n, Xids({a}, c) \cup A, Xids(Ids(raft_log), c), Xids(Ids(batch), c),
            Xids(read, c), Xids(Ids(requests_queue.queue), c), accepted[c])
  BY <1>7 DEF Delivered
<1>9. CASE Numbered(a, c)
  <2>1. a.op \notin {"SessionID", "Heartbeat"} /\ a.client = c
    BY <1>5, <1>9, Bounds, SMT DEF Tagged, Numbered
  <2>2. received'[c] = Append(received[c], e)
    BY <1>6, <2>1
  <2>3. Xids({a}, c) = {a.xid}
    BY <1>9, XidsOne
  <2>4. /\ a.xid = n + 1
        /\ Chain(n + 1, A, Xids(Ids(raft_log), c), Xids(Ids(batch), c),
                 Xids(read, c), Xids(Ids(requests_queue.queue), c), accepted[c])
    <3> HIDE DEF A, n
    <3>1. Below({a.xid}, A) /\
          Chain(n, {a.xid} \cup A, Xids(Ids(raft_log), c), Xids(Ids(batch), c),
                Xids(read, c), Xids(Ids(requests_queue.queue), c), accepted[c])
      BY <1>4, <1>8, <2>3
    <3> QED BY <3>1, ChainDeliver
  <2>5. e = [xid |-> n + 1, error |-> "ZOK"]
    BY <1>5, <2>4
  <2>6. Delivered(c)'
    <3>1. /\ Len(received'[c]) = n + 1 /\ DOMAIN received'[c] = 1 .. n + 1 /\ n \in Nat
          /\ DOMAIN received[c] = 1 .. n
          /\ \A i \in 1 .. n : received'[c][i] = received[c][i]
          /\ received'[c][n + 1] = e
      <4> HIDE DEF e
      <4> QED BY <1>5, <2>2, SMT
    <3>2. \A i \in 1 .. n + 1 : received'[c][i] = [xid |-> i, error |-> "ZOK"]
      <4> TAKE i \in 1 .. n + 1
      <4>1. CASE i \in 1 .. n
        BY <3>1, <4>1 DEF Delivered
      <4>2. CASE i = n + 1
        <5> HIDE DEF e, n
        <5> QED BY <2>5, <3>1, <4>2
      <4> QED BY <3>1, <4>1, <4>2, SMT
    <3> QED BY <1>1, <1>4, <2>4, <3>1, <3>2 DEF Delivered
  <2> QED BY <1>5, <2>2, <2>5, <2>6
<1>10. CASE ~Numbered(a, c)
  <2>1. Xids({a}, c) = {} /\ Xids({a}, c) \cup A = A
    BY <1>10, XidsOne
  <2>2. CASE received'[c] = received[c]
    BY <1>1, <1>4, <1>8, <2>1, <2>2 DEF Delivered
  <2>3. CASE received'[c] # received[c]
    <3>1. /\ a.client = c /\ a.op \notin {"SessionID", "Heartbeat"}
          /\ received'[c] = Append(received[c], e)
          /\ a.op = "Close" => c \notin session_to_response_callback'
      BY <1>6, <2>3
    <3>2. a.xid = CloseXid
      BY <1>5, <1>10, <3>1, Bounds, SMT DEF Tagged, Numbered
    <3>3. c \notin session_to_response_callback'
      BY <1>5, <3>1, <3>2 DEF Tagged
    <3> QED BY <1>5, <3>1, <3>2, <3>3
  <2> QED BY <2>2, <2>3
<1> QED BY <1>9, <1>10

\* A client that keeps its callback keeps its order, until shutdown().
LEMMA NextDelivered ==
    ASSUME OrderInv, [Next]_vars, failures' = 0, ~shutdown_called',
           NEW c \in session_to_response_callback'
    PROVE  Delivered(c)'
<1>1. /\ Types /\ Registration /\ Smooth /\ Pipeline /\ failures = 0 /\ ~shutdown_called
      /\ ~PutRejected /\ ~PutReturnsNull /\ ~ReadFails /\ ~Caught
      /\ ~ResultTimesOut /\ ~LoseLeadership
  BY CalmBefore, RunningBefore DEF OrderInv, ReadInv
<1>2. /\ RequestsOK /\ ClientsOK /\ TablesOK /\ RequestThreadOK /\ CleanerOK /\ RunningOK
      /\ prev_result \in {"null", "pending", "ok"}
      /\ prev_result # "pending" => raft_log = << >>
  BY <1>1 DEF Types, Smooth
<1>3. c \in session_to_response_callback => Delivered(c) /\ c \in Client
  BY <1>1, <1>2 DEF Pipeline, TablesOK
<1>4. CASE UNCHANGED vars
  BY <1>3, <1>4, SameDelivered DEF vars, tables, queues, clients, request_thread, raft
<1>5. ASSUME NEW d \in Client, Connection(d) PROVE Delivered(c)'
  <2>1. UNCHANGED << responses_queue, raft_log, batch, read >>
    BY <1>5 DEF Connection, getSessionID, registerSession, SessionIDTimeout,
         putRequest, PushRequest, WaitForRoom, PutFails, Disconnect, NotAConnection,
         queues, request_thread, raft
  <2>2. CASE c = d /\ registerSession(d)
    BY <1>1, <1>5, <2>2, NewDelivered
  <2>3. CASE ~(c = d /\ registerSession(d))
    <3>1. ~(c = d /\ End(d))
      BY DEF End, finishSession
    <3>2. c \in session_to_response_callback
      BY <1>5, <2>3 DEF Connection, getSessionID, registerSession, SessionIDTimeout,
         putRequest, PushRequest, WaitForRoom, PutFails, Disconnect, End, finishSession,
         tables
    <3>3. received'[c] = received[c]
      <4>1. CASE c = d
        BY <1>5, <3>1, <4>1 DEF Connection, getSessionID, registerSession,
           SessionIDTimeout, putRequest, PushRequest, WaitForRoom, PutFails, Disconnect
      <4>2. CASE c # d
        BY <1>1, <1>3, <1>5, <3>2, <4>2, OtherConnection
      <4> QED BY <4>1, <4>2
    <3>4. CASE PushRequest(d)
      <4>1. PICK r \in putting[d] :
                /\ requests_queue' = Emplace(requests_queue, r)
                /\ accepted' = IF r.xid > 0 THEN [accepted EXCEPT ![d] = r.xid]
                                            ELSE accepted
        BY <3>4 DEF PushRequest
      <4>2. /\ r \in Sent /\ r.client = d /\ r.xid \in Nat
            /\ r.xid = accepted[d] + 1 \/ r.xid = 0
            /\ r.xid <= MaxXid
        <5>1. Putting(d) /\ putting[d] \subseteq Sent
          BY <1>2, <1>5 DEF ClientsOK
        <5> QED BY <4>1, <5>1, SentTypes, Bounds, SMT DEF Putting
      <4>3. requests_queue'.queue = Append(requests_queue.queue, r)
        BY <1>1, <1>2, <4>1, <4>2, RequestPushed DEF RunningOK
      <4>4. \/ ~Numbered(r, c) /\ accepted'[c] = accepted[c]
            \/ Numbered(r, c) /\ r.xid = accepted[c] + 1 /\ accepted'[c] = r.xid
        <5>1. accepted \in [Client -> 0 .. MaxXid]
          BY <1>2 DEF ClientsOK
        <5>2. CASE r.xid = 0
          BY <4>1, <5>2, SMT DEF Numbered
        <5>3. CASE r.xid # 0 /\ c = d
          BY <1>5, <4>1, <4>2, <5>1, <5>3, Bounds, SMT DEF Numbered
        <5>4. CASE r.xid # 0 /\ c # d
          BY <1>3, <3>2, <4>1, <4>2, <5>1, <5>4 DEF Numbered
        <5> QED BY <5>2, <5>3, <5>4
      <4> QED BY <1>2, <1>3, <2>1, <3>2, <3>3, <4>2, <4>3, <4>4, PushDelivered
    <3>5. CASE ~PushRequest(d)
      <4>1. UNCHANGED requests_queue
        BY <1>5, <3>5 DEF Connection, getSessionID, registerSession, SessionIDTimeout,
           putRequest, WaitForRoom, PutFails, Disconnect, queues
      <4>2. accepted'[c] = accepted[c]
        <5>1. CASE c = d
          BY <1>5, <3>1, <3>5, <5>1 DEF Connection, getSessionID, registerSession,
             SessionIDTimeout, putRequest, WaitForRoom, PutFails, Disconnect
        <5>2. CASE c # d
          BY <1>1, <1>3, <1>5, <3>2, <5>2, OtherConnection
        <5> QED BY <5>1, <5>2
      <4> QED BY <1>3, <2>1, <3>2, <3>3, <4>1, <4>2, SameDelivered
    <3> QED BY <3>4, <3>5
  <2> QED BY <2>2, <2>3
<1>6. CASE requestThread
  <2>1. UNCHANGED << session_to_response_callback, received, accepted >>
    BY <1>6 DEF requestThread, PopRequest, Collect, forceWaitAndProcessResult,
         PutAccepted, PutRejected, PutReturns, PutReturnsNull,
         putLocalReadRequest, ReadFails, Caught, RequestThreadExits,
         NotTheRequestThread, clients, tables
  <2>2. Delivered(c)
    BY <1>3, <2>1
  <2>3. CASE PopRequest \/ Collect
    BY <1>1, <2>2, <2>3, PopDelivered
  <2>4. CASE forceWaitAndProcessResult
    <3>1. ProcessResult /\ UNCHANGED << batch, read, requests_queue, raft_log >>
      BY <2>4 DEF forceWaitAndProcessResult, raft
    <3>2. UNCHANGED responses_queue
      BY <1>2, <3>1 DEF ProcessResult, ProcessResultBy
    <3> QED BY <2>1, <2>2, <3>1, <3>2, SameDelivered
  <2>5. CASE PutAccepted
    <3>1. raft_log = << >>
      BY <1>2, <2>5 DEF PutAccepted, PutReturns, RequestThreadOK
    <3> QED BY <1>1, <2>2, <2>5, <3>1, PutDelivered
  <2>6. CASE putLocalReadRequest
    <3>1. raft_log = << >>
      BY <1>2, <2>6 DEF putLocalReadRequest, RequestThreadOK
    <3> QED BY <1>1, <2>2, <2>6, <3>1, ReadDelivered
  <2>7. ~RequestThreadExits
    BY <1>1 DEF RequestThreadExits
  <2> QED BY <1>1, <1>6, <2>3, <2>4, <2>5, <2>6, <2>7 DEF requestThread
<1>7. CASE PopResponse
  <2>1. c \in session_to_response_callback
    BY <1>7 DEF PopResponse, setResponse
  <2> QED BY <1>1, <1>3, <1>7, <2>1, HandedOn
<1>8. CASE sessionCleanerTask
  <2>1. /\ UNCHANGED << received, accepted, responses_queue, raft_log, batch, read >>
        /\ session_to_response_callback' \subseteq session_to_response_callback
    BY <1>8 DEF sessionCleanerTask, CleanerWakes, CleanerPushes, CleanerWaitsForRoom,
         CleanerFinishes, FinishThen, finishSession, NotTheCleaner, clients, tables,
         queues, request_thread, raft
  <2>2. Delivered(c)
    BY <1>3, <2>1
  <2>3. CASE CleanerPushes
    <3> DEFINE r == CloseOf(Head(dead_sessions))
    <3>1. r \in Sent /\ ~Numbered(r, c)
      <4>1. Head(dead_sessions) \in Client
        BY <1>2, <2>3, SMT DEF CleanerOK, CleanerPushes
      <4>2. r \in Sent
        BY <4>1, Bounds, SMT DEF CloseOf, Sent, Request, Ops, Tagged
      <4>3. r.xid \notin 1 .. MaxXid
        BY Bounds, SMT DEF CloseOf
      <4> QED BY <4>2, <4>3 DEF Numbered
    <3>2. requests_queue' = Emplace(requests_queue, r)
      BY <2>3 DEF CleanerPushes
    <3> HIDE DEF r
    <3>3. requests_queue'.queue = Append(requests_queue.queue, r)
      BY <1>1, <1>2, <3>1, <3>2, RequestPushed DEF RunningOK
    <3> QED BY <1>2, <2>1, <2>2, <3>1, <3>3, PushDelivered
  <2>4. CASE ~CleanerPushes
    <3>1. UNCHANGED requests_queue
      BY <1>8, <2>4 DEF sessionCleanerTask, CleanerWakes, CleanerWaitsForRoom,
         CleanerFinishes, FinishThen, queues
    <3> QED BY <2>1, <2>2, <3>1, SameDelivered
  <2> QED BY <2>3, <2>4
<1>9. CASE Raft
  <2>1. UNCHANGED << session_to_response_callback, received, accepted >>
    BY <1>9 DEF Raft, commit, ResultIsSet, ResultTimesOut, LoseLeadership, BecomeLeader,
         SessionExpires, NotRaft, clients, tables
  <2>2. Delivered(c)
    BY <1>3, <2>1
  <2>3. CASE commit
    BY <1>1, <2>2, <2>3, CommitDelivered
  <2>4. CASE ResultIsSet \/ BecomeLeader \/ \E d \in Client : SessionExpires(d)
    <3>1. UNCHANGED << requests_queue, responses_queue, raft_log, batch, read >>
      BY <2>4 DEF ResultIsSet, BecomeLeader, SessionExpires, NotRaft, queues, raft
    <3> QED BY <2>1, <2>2, <3>1, SameDelivered
  <2> QED BY <1>1, <1>9, <2>3, <2>4 DEF Raft
<1>10. ~ResponseThreadExits /\ ~BeginShutdown /\ ~shutdown
  BY <1>1, <1>2 DEF RunningOK, ResponseThreadExits, BeginShutdown, shutdown,
       JoinCleaner, JoinRequestThread, JoinResponseThread, JoinSnapshotThread,
         JoinUpdateConfigurationThread, ExpirePending, EndShutdown
<1> QED BY <1>4, <1>5, <1>6, <1>7, <1>8, <1>9, <1>10 DEF Next, responseThread

\* Who changes the answers a client has, and who gives it a callback.
LEMMA ReceivedChanges ==
    ASSUME Types, [Next]_vars, NEW c \in Client, ~PopResponse, ~ExpirePending
    PROVE  /\ \/ received'[c] = received[c]
              \/ received'[c] = << >> /\ c \notin session_to_response_callback'
           /\ \/ c \in session_to_response_callback' => c \in session_to_response_callback
              \/ registerSession(c)
<1>1. CASE UNCHANGED vars
  BY <1>1 DEF vars, tables, clients
<1>2. CASE Connection(c)
  <2>1. received \in [Client -> Seq(Received)]
    BY DEF Types, ClientsOK
  <2>2. CASE End(c)
    BY <2>1, <2>2 DEF End, finishSession
  <2>3. CASE ~End(c)
    BY <1>2, <2>3 DEF Connection, getSessionID, registerSession, SessionIDTimeout,
       putRequest, PushRequest, WaitForRoom, PutFails, Disconnect, tables
  <2> QED BY <2>2, <2>3
<1>3. ASSUME NEW d \in Client, d # c, Connection(d)
      PROVE  /\ received'[c] = received[c]
             /\ c \in session_to_response_callback' => c \in session_to_response_callback
  BY <1>3, OtherConnection
<1>4. CASE requestThread \/ responseThread \/ sessionCleanerTask \/ Raft
           \/ BeginShutdown \/ shutdown
  <2>1. /\ UNCHANGED received
        /\ session_to_response_callback' \subseteq session_to_response_callback
    <3>1. CASE requestThread
      BY <3>1 DEF requestThread, PopRequest, Collect, forceWaitAndProcessResult,
         PutAccepted, PutRejected, PutReturns, PutReturnsNull,
         putLocalReadRequest, ReadFails, Caught, RequestThreadExits,
         NotTheRequestThread, clients, tables
    <3>2. CASE responseThread \/ BeginShutdown \/ shutdown
      BY <3>2 DEF responseThread, ResponseThreadExits, BeginShutdown, shutdown,
         JoinCleaner, JoinRequestThread, JoinResponseThread, JoinSnapshotThread,
         JoinUpdateConfigurationThread, EndShutdown, clients, tables
    <3>3. CASE sessionCleanerTask
      BY <3>3 DEF sessionCleanerTask, CleanerWakes, CleanerPushes,
         CleanerWaitsForRoom, CleanerFinishes, FinishThen, finishSession, clients, tables
    <3>4. CASE Raft
      BY <3>4 DEF Raft, commit, ResultIsSet, ResultTimesOut, LoseLeadership, BecomeLeader,
         SessionExpires, NotRaft, clients, tables
    <3> QED BY <1>4, <3>1, <3>2, <3>3, <3>4
  <2> QED BY <2>1
<1> QED BY <1>1, <1>2, <1>3, <1>4 DEF Next

\* shutdown() tells the clients of the requests it finds in the queue that
\* their session has expired.
LEMMA ExpireReceived ==
    ASSUME Types, ExpirePending, NEW c \in Client
    PROVE  /\ session_to_response_callback' \subseteq session_to_response_callback
           /\ \/ received'[c] = received[c]
              \/ /\ c \in session_to_response_callback
                 /\ \E e \in Received : /\ e.error = "ZSESSIONEXPIRED"
                                        /\ received'[c] = Append(received[c], e)
<1> DEFINE a == Response(Front(requests_queue), 0, "ZSESSIONEXPIRED")
<1>1. a \in Answer /\ a.error = "ZSESSIONEXPIRED"
  BY PopTypes, ResponseTypes, Bounds, SMT DEF ExpirePending, Types, Errors
<1>2. setResponse(a)
  BY DEF ExpirePending
<1> HIDE DEF a
<1>3. [xid |-> a.xid, error |-> a.error] \in Received
  BY <1>1 DEF Answer, Received
<1> QED BY <1>1, <1>2, <1>3, SetResponseEffects DEF Types

\* An answer behind those that are in order.
LEMMA TidyAppend ==
    ASSUME NEW s \in Seq(Received), NEW e \in Received,
           \A i \in DOMAIN s : \/ s[i] = [xid |-> i, error |-> "ZOK"]
                               \/ s[i].error = "ZSESSIONEXPIRED"
    PROVE  \A i \in DOMAIN Append(s, e) :
               \/ Append(s, e)[i] = [xid |-> i, error |-> "ZOK"]
               \/ Append(s, e)[i].error = "ZSESSIONEXPIRED"
               \/ i = Len(Append(s, e)) /\ i = Len(s) + 1 /\ Append(s, e)[i] = e
<1>1. /\ DOMAIN Append(s, e) = 1 .. Len(s) + 1 /\ Len(s) \in Nat
      /\ Len(Append(s, e)) = Len(s) + 1 /\ DOMAIN s = 1 .. Len(s)
      /\ \A i \in 1 .. Len(s) : Append(s, e)[i] = s[i]
      /\ Append(s, e)[Len(s) + 1] = e
  BY SMT
<1> TAKE i \in DOMAIN Append(s, e)
<1>2. CASE i \in 1 .. Len(s)
  BY <1>1, <1>2
<1>3. CASE i = Len(s) + 1
  BY <1>1, <1>3
<1> QED BY <1>1, <1>2, <1>3, SMT

\* Every step keeps Pipeline, ...
LEMMA NextPipeline ==
    ASSUME OrderInv, [Next]_vars PROVE Pipeline'
<1> SUFFICES ASSUME failures' = 0, NEW c \in session_to_response_callback'
             PROVE  (~shutdown_called' => Delivered(c)') /\ Tidy(c)'
  BY DEF Pipeline
<1>1. /\ Types /\ Registration /\ Pipeline /\ failures = 0
  BY CalmBefore DEF OrderInv, ReadInv
<1>2. c \in Client
  BY <1>1, NextTypes DEF Types, TablesOK
<1>3. CASE ~shutdown_called'
  <2>1. Delivered(c)'
    BY <1>3, NextDelivered
  <2>2. Tidy(c)'
    BY <2>1 DEF Delivered, Tidy
  <2> QED BY <2>1, <2>2
<1>4. CASE shutdown_called'
  <2>1. received[c] \in Seq(Received)
    BY <1>1, <1>2 DEF Types, ClientsOK
  <2>2. c \in session_to_response_callback => Tidy(c)
    BY <1>1 DEF Pipeline
  <2>3. CASE ExpirePending
    <3>1. c \in session_to_response_callback /\ Tidy(c)
      BY <1>1, <1>2, <2>2, <2>3, ExpireReceived
    <3>2. received'[c] = received[c] => Tidy(c)'
      BY <3>1 DEF Tidy
    <3>3. ASSUME NEW e \in Received, e.error = "ZSESSIONEXPIRED",
                 received'[c] = Append(received[c], e)
          PROVE  Tidy(c)'
      <4>1. \A i \in DOMAIN Append(received[c], e) :
               \/ Append(received[c], e)[i] = [xid |-> i, error |-> "ZOK"]
               \/ Append(received[c], e)[i].error = "ZSESSIONEXPIRED"
        BY <2>1, <3>1, <3>3, TidyAppend DEF Tidy
      <4> QED BY <3>3, <4>1 DEF Tidy
    <3>4. Tidy(c)'
      BY <1>1, <1>2, <2>3, <3>2, <3>3, ExpireReceived
    <3> QED BY <1>4, <3>4
  <2>4. ~PopResponse
    BY <1>4 DEF PopResponse, stop
  <2>5. CASE ~ExpirePending
    <3>1. /\ received'[c] = received[c]
          /\ c \in session_to_response_callback \/ registerSession(c)
      BY <1>1, <1>2, <2>4, <2>5, ReceivedChanges
    <3>2. CASE c \in session_to_response_callback
      BY <1>4, <2>2, <3>1, <3>2 DEF Tidy
    <3>3. CASE registerSession(c)
      <4>1. received[c] = << >>
        BY <1>1, <1>2, <3>3 DEF registerSession, Registration, Unregistered, Unknown
      <4> QED BY <1>4, <3>1, <4>1, SMT DEF Tidy
    <3> QED BY <3>1, <3>2, <3>3
  <2> QED BY <2>3, <2>5
<1> QED BY <1>3, <1>4

\* ... and AnswersInOrder: a new answer is the next one, or the last.
LEMMA NextAnswers ==
    ASSUME OrderInv, [Next]_vars PROVE AnswersInOrder'
<1> SUFFICES ASSUME failures' = 0, NEW c \in Client, NEW i \in DOMAIN received'[c]
             PROVE  \/ received'[c][i].xid = i /\ received'[c][i].error = "ZOK"
                    \/ received'[c][i].xid = CloseXid /\ i = Len(received'[c])
                    \/ received'[c][i].error = "ZSESSIONEXPIRED"
  BY DEF AnswersInOrder
<1>1. /\ Types /\ Smooth /\ Pipeline /\ AnswersInOrder /\ failures = 0
  BY CalmBefore DEF OrderInv, ReadInv
<1>2. received[c] \in Seq(Received)
  BY <1>1 DEF Types, ClientsOK
<1>3. CASE received'[c] = received[c]
  BY <1>1, <1>3 DEF AnswersInOrder
<1>4. ASSUME NEW e \in Received, received'[c] = Append(received[c], e),
             c \in session_to_response_callback,
             \/ e = [xid |-> Len(received[c]) + 1, error |-> "ZOK"]
             \/ e.xid = CloseXid
             \/ e.error = "ZSESSIONEXPIRED"
      PROVE  \/ received'[c][i].xid = i /\ received'[c][i].error = "ZOK"
             \/ received'[c][i].xid = CloseXid /\ i = Len(received'[c])
             \/ received'[c][i].error = "ZSESSIONEXPIRED"
  <2>1. Tidy(c)
    BY <1>1, <1>4 DEF Pipeline
  <2>2. \/ received'[c][i] = [xid |-> i, error |-> "ZOK"]
        \/ received'[c][i].error = "ZSESSIONEXPIRED"
        \/ /\ i = Len(received'[c]) /\ i = Len(received[c]) + 1 /\ received'[c][i] = e
    BY <1>2, <1>4, <2>1, TidyAppend DEF Tidy
  <2> QED BY <1>4, <2>2, SMT
<1>5. CASE PopResponse
  <2>1. CASE c \in session_to_response_callback
    <3>1. Delivered(c)
      BY <1>1, <1>5, <2>1 DEF Pipeline, PopResponse
    <3> QED BY <1>1, <1>3, <1>4, <1>5, <2>1, <3>1, HandedOn
  <2>2. CASE c \notin session_to_response_callback
    <3>1. Front(responses_queue) \in Answer
      BY <1>1, <1>5, SMT DEF PopResponse, CanPop, Front, Types, ResponsesOK, Reply
    <3>2. received'[c] = received[c]
      BY <1>1, <1>5, <2>2, <3>1, SetResponseEffects DEF PopResponse, Types
    <3> QED BY <1>3, <3>2
  <2> QED BY <2>1, <2>2
<1>6. CASE ExpirePending
  BY <1>1, <1>3, <1>4, <1>6, ExpireReceived
<1>7. CASE ~PopResponse /\ ~ExpirePending
  <2>1. received'[c] = received[c] \/ received'[c] = << >>
    BY <1>1, <1>7, ReceivedChanges
  <2>2. CASE received'[c] = << >>
    BY <2>2, SMT
  <2> QED BY <1>3, <2>1, <2>2
<1> QED BY <1>5, <1>6, <1>7

\* Together these are inductive.
LEMMA OrderInvariant == Spec => []OrderInv
<1>1. Init => OrderInv
  BY InitTypes, InitRegistration, InitKnown, InitOrder DEF OrderInv, ReadInv
<1>2. OrderInv /\ [Next]_vars => OrderInv'
  BY NextTypes, NextRegistration, NextKnown, NextSmooth, NextPipeline, NextAnswers
     DEF OrderInv, ReadInv
<1> QED BY <1>1, <1>2, PTL DEF Spec

\* As long as Raft does not fail a client gets one answer for each of its
\* requests, in the order of the requests, although reads bypass Raft: for any
\* number of connections and every size of the queue and the batches.
THEOREM AnswersAlwaysInOrder == Spec => []AnswersInOrder
  BY OrderInvariant, PTL DEF OrderInv
=============================================================================
