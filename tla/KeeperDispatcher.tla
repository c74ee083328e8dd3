-------------------------- MODULE KeeperDispatcher --------------------------
(***************************************************************************)
(* The threads of one Keeper server that carry requests to Raft and        *)
(* responses back (src/Coordination/KeeperDispatcher.cpp): the connections *)
(* that call getSessionID and putRequest, requestThread, responseThread,   *)
(* sessionCleanerTask and shutdown, with the queues and the mutex between  *)
(* them.                                                                   *)
(*                                                                         *)
(* A client is one connection.  It names its internal id, unique on this   *)
(* server, as well as the session it is given, unique in the cluster.      *)
(* Of Raft, the entries accepted and not committed yet are kept; the       *)
(* storage is the set of its sessions and of those whose time is up.       *)
(* session_to_response_callback_mutex only encloses single steps.          *)
(***************************************************************************)
EXTENDS ConcurrentBoundedQueue

CONSTANTS
    Client,                   \* the connections
    max_requests_batch_size,  \* the setting, and the size of requests_queue
    MaxXid,                   \* bound: requests of a client, heartbeats apart
    MaxRaftLog,               \* bound: entries accepted and not committed
    MaxResponses,             \* bound: responses not yet handed on
    MaxTrouble                \* bound: failures, expiries, shutdown

ASSUME DispatcherAssumption ==
    /\ max_requests_batch_size \in Nat \ {0}
    /\ {MaxXid, MaxRaftLog, MaxResponses, MaxTrouble} \subseteq Nat
    /\ {"cleaner", "shutdown"} \cap Client = {}

VARIABLES
    session_to_response_callback,      \* sessions with a callback
    new_session_id_response_callback,  \* internal ids with a callback
    push_request_mutex,                \* who holds it: a set, at most one
    requests_queue,
    responses_queue,
    shutdown_called,
    phase,        \* client -> where its connection is
    putting,      \* client -> the request it is putting
    accepted,     \* client -> requests accepted by putRequest
    received,     \* client -> the responses handed to its callback
    rpc,          \* where requestThread is
    batch,        \* its current_batch
    read,         \* its read request, a set of at most one
    prev_batch,
    prev_result,  \* prev_result, or the result it is waiting for
    dropped,      \* the requests an exception has made it forget
    raft_log,     \* external: entries accepted, not committed, in order
    is_leader,    \* external: isLeader()
    failures,     \* how often Raft refused or gave up, or a request threw
    expiries,     \* how often a session was found expired
    sessions,     \* sessions of the storage
    dead,         \* those of them that the expiry queue finds expired
    response_thread_alive,
    cpc,          \* where sessionCleanerTask is
    dead_sessions,\* its list
    spc           \* where shutdown is

tables  == << session_to_response_callback, new_session_id_response_callback >>
queues  == << requests_queue, responses_queue >>
clients == << phase, putting, accepted, received >>
request_thread == << rpc, batch, read, prev_batch, prev_result, dropped >>
raft    == << raft_log, is_leader, failures, expiries, sessions, dead >>
cleaner == << cpc, dead_sessions >>
stop    == << shutdown_called, spc >>
vars    == << tables, queues, push_request_mutex, clients, request_thread,
              raft, response_thread_alive, cleaner, stop >>

CloseXid == MaxXid + 1

Ops == {"SessionID", "Heartbeat", "Write", "Read", "Close"}

Errors == {"ZOK", "ZOPERATIONTIMEOUT", "ZCONNECTIONLOSS", "ZSESSIONEXPIRED"}

Request == [client : Client, xid : 0 .. CloseXid, op : Ops]

\* makeResponse, with the error and the xid the caller sets.
Response(r, xid, error) ==
    [client |-> r.client, xid |-> xid, op |-> r.op, error |-> error]

Ids(s) == {s[i] : i \in DOMAIN s}

HeartbeatOf(c) == [client |-> c, xid |-> 0, op |-> "Heartbeat"]

CloseOf(c) == [client |-> c, xid |-> CloseXid, op |-> "Close"]

\* Bound: of the requests that are repeated for ever, the heartbeats and the
\* Close of a dead session, the next one is sent when the last is dealt with.
Spaced(r) ==
    /\ r \notin Ids(requests_queue.queue) \cup Ids(batch) \cup Ids(raft_log)
    /\ \A a \in Ids(responses_queue.queue) :
           << a.client, a.op, a.xid >> # << r.client, r.op, r.xid >>

-----------------------------------------------------------------------------
(***************************************************************************)
(* setResponse.  An error for a session id request carries no internal id, *)
(* so nobody waits for it.                                                 *)
(***************************************************************************)
setResponse(r) ==
    IF r.op = "SessionID"
    THEN /\ IF r.error = "ZOK" /\ r.client \in new_session_id_response_callback
            THEN /\ new_session_id_response_callback' =
                        new_session_id_response_callback \ {r.client}
                 /\ phase' = [phase EXCEPT ![r.client] =
                                 IF @ = "waiting" THEN "ready" ELSE @]
            ELSE UNCHANGED << new_session_id_response_callback, phase >>
         /\ UNCHANGED << session_to_response_callback, received >>
    ELSE /\ received' =
                IF r.client \in session_to_response_callback /\ r.op # "Heartbeat"
                THEN [received EXCEPT ![r.client] =
                         Append(@, [xid |-> r.xid, error |-> r.error])]
                ELSE received
         /\ session_to_response_callback' =
                IF r.op = "Close"
                THEN session_to_response_callback \ {r.client}
                ELSE session_to_response_callback
         /\ UNCHANGED << new_session_id_response_callback, phase >>

\* finishSession: no more responses for the session.
finishSession(c) ==
    session_to_response_callback' = session_to_response_callback \ {c}

\* The handler of a connection is destroyed, with the responses it holds.
End(c) ==
    /\ phase' = [phase EXCEPT ![c] = "gone"]
    /\ putting' = [putting EXCEPT ![c] = {}]
    /\ accepted' = [accepted EXCEPT ![c] = 0]
    /\ received' = [received EXCEPT ![c] = << >>]
    /\ finishSession(c)

ErrorResponses(rs, error) ==
    [i \in DOMAIN rs |-> Response(rs[i], rs[i].xid, error)]

\* responses_queue after a push.  When responseThread has ended nobody reads
\* the queue any more, and what is in it is not kept.
PushResponses(rs) ==
    responses_queue' = IF response_thread_alive
                       THEN EmplaceAll(responses_queue, rs)
                       ELSE responses_queue

addErrorResponses(rs, error) == PushResponses(ErrorResponses(rs, error))

MoreTrouble ==
    failures + expiries + (IF shutdown_called THEN 1 ELSE 0) < MaxTrouble

\* Bound: whoever pushes responses waits while responseThread is far behind.
ResponsesBounded ==
    Len(responses_queue.queue) < MaxResponses

-----------------------------------------------------------------------------
(* A connection: getSessionID, registerSession, putRequest, the end. *)

NotAConnection ==
    << request_thread, raft, response_thread_alive, cleaner, stop >>

\* getSessionID registers the callback, then goes for the mutex.
getSessionID(c) ==
    /\ phase[c] = "new"
    /\ new_session_id_response_callback' =
           new_session_id_response_callback \cup {c}
    /\ phase' = [phase EXCEPT ![c] = "locking"]
    /\ putting' = [putting EXCEPT ![c] =
                      {[client |-> c, xid |-> 0, op |-> "SessionID"]}]
    /\ UNCHANGED << session_to_response_callback, queues, push_request_mutex,
                    accepted, received, NotAConnection >>

\* The id is there within the session timeout; registerSession follows.
registerSession(c) ==
    /\ phase[c] = "ready"
    /\ session_to_response_callback' = session_to_response_callback \cup {c}
    /\ phase' = [phase EXCEPT ![c] = "idle"]
    /\ UNCHANGED << new_session_id_response_callback, queues,
                    push_request_mutex, putting, accepted, received, NotAConnection >>

\* The session timeout passes first: the callback stays registered.
SessionIDTimeout(c) ==
    /\ phase[c] = "waiting"
    /\ End(c)
    /\ UNCHANGED << new_session_id_response_callback, queues,
                    push_request_mutex, NotAConnection >>

Answered(c, x) ==
    \E i \in DOMAIN received[c] : received[c][i].xid = x

\* Bound: heartbeats are sent while the last request has no answer and
\* requestThread, with nothing else to do, has a result to look at.
MayBeat(c) ==
    /\ Spaced(HeartbeatOf(c))
    /\ rpc = "pop" /\ ~CanPop(requests_queue)
    /\ prev_result \notin {"null", "pending"}
    /\ accepted[c] > 0 /\ ~Answered(c, accepted[c])

\* What the next request of a client may be.
NextRequests(c) ==
    {[client |-> c, xid |-> accepted[c] + 1, op |-> op] :
        op \in IF accepted[c] < MaxXid THEN {"Write", "Read", "Close"} ELSE {}}
    \cup {r \in {HeartbeatOf(c)} : MayBeat(c)}

\* putRequest looks whether the session is registered, and goes for the mutex.
putRequest(c, r) ==
    /\ phase[c] = "idle"
    /\ IF c \in session_to_response_callback
       THEN /\ phase' = [phase EXCEPT ![c] = "locking"]
            /\ putting' = [putting EXCEPT ![c] = {r}]
            /\ UNCHANGED << accepted, received, session_to_response_callback >>
       ELSE End(c)
    /\ UNCHANGED << new_session_id_response_callback, queues,
                    push_request_mutex, NotAConnection >>

(***************************************************************************)
(* The critical section of push_request_mutex is one step when it need not *)
(* wait for room in the queue; while it waits, phase is "pushing" and the  *)
(* mutex is held.  Only putRequest looks at shutdown_called: its false     *)
(* ends the connection, as an exception does, with finishSession.          *)
(***************************************************************************)
Refused(c) == shutdown_called /\ \A r \in putting[c] : r.op # "SessionID"

HasMutex(c) ==
    \/ phase[c] = "pushing"
    \/ phase[c] = "locking" /\ push_request_mutex = {} /\ ~Refused(c)

AfterPush(op) ==
    CASE op = "SessionID" -> "waiting"
      [] op = "Close" -> "closed"
      [] OTHER -> "idle"

\* There is room, and the request is in the queue.
PushRequest(c) ==
    /\ HasMutex(c)
    /\ CanEmplace(requests_queue, max_requests_batch_size)
    /\ ~requests_queue.is_finished
    /\ \E r \in putting[c] :
        /\ requests_queue' = Emplace(requests_queue, r)
        /\ phase' = [phase EXCEPT ![c] = AfterPush(r.op)]
        /\ accepted' = IF r.xid > 0 THEN [accepted EXCEPT ![c] = r.xid]
                                    ELSE accepted
    /\ putting' = [putting EXCEPT ![c] = {}]
    /\ push_request_mutex' = {}
    /\ UNCHANGED << tables, responses_queue, received, NotAConnection >>

\* There is no room.
WaitForRoom(c) ==
    /\ HasMutex(c)
    /\ phase[c] = "locking"
    /\ ~CanEmplace(requests_queue, max_requests_batch_size)
    /\ phase' = [phase EXCEPT ![c] = "pushing"]
    /\ push_request_mutex' = {c}
    /\ UNCHANGED << tables, queues, putting, accepted, received, NotAConnection >>

\* putRequest returns false after shutdown_called, or tryPush returns false,
\* because there is no room within the timeout or the queue is finished.  A
\* Close waits without a timeout.
PutFails(c) ==
    /\ \/ phase[c] = "locking" /\ push_request_mutex = {} /\ Refused(c)
       \/ HasMutex(c) /\ requests_queue.is_finished
       \/ /\ phase[c] = "pushing"
          /\ \A r \in putting[c] : r.op # "Close"
          /\ ~CanEmplace(requests_queue, max_requests_batch_size)
    /\ End(c)
    /\ push_request_mutex' = {}
    /\ UNCHANGED << new_session_id_response_callback, queues, NotAConnection >>

\* The connection breaks or times out, or its session has ended.
Disconnect(c) ==
    /\ phase[c] \in {"idle", "closed"}
    /\ End(c)
    /\ UNCHANGED << new_session_id_response_callback, queues,
                    push_request_mutex, NotAConnection >>

-----------------------------------------------------------------------------
(* requestThread *)

NotTheRequestThread ==
    << tables, push_request_mutex, clients, response_thread_alive, cleaner, stop >>

\* The thread ends, and drops what it holds.
Exit ==
    /\ rpc' = "exited"
    /\ batch' = << >>
    /\ prev_batch' = << >>
    /\ prev_result' = "null"
    /\ UNCHANGED << read, dropped >>

\* The first request of a batch.  After shutdown_called it is dropped.
PopRequest ==
    /\ rpc = "pop"
    /\ CanPop(requests_queue)
    /\ requests_queue' = Pop(requests_queue)
    /\ LET r == Front(requests_queue) IN
       IF shutdown_called
       THEN Exit
       ELSE /\ IF r.op = "Read"
               THEN rpc' = "force" /\ read' = {r} /\ UNCHANGED batch
               ELSE rpc' = "collect" /\ batch' = << r >> /\ UNCHANGED read
            /\ UNCHANGED << prev_batch, prev_result, dropped >>
    /\ UNCHANGED << responses_queue, raft, NotTheRequestThread >>

\* While the previous batch is not committed, a request joins the batch until
\* this is too big; a read ends it.  With shutdown_called the thread exits, and
\* drops what it has collected.
Collect ==
    /\ rpc = "collect"
    /\ prev_result = "pending"
    /\ CanPop(requests_queue)
    /\ requests_queue' = Pop(requests_queue)
    /\ LET r == Front(requests_queue) IN
       IF shutdown_called
       THEN Exit
       ELSE /\ IF r.op = "Read"
               THEN rpc' = "force" /\ read' = {r} /\ UNCHANGED batch
               ELSE /\ batch' = Append(batch, r)
                    /\ rpc' = IF Len(batch') <= max_requests_batch_size
                              THEN "collect" ELSE "force"
                    /\ UNCHANGED read
            /\ UNCHANGED << prev_batch, prev_result, dropped >>
    /\ UNCHANGED << responses_queue, raft, NotTheRequestThread >>

\* Results that are answered with ZOPERATIONTIMEOUT and with ZCONNECTIONLOSS.
ProcessResultBy(timed_out, lost) ==
    CASE prev_result \in timed_out ->
             addErrorResponses(prev_batch, "ZOPERATIONTIMEOUT")
      [] prev_result \in lost ->
             addErrorResponses(prev_batch, "ZCONNECTIONLOSS")
      [] OTHER -> UNCHANGED responses_queue

\* A faulty variant: whether the batch was accepted is not looked at.
processTimeouts == ProcessResultBy({"timeout"}, {"failed"})

\* A faulty variant: every result is taken for an error.
processAnyResult == ProcessResultBy({"rejected", "timeout"}, {"failed", "ok"})

\* What forceWaitAndProcessResult answers to the requests of the batch.
ProcessResult == ProcessResultBy({"rejected", "timeout"}, {"failed"})

\* The thread waits for the previous batch, when it has collected the next
\* one or has a read, or for the current batch, before a read.
forceWaitAndProcessResult ==
    /\ \/ rpc \in {"force", "forceRead"}
       \/ rpc = "collect" /\ ~shutdown_called
    /\ prev_result # "pending"
    /\ ResponsesBounded
    /\ ProcessResult
    /\ prev_result' = "null"
    /\ prev_batch' = << >>
    /\ rpc' = IF rpc # "forceRead" /\ batch # << >> THEN "put" ELSE "read"
    /\ UNCHANGED << batch, read, dropped, requests_queue, raft,
                    NotTheRequestThread >>

\* putRequestBatch has returned a result; with a read, the thread goes on at pc.
PutReturns(result, pc) ==
    /\ rpc = "put"
    /\ prev_batch' = batch
    /\ prev_result' = result
    /\ batch' = << >>
    /\ rpc' = IF read = {} THEN "pop" ELSE pc
    /\ UNCHANGED << read, dropped, queues, is_leader, expiries, sessions, dead,
                    NotTheRequestThread >>

\* Raft has room for the batch.
AppendToRaft ==
    /\ Len(raft_log) + Len(batch) <= MaxRaftLog
    /\ raft_log' = raft_log \o batch
    /\ UNCHANGED failures

\* A faulty variant: the read does not wait for the batch before it.
putAndRead == PutReturns("pending", "read") /\ AppendToRaft

\* Raft takes the batch; a read makes the thread wait for it at once.
PutAccepted == PutReturns("pending", "forceRead") /\ AppendToRaft

\* Raft does not accept the batch, for instance as there is no leader.
PutRejected ==
    /\ PutReturns("rejected", "forceRead")
    /\ MoreTrouble
    /\ failures' = failures + 1
    /\ UNCHANGED raft_log

\* There is no result at all.
PutReturnsNull ==
    /\ rpc = "put"
    /\ MoreTrouble
    /\ failures' = failures + 1
    /\ ResponsesBounded
    /\ addErrorResponses(batch, "ZCONNECTIONLOSS")
    /\ batch' = << >>
    /\ rpc' = IF read = {} THEN "pop" ELSE "read"
    /\ UNCHANGED << read, prev_batch, prev_result, dropped, requests_queue,
                    raft_log, is_leader, expiries, sessions, dead,
                    NotTheRequestThread >>

\* The read request, from the local state.
putLocalReadRequest ==
    /\ rpc = "read"
    /\ ResponsesBounded
    /\ \E r \in read :
        /\ PushResponses(<< Response(r, r.xid, "ZOK") >>)
        /\ dead' = dead \ {r.client}
    /\ read' = {}
    /\ rpc' = "pop"
    /\ UNCHANGED << batch, prev_batch, prev_result, dropped, requests_queue,
                    raft_log, is_leader, failures, expiries, sessions,
                    NotTheRequestThread >>

\* The leader is not alive.
ReadFails ==
    /\ rpc = "read"
    /\ MoreTrouble
    /\ failures' = failures + 1
    /\ ResponsesBounded
    /\ \E r \in read : addErrorResponses(<< r >>, "ZCONNECTIONLOSS")
    /\ read' = {}
    /\ rpc' = "pop"
    /\ UNCHANGED << batch, prev_batch, prev_result, dropped, requests_queue,
                    raft_log, is_leader, expiries, sessions, dead,
                    NotTheRequestThread >>

\* The entries of the batch cannot be made, or the read throws, which has
\* touched the session by then.  The exception is logged, and the batch and the
\* read are forgotten.
Caught ==
    /\ rpc \in {"put", "read"}
    /\ MoreTrouble
    /\ failures' = failures + 1
    /\ dropped' = dropped \cup Ids(batch) \cup read
    /\ dead' = IF rpc = "read" THEN dead \ {r.client : r \in read} ELSE dead
    /\ batch' = << >>
    /\ read' = {}
    /\ rpc' = "pop"
    /\ UNCHANGED << prev_batch, prev_result, queues, raft_log, is_leader,
                    expiries, sessions, NotTheRequestThread >>

\* With shutdown_called the loops end, also without another request.
RequestThreadExits ==
    /\ rpc \in {"pop", "collect"}
    /\ shutdown_called
    /\ Exit
    /\ UNCHANGED << queues, raft, NotTheRequestThread >>

requestThread ==
    \/ PopRequest \/ Collect \/ forceWaitAndProcessResult
    \/ PutAccepted \/ PutRejected \/ PutReturnsNull
    \/ putLocalReadRequest \/ ReadFails \/ Caught \/ RequestThreadExits

-----------------------------------------------------------------------------
(* responseThread *)

\* A response goes to its callback.
PopResponse ==
    /\ response_thread_alive
    /\ ~shutdown_called
    /\ CanPop(responses_queue)
    /\ responses_queue' = Pop(responses_queue)
    /\ setResponse(Front(responses_queue))
    /\ UNCHANGED << requests_queue, push_request_mutex, putting, accepted,
                    request_thread, raft, response_thread_alive, cleaner, stop >>

\* After shutdown_called the loop ends, and a response just popped is dropped.
ResponseThreadExits ==
    /\ response_thread_alive
    /\ shutdown_called
    /\ response_thread_alive' = FALSE
    /\ responses_queue' = [responses_queue EXCEPT !.queue = << >>]
    /\ UNCHANGED << tables, requests_queue, push_request_mutex, clients,
                    request_thread, raft, cleaner, stop >>

responseThread == PopResponse \/ ResponseThreadExits

-----------------------------------------------------------------------------
(* sessionCleanerTask *)

NotTheCleaner == << request_thread, raft, response_thread_alive, stop >>

\* The sessions to close, each once, in some order (at most MaxTrouble of
\* them have expired).
getDeadSessions ==
    {s \in UNION {[1 .. n -> dead] : n \in 1 .. MaxTrouble} :
        /\ Ids(s) = dead
        /\ \A i, j \in DOMAIN s : s[i] = s[j] => i = j}

\* A faulty variant: the cleaner does not look at shutdown_called.
wakeRegardless ==
    /\ cpc = "sleep"
    /\ is_leader /\ dead # {} /\ \A c \in dead : Spaced(CloseOf(c))
    /\ cpc' = "locking" /\ dead_sessions' \in getDeadSessions
    /\ UNCHANGED << tables, queues, push_request_mutex, clients, NotTheCleaner >>

\* A round begins, unless shutdown_called.  Only the leader looks for dead
\* sessions, and it looks once: the round goes on when it leads no more.
CleanerWakes ==
    /\ cpc = "sleep"
    /\ \/ shutdown_called
       \/ is_leader /\ dead # {} /\ \A c \in dead : Spaced(CloseOf(c))
    /\ IF shutdown_called
       THEN cpc' = "exited" /\ UNCHANGED dead_sessions
       ELSE cpc' = "locking" /\ dead_sessions' \in getDeadSessions
    /\ UNCHANGED << tables, queues, push_request_mutex, clients, NotTheCleaner >>

\* A faulty variant: the mutex is not taken.
pushUnlocked ==
    /\ cpc \in {"pushing", "locking"}
    /\ CanEmplace(requests_queue, max_requests_batch_size)
    /\ requests_queue' = Emplace(requests_queue, CloseOf(Head(dead_sessions)))
    /\ cpc' = "finishing"
    /\ UNCHANGED << tables, responses_queue, push_request_mutex, clients,
                    dead_sessions, NotTheCleaner >>

\* The Close request of a dead session, pushed under the mutex.
CleanerPushes ==
    /\ cpc = "pushing" \/ (cpc = "locking" /\ push_request_mutex = {})
    /\ CanEmplace(requests_queue, max_requests_batch_size)
    /\ requests_queue' = Emplace(requests_queue, CloseOf(Head(dead_sessions)))
    /\ push_request_mutex' = {}
    /\ cpc' = "finishing"
    /\ UNCHANGED << tables, responses_queue, clients, dead_sessions,
                    NotTheCleaner >>

\* A faulty variant: the mutex is taken from whoever holds it.
waitUnlocked ==
    /\ cpc = "locking"
    /\ ~CanEmplace(requests_queue, max_requests_batch_size)
    /\ push_request_mutex' = {"cleaner"}
    /\ cpc' = "pushing"
    /\ UNCHANGED << tables, queues, clients, dead_sessions,
                    NotTheCleaner >>

\* There is no room: it waits, without a timeout, with the mutex.
CleanerWaitsForRoom ==
    /\ cpc = "locking"
    /\ push_request_mutex = {}
    /\ ~CanEmplace(requests_queue, max_requests_batch_size)
    /\ push_request_mutex' = {"cleaner"}
    /\ cpc' = "pushing"
    /\ UNCHANGED << tables, queues, clients, dead_sessions,
                    NotTheCleaner >>

\* finishSession, and the next session of the list; after the last, pc.
FinishThen(pc) ==
    /\ cpc = "finishing"
    /\ finishSession(Head(dead_sessions))
    /\ dead_sessions' = Tail(dead_sessions)
    /\ cpc' = IF Len(dead_sessions) = 1 THEN pc ELSE "locking"
    /\ UNCHANGED << new_session_id_response_callback, queues,
                    push_request_mutex, clients, NotTheCleaner >>

\* A faulty variant: there is only one round.
cleanOnce == FinishThen("exited")

CleanerFinishes == FinishThen("sleep")

sessionCleanerTask ==
    CleanerWakes \/ CleanerPushes \/ CleanerWaitsForRoom \/ CleanerFinishes

-----------------------------------------------------------------------------
(* shutdown *)

\* Everything up to the first join, under push_request_mutex.
BeginShutdown ==
    /\ spc = "no"
    /\ MoreTrouble
    /\ push_request_mutex = {}
    /\ push_request_mutex' = {"shutdown"}
    /\ shutdown_called' = TRUE
    /\ spc' = "joinCleaner"
    /\ UNCHANGED << tables, queues, clients, request_thread, raft,
                    response_thread_alive, cleaner >>

JoinCleaner ==
    /\ spc = "joinCleaner"
    /\ cpc = "exited"
    /\ requests_queue' = finish(requests_queue)
    /\ spc' = "joinRequests"
    /\ UNCHANGED << tables, responses_queue, push_request_mutex, clients,
                    request_thread, raft, response_thread_alive, cleaner,
                    shutdown_called >>

JoinRequestThread ==
    /\ spc = "joinRequests"
    /\ rpc = "exited"
    /\ responses_queue' = finish(responses_queue)
    /\ spc' = "joinResponses"
    /\ UNCHANGED << tables, requests_queue, push_request_mutex, clients,
                    request_thread, raft, response_thread_alive, cleaner,
                    shutdown_called >>

JoinResponseThread ==
    /\ spc = "joinResponses"
    /\ ~response_thread_alive
    /\ spc' = "joinSnapshots"
    /\ UNCHANGED << tables, queues, push_request_mutex, clients,
                    request_thread, raft, response_thread_alive, cleaner,
                    shutdown_called >>

\* snapshots_queue is finished.  snapshotThread, which takes no lock of these
\* threads, ends when it has written what it is at.
JoinSnapshotThread ==
    /\ spc = "joinSnapshots"
    /\ spc' = "joinConfiguration"
    /\ UNCHANGED << tables, queues, push_request_mutex, clients,
                    request_thread, raft, response_thread_alive, cleaner,
                    shutdown_called >>

\* So is update_configuration_queue, and updateConfigurationThread sees
\* shutdown_called.  The mutex is given back, and Raft is shut down.
JoinUpdateConfigurationThread ==
    /\ spc = "joinConfiguration"
    /\ push_request_mutex' = {}
    /\ spc' = "drain"
    /\ UNCHANGED << tables, queues, clients, request_thread, raft,
                    response_thread_alive, cleaner, shutdown_called >>

\* The requests left in the queue expire.  The xid is not copied.
ExpirePending ==
    /\ spc = "drain"
    /\ CanPop(requests_queue)
    /\ requests_queue' = Pop(requests_queue)
    /\ setResponse(Response(Front(requests_queue), 0, "ZSESSIONEXPIRED"))
    /\ UNCHANGED << responses_queue, push_request_mutex, putting, accepted,
                    request_thread, raft, response_thread_alive, cleaner, stop >>

EndShutdown ==
    /\ spc = "drain"
    /\ ~CanPop(requests_queue)
    /\ session_to_response_callback' = {}
    /\ spc' = "down"
    /\ UNCHANGED << new_session_id_response_callback, queues,
                    push_request_mutex, clients, request_thread, raft,
                    response_thread_alive, cleaner, shutdown_called >>

shutdown ==
    \/ JoinCleaner \/ JoinRequestThread \/ JoinResponseThread
    \/ JoinSnapshotThread \/ JoinUpdateConfigurationThread
    \/ ExpirePending \/ EndShutdown

-----------------------------------------------------------------------------
(* Raft and the storage, as the dispatcher sees them *)

RaftRuns == spc \notin {"drain", "down"}

NotRaft ==
    << tables, push_request_mutex, clients, rpc, batch, read, prev_batch,
       dropped, response_thread_alive, cleaner, stop >>

\* The state machine commits the next entry and pushes its response.
commit ==
    /\ RaftRuns
    /\ raft_log # << >>
    /\ ResponsesBounded
    /\ LET r == Head(raft_log) IN
       /\ PushResponses(<< Response(r, r.xid, "ZOK") >>)
       /\ sessions' = CASE r.op = "SessionID" -> sessions \cup {r.client}
                        [] r.op = "Close" -> sessions \ {r.client}
                        [] OTHER -> sessions
       /\ dead' = dead \ {r.client}
    /\ raft_log' = Tail(raft_log)
    /\ UNCHANGED << requests_queue, prev_result, is_leader, failures, expiries,
                    NotRaft >>

\* The entries of a batch are committed, and Raft sets its result.
ResultIsSet ==
    /\ RaftRuns
    /\ prev_result = "pending"
    /\ Ids(prev_batch) \cap Ids(raft_log) = {}
    /\ prev_result' = "ok"
    /\ UNCHANGED << queues, raft, NotRaft >>

\* The batch is not committed in time.  It may be later.
ResultTimesOut ==
    /\ RaftRuns
    /\ prev_result = "pending"
    /\ MoreTrouble
    /\ failures' = failures + 1
    /\ prev_result' = "timeout"
    /\ UNCHANGED << queues, raft_log, is_leader, expiries, sessions, dead,
                    NotRaft >>

\* The server is no longer the leader: the new one has the entries or not.
LoseLeadership ==
    /\ RaftRuns
    /\ is_leader
    /\ MoreTrouble
    /\ is_leader' = FALSE
    /\ failures' = failures + 1
    /\ raft_log' \in {<< >>, raft_log}
    /\ prev_result' = IF prev_result = "pending" THEN "failed" ELSE prev_result
    /\ UNCHANGED << queues, expiries, sessions, dead, NotRaft >>

\* The server is elected.
BecomeLeader ==
    /\ RaftRuns
    /\ ~is_leader
    /\ is_leader' = TRUE
    /\ UNCHANGED << queues, raft_log, failures, expiries, sessions, dead,
                    prev_result, NotRaft >>

\* The session timeout passes without a request of the session.  (After
\* shutdown_called, nobody asks for the dead sessions.)
SessionExpires(c) ==
    /\ ~shutdown_called
    /\ c \in sessions \ dead
    /\ MoreTrouble
    /\ expiries' = expiries + 1
    /\ dead' = dead \cup {c}
    /\ UNCHANGED << queues, raft_log, is_leader, failures, sessions, prev_result,
                    NotRaft >>

-----------------------------------------------------------------------------
Init ==
    /\ session_to_response_callback = {}
    /\ new_session_id_response_callback = {}
    /\ push_request_mutex = {}
    /\ requests_queue = NewQueue
    /\ responses_queue = NewQueue
    /\ shutdown_called = FALSE
    /\ phase = [c \in Client |-> "new"]
    /\ putting = [c \in Client |-> {}]
    /\ accepted = [c \in Client |-> 0]
    /\ received = [c \in Client |-> << >>]
    /\ rpc = "pop"
    /\ batch = << >>
    /\ read = {}
    /\ prev_batch = << >>
    /\ prev_result = "null"
    /\ dropped = {}
    /\ raft_log = << >>
    /\ is_leader \in BOOLEAN
    /\ failures = 0
    /\ expiries = 0
    /\ sessions = {}
    /\ dead = {}
    /\ response_thread_alive = TRUE
    /\ cpc = "sleep"
    /\ dead_sessions = << >>
    /\ spc = "no"

Connection(c) ==
    \/ getSessionID(c) \/ registerSession(c) \/ SessionIDTimeout(c)
    \/ \E r \in NextRequests(c) : putRequest(c, r)
    \/ PushRequest(c) \/ WaitForRoom(c) \/ PutFails(c) \/ Disconnect(c)

Raft ==
    \/ commit \/ ResultIsSet \/ ResultTimesOut
    \/ LoseLeadership \/ BecomeLeader
    \/ \E c \in Client : SessionExpires(c)

Next ==
    \/ \E c \in Client : Connection(c)
    \/ requestThread
    \/ responseThread
    \/ sessionCleanerTask
    \/ Raft
    \/ BeginShutdown
    \/ shutdown

\* A connection that waits for the mutex or for room gets on, and one that
\* waits for an answer sends heartbeats.
ConnectionGoesOn(c) ==
    \/ PushRequest(c) \/ WaitForRoom(c) \/ PutFails(c)
    \/ MayBeat(c) /\ putRequest(c, HeartbeatOf(c))

(***************************************************************************)
(* The threads run whenever they can, Raft commits what it has accepted,   *)
(* and a connection carries on with a call it has begun.  Nobody has to    *)
(* send another request, to break a connection, to shut down, no session   *)
(* has to expire and no server to be elected.  The mutex is not assumed to *)
(* be fair.                                                                *)
(***************************************************************************)
Fairness ==
    /\ WF_vars(requestThread)
    /\ WF_vars(responseThread)
    /\ WF_vars(sessionCleanerTask)
    /\ WF_vars(commit \/ ResultIsSet)
    /\ WF_vars(shutdown)
    /\ \A c \in Client : WF_vars(ConnectionGoesOn(c))

Spec == Init /\ [][Next]_vars /\ Fairness

-----------------------------------------------------------------------------
Joining ==
    {"joinCleaner", "joinRequests", "joinResponses", "joinSnapshots",
     "joinConfiguration"}

Phases ==
    {"new", "locking", "pushing", "waiting", "ready", "idle", "closed", "gone"}

\* The variables have their types; requests_queue holds no more than the setting
\* max_requests_batch_size, and a batch at most one request more.
TypeOK ==
    /\ session_to_response_callback \subseteq Client
    /\ new_session_id_response_callback \subseteq Client
    /\ push_request_mutex \subseteq Client \cup {"cleaner", "shutdown"}
    /\ Ids(requests_queue.queue) \subseteq Request
    /\ Ids(responses_queue.queue) \subseteq
           [client : Client, xid : 0 .. CloseXid, op : Ops, error : Errors]
    /\ {requests_queue.is_finished, responses_queue.is_finished} \subseteq BOOLEAN
    /\ Len(requests_queue.queue) <= max_requests_batch_size
    /\ Len(batch) <= max_requests_batch_size + 1
    /\ phase \in [Client -> Phases]
    /\ \A c \in Client :
        /\ putting[c] \subseteq Request
        /\ phase[c] \in {"locking", "pushing"} <=> \E r \in Request : putting[c] = {r}
    /\ accepted \in [Client -> 0 .. MaxXid]
    /\ received \in [Client -> Seq([xid : 0 .. CloseXid, error : Errors])]
    /\ Ids(batch) \cup Ids(prev_batch) \cup dropped \subseteq Request
    /\ rpc \in {"pop", "collect", "force", "put", "forceRead", "read", "exited"}
    /\ read = {} \/ \E r \in Request : read = {r}
    /\ prev_result \in {"null", "pending", "ok", "rejected", "timeout", "failed"}
    /\ Ids(raft_log) \subseteq Request
    /\ {failures, expiries} \subseteq 0 .. MaxTrouble
    /\ dead \subseteq sessions /\ sessions \subseteq Client
    /\ cpc \in {"sleep", "locking", "pushing", "finishing", "exited"}
    /\ dead_sessions \in Seq(Client)
    /\ spc \in Joining \cup {"no", "drain", "down"}
    /\ {shutdown_called, response_thread_alive, is_leader} \subseteq BOOLEAN

\* push_request_mutex is held by exactly whoever is inside it: a connection
\* or the session cleaner that waits for room in the queue, or shutdown() from
\* its beginning until the threads are joined.  So the requests of a session
\* enter the queue in order, and no step is in the middle of a push when
\* shutdown() finishes the queue.
MutexExclusive ==
    /\ \A c \in Client : phase[c] = "pushing" <=> push_request_mutex = {c}
    /\ cpc = "pushing" <=> push_request_mutex = {"cleaner"}
    /\ spc \in Joining <=> push_request_mutex = {"shutdown"}

\* Without a failure of Raft a client gets the answers to its requests in
\* the order of the requests, one for each and none left out, although reads
\* bypass Raft: only the Close of the session cleaner and the expiry at
\* shutdown come in between, and nothing follows them but such answers.
AnswersInOrder ==
    failures = 0 =>
        \A c \in Client : \A i \in DOMAIN received[c] :
            LET r == received[c][i] IN
            \/ r.xid = i /\ r.error = "ZOK"
            \/ r.xid = CloseXid /\ i = Len(received[c])
            \/ r.error = "ZSESSIONEXPIRED"

\* When requestThread executes a read of a connected session, no write that
\* the session sent before waits in Raft, unless the session is told, before
\* it sees what it read, that this write failed.
ReadsSeeOwnWrites ==
    rpc = "read" /\ ~shutdown_called =>
        \A r \in {r \in read : r.client \in session_to_response_callback} :
        \A w \in Ids(raft_log) :
            (w.client = r.client /\ w.xid \in 1 .. r.xid - 1) =>
                \/ \E a \in Ids(received[r.client]) :
                       a.xid = w.xid /\ a.error # "ZOK"
                \/ \E a \in Ids(responses_queue.queue) :
                       a.xid = w.xid /\ a.client = w.client /\ a.error # "ZOK"

AllAnswered(c) ==
    \A x \in 1 .. accepted[c] :
        Answered(c, x) \/ \E r \in dropped : r.client = c /\ r.xid = x

\* Every request that putRequest accepts is answered, as long as the client
\* stays connected and the server is not shut down: also when Raft refused or
\* lost the batch, whose error only the next request brings to light.  All but
\* those that the catch (...) of requestThread only logs.
RequestsAnswered ==
    \A c \in Client :
        ~AllAnswered(c) ~>
            \/ AllAnswered(c) \/ c \notin session_to_response_callback
            \/ phase[c] = "closed" \/ shutdown_called

\* A session whose time is up is closed, unless a request of it comes in
\* after all: also when Raft loses a Close request or requestThread forgets it,
\* as the cleaner repeats it.  It does so as long as the server is the leader.
ExpiredSessionsClosed ==
    \A c \in Client :
        c \in dead ~> c \notin dead \/ shutdown_called \/ ~is_leader

\* shutdown() holds the mutex that the session cleaner waits for, and waits
\* for the session cleaner.
CleanerStuck == spc = "joinCleaner" /\ cpc = "locking"

\* No step of any thread, connection or of Raft resolves it: the wait of
\* shutdown() for the cleaner and of the cleaner for the mutex is a deadlock.
StuckForever == [][CleanerStuck => CleanerStuck']_vars

\* shutdown() ends.
ShutdownFinishes == shutdown_called ~> spc = "down"

\* shutdown() ends, unless it met the session cleaner about to push: the
\* threads it joins all see shutdown_called, and no other one keeps the mutex.
ShutdownFinishesUnlessStuck == shutdown_called ~> spc = "down" \/ CleanerStuck
=============================================================================
