------------------------- MODULE SessionExpiryQueue -------------------------
(***************************************************************************)
(* The queue of Keeper sessions ordered by expiry time                     *)
(* (src/Coordination/SessionExpiryQueue.h and .cpp).  A session is kept in *)
(* two maps: its rounded expiry time, and the bucket of all sessions that  *)
(* expire at that time.  remove() and addNewSessionOrUpdate() dereference  *)
(* the bucket without checking that it was found, so the two maps must     *)
(* mirror each other after every call.                                     *)
(*                                                                         *)
(* The clock is the only input besides the callers.  It is modelled as an  *)
(* integer that any step may set.                                          *)
(***************************************************************************)
EXTENDS Integers, Maps

CONSTANTS
    Session,               \* ids the callers use
    Timeout,               \* values of timeout_ms they pass
    expiration_interval,   \* width of a bucket
    MaxTime                \* bound: the last reading of the clock

ASSUME IntervalAssumption == expiration_interval \in Nat \ {0}

ASSUME TimeoutAssumption == Timeout \subseteq Nat

ASSUME MaxTimeAssumption == MaxTime \in Nat

VARIABLES
    now,                          \* getNowMilliseconds()
    session_to_expiration_time,   \* session -> key of its bucket
    expiry_to_sessions,           \* bucket key -> sessions in it
    deadline                      \* history: session -> last touch + timeout

vars == <<now, session_to_expiration_time, expiry_to_sessions, deadline>>

registered == DOMAIN session_to_expiration_time

\* The two maps of SessionExpiryQueue and the clock have their types.
TypeOK ==
    /\ now \in Nat
    /\ registered \subseteq Session
    /\ session_to_expiration_time \in [registered -> Nat]
    /\ DOMAIN expiry_to_sessions \subseteq Nat
    /\ expiry_to_sessions
           \in [DOMAIN expiry_to_sessions -> SUBSET Session]
    /\ deadline \in [registered -> Nat]

Init ==
    /\ now = 0
    /\ session_to_expiration_time = <<>>
    /\ expiry_to_sessions = <<>>
    /\ deadline = <<>>

-----------------------------------------------------------------------------
(***************************************************************************)
(* A definition in lower camel case that no other definition uses is a     *)
(* faulty variant of the definition after it: the runs check that it       *)
(* breaks the property the variant is listed with.                         *)
(***************************************************************************)

roundDown(time) ==
    (time \div expiration_interval) * expiration_interval

roundTwice(time) ==
    (time \div expiration_interval + 2) * expiration_interval

\* Round time to the next expiration interval.
roundToNextInterval(time) ==
    (time \div expiration_interval + 1) * expiration_interval

\* The buckets with session s put into bucket t, created if it is missing.
AddToBucket(buckets, s, t) ==
    Put(buckets, t,
        Get(buckets, t, {}) \cup {s})

keepEmptyBucket(buckets, s, t) == Put(buckets, t, buckets[t] \ {s})

\* The buckets with s taken out of bucket t, dropped once it is empty.
RemoveFromBucket(buckets, s, t) ==
    IF buckets[t] \ {s} = {}
    THEN Drop(buckets, t)
    ELSE Put(buckets, t, buckets[t] \ {s})

-----------------------------------------------------------------------------
remove(s) ==
    /\ s \in registered
    /\ expiry_to_sessions' =
           RemoveFromBucket(expiry_to_sessions, s,
                            session_to_expiration_time[s])
    /\ session_to_expiration_time' = Drop(session_to_expiration_time, s)
    /\ deadline' = Drop(deadline, s)
    /\ UNCHANGED now

addNewSessionOrUpdate(s, timeout_ms) ==
    LET new_expiry_time == roundToNextInterval(now + timeout_ms)
        added == AddToBucket(expiry_to_sessions, s, new_expiry_time)
    IN  /\ session_to_expiration_time' =
               Put(session_to_expiration_time, s, new_expiry_time)
        /\ expiry_to_sessions' =
               IF s \notin registered
               THEN added
               ELSE IF new_expiry_time = session_to_expiration_time[s]
               THEN expiry_to_sessions
               ELSE RemoveFromBucket(added, s, session_to_expiration_time[s])
        /\ deadline' = Put(deadline, s, now + timeout_ms)
        /\ UNCHANGED now

clearBucketsOnly ==
    /\ expiry_to_sessions' = <<>>
    /\ deadline' = <<>>
    /\ UNCHANGED <<now, session_to_expiration_time>>

clear ==
    /\ session_to_expiration_time' = <<>>
    /\ expiry_to_sessions' = <<>>
    /\ deadline' = <<>>
    /\ UNCHANGED now

\* The loop over the ordered map stops at the first bucket still ahead, so it
\* returns the sessions of every bucket whose key has been reached.
getExpiredSessions ==
    UNION {expiry_to_sessions[t] :
              t \in {u \in DOMAIN expiry_to_sessions : u <= now}}

\* system_clock is not steady: it advances, and it may be set back.
Tick(time) ==
    /\ now' = time
    /\ UNCHANGED <<session_to_expiration_time, expiry_to_sessions, deadline>>

Next ==
    \/ \E s \in Session : remove(s)
    \/ \E s \in Session, t \in Timeout : addNewSessionOrUpdate(s, t)
    \/ clear
    \/ \E time \in 0 .. MaxTime : Tick(time)

Spec == Init /\ [][Next]_vars

-----------------------------------------------------------------------------
\* The two maps describe the same assignment of sessions to buckets and no
\* bucket is empty.  remove() and addNewSessionOrUpdate() use the iterator of
\* a bucket without testing it (SessionExpiryQueue.cpp:17 and :58): this is
\* what makes the bucket always exist.
BucketsMirror ==
    /\ \A s \in registered :
           /\ session_to_expiration_time[s] \in DOMAIN expiry_to_sessions
           /\ s \in expiry_to_sessions[session_to_expiration_time[s]]
    /\ \A t \in DOMAIN expiry_to_sessions :
           /\ expiry_to_sessions[t] # {}
           /\ \A s \in expiry_to_sessions[t] :
                  /\ s \in registered
                  /\ session_to_expiration_time[s] = t

\* getExpiredSessions() never reports a session whose timeout has not fully
\* passed since its last touch.
NeverExpiredEarly ==
    \A s \in getExpiredSessions : deadline[s] < now

\* Rounding delays the report of a silent session by at most one interval:
\* getExpiredSessions() stops at the first bucket that is still ahead, and no
\* overdue session hides in a later one.
ExpiredWithinInterval ==
    \A s \in registered :
        deadline[s] + expiration_interval <= now => s \in getExpiredSessions
=============================================================================
