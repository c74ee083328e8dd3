---------------------- MODULE SessionExpiryQueueProofs ----------------------
(***************************************************************************)
(* Proofs about SessionExpiryQueue for every set of sessions, every set of *)
(* timeouts and every width of the buckets.                                *)
(***************************************************************************)
EXTENDS SessionExpiryQueue, TLAPS

\* Rounding moves a time strictly forward, by at most one interval.
LEMMA RoundingBounds ==
    ASSUME NEW t \in Nat
    PROVE  /\ roundToNextInterval(t) \in Nat
           /\ t < roundToNextInterval(t)
           /\ roundToNextInterval(t) <= t + expiration_interval
<1> DEFINE I == expiration_interval
           q == t \div I
<1>1. I \in Nat /\ I > 0
  BY IntervalAssumption
<1>2. q \in Nat /\ t = I * q + (t % I) /\ t % I \in 0 .. I - 1
  BY <1>1
<1> HIDE DEF q
<1>3. (q + 1) * I = I * q + I
  BY <1>1, <1>2
<1>4. I * q \in Nat
  BY <1>1, <1>2
<1>5. QED
  BY <1>1, <1>2, <1>3, <1>4 DEF roundToNextInterval, q

-----------------------------------------------------------------------------
\* A registered session sits in the bucket its deadline rounds to.
DeadlineRounded ==
    \A s \in registered :
        session_to_expiration_time[s] = roundToNextInterval(deadline[s])

\* The inductive invariant.
IInv == TypeOK /\ BucketsMirror /\ DeadlineRounded

\* The constructor's empty maps satisfy it.
LEMMA InitEstablishes == Init => IInv
  BY DEF Init, IInv, TypeOK, BucketsMirror, DeadlineRounded, registered

\* Removal of one session keeps the two maps in step.
LEMMA RemovePreserves ==
    ASSUME IInv, NEW s \in Session, remove(s)
    PROVE  IInv'
  BY DEF IInv, TypeOK, BucketsMirror, DeadlineRounded, registered, remove,
         RemoveFromBucket, Put, Drop

\* Adding a session, or moving it to the bucket of its new expiry time, keeps
\* the two maps in step.
LEMMA AddPreserves ==
    ASSUME IInv, NEW s \in Session, NEW t \in Timeout,
           addNewSessionOrUpdate(s, t)
    PROVE  IInv'
<1> DEFINE e == roundToNextInterval(now + t)
<1>1. now + t \in Nat
  BY TimeoutAssumption DEF IInv, TypeOK
<1>2. e \in Nat
  BY <1>1, RoundingBounds
<1> HIDE DEF e
<1>3. CASE s \notin registered
  BY <1>1, <1>2, <1>3, SMTT(30)
     DEF IInv, TypeOK, BucketsMirror, DeadlineRounded, registered,
         addNewSessionOrUpdate, AddToBucket, Put, Get, e
<1>4. CASE s \in registered /\ e = session_to_expiration_time[s]
  BY <1>1, <1>2, <1>4
     DEF IInv, TypeOK, BucketsMirror, DeadlineRounded, registered,
         addNewSessionOrUpdate, Put, e
<1>5. CASE s \in registered /\ e # session_to_expiration_time[s]
  <2> DEFINE p == session_to_expiration_time[s]
             added == AddToBucket(expiry_to_sessions, s, e)
  <2>1. /\ session_to_expiration_time' = Put(session_to_expiration_time, s, e)
        /\ expiry_to_sessions' = RemoveFromBucket(added, s, p)
        /\ deadline' = Put(deadline, s, now + t)
        /\ now' = now
    BY <1>5 DEF addNewSessionOrUpdate, e
  <2>2. p \in DOMAIN expiry_to_sessions /\ p \in Nat /\ p # e
    BY <1>5 DEF IInv, TypeOK, BucketsMirror, registered
  <2>3. /\ DOMAIN added = DOMAIN expiry_to_sessions \cup {e}
        /\ added[e] = Get(expiry_to_sessions, e, {}) \cup {s}
        /\ \A u \in DOMAIN expiry_to_sessions \ {e} :
               added[u] = expiry_to_sessions[u]
    BY DEF AddToBucket, Put
  <2> HIDE DEF added
  <2>4. /\ DOMAIN expiry_to_sessions' =
               IF expiry_to_sessions[p] \ {s} = {}
               THEN (DOMAIN expiry_to_sessions \cup {e}) \ {p}
               ELSE DOMAIN expiry_to_sessions \cup {e}
        /\ expiry_to_sessions'[e] = Get(expiry_to_sessions, e, {}) \cup {s}
        /\ expiry_to_sessions[p] \ {s} # {} =>
               expiry_to_sessions'[p] = expiry_to_sessions[p] \ {s}
        /\ \A u \in DOMAIN expiry_to_sessions \ {e, p} :
               expiry_to_sessions'[u] = expiry_to_sessions[u]
    BY <2>1, <2>2, <2>3 DEF RemoveFromBucket, Put, Drop
  <2>5. TypeOK'
    <3>1. expiry_to_sessions' =
              [u \in DOMAIN expiry_to_sessions' |-> expiry_to_sessions'[u]]
      BY <2>1 DEF RemoveFromBucket, Put, Drop
    <3>2. \A u \in DOMAIN expiry_to_sessions' :
              u \in Nat /\ expiry_to_sessions'[u] \in SUBSET Session
      BY <1>2, <2>2, <2>4 DEF IInv, TypeOK, Get
    <3>3. QED
      BY <1>1, <1>2, <2>1, <3>1, <3>2, <1>5
         DEF IInv, TypeOK, registered, Put
  <2>6. BucketsMirror'
    BY <1>5, <2>1, <2>2, <2>4 DEF IInv, BucketsMirror, registered, Put, Get
  <2>7. DeadlineRounded'
    BY <1>5, <2>1 DEF IInv, TypeOK, DeadlineRounded, registered, Put, e
  <2>8. QED
    BY <2>5, <2>6, <2>7 DEF IInv
<1>6. QED
  BY <1>3, <1>4, <1>5

\* Every call and every reading of the clock preserves it.
LEMMA NextPreserves == IInv /\ [Next]_vars => IInv'
<1> SUFFICES ASSUME IInv, [Next]_vars PROVE IInv'
  OBVIOUS
<1>1. CASE \E s \in Session : remove(s)
  BY <1>1, RemovePreserves
<1>2. CASE \E s \in Session, t \in Timeout : addNewSessionOrUpdate(s, t)
  BY <1>2, AddPreserves
<1>3. CASE clear
  BY <1>3 DEF IInv, TypeOK, BucketsMirror, DeadlineRounded, registered, clear
<1>4. CASE \E time \in 0 .. MaxTime : Tick(time)
  BY <1>4, MaxTimeAssumption
     DEF IInv, TypeOK, BucketsMirror, DeadlineRounded, registered, Tick
<1>5. CASE UNCHANGED vars
  BY <1>5 DEF IInv, TypeOK, BucketsMirror, DeadlineRounded, registered, vars
<1>6. QED
  BY <1>1, <1>2, <1>3, <1>4, <1>5 DEF Next

\* It holds after every sequence of calls.
LEMMA Invariance == Spec => []IInv
  BY InitEstablishes, NextPreserves, PTL DEF Spec

\* The types of the maps are kept by every call.
THEOREM TypeCorrect == Spec => []TypeOK
  BY Invariance, PTL DEF IInv

\* remove() and addNewSessionOrUpdate() always find the bucket they
\* dereference unchecked, and no empty bucket is left behind.
THEOREM BucketsAlwaysMirror == Spec => []BucketsMirror
  BY Invariance, PTL DEF IInv

\* getExpiredSessions() reports no session before its timeout has passed
\* since its last request: the rounding is never downwards.
THEOREM NoEarlyExpiry == Spec => []NeverExpiredEarly
<1>1. ASSUME IInv PROVE NeverExpiredEarly
  <2> SUFFICES ASSUME NEW s \in getExpiredSessions PROVE deadline[s] < now
    BY DEF NeverExpiredEarly
  <2>1. PICK t \in DOMAIN expiry_to_sessions :
            t <= now /\ s \in expiry_to_sessions[t]
    BY DEF getExpiredSessions
  <2>2. /\ s \in registered
        /\ deadline[s] \in Nat
        /\ t = roundToNextInterval(deadline[s])
    BY <1>1, <2>1 DEF IInv, BucketsMirror, DeadlineRounded, TypeOK
  <2>3. QED
    BY <1>1, <2>1, <2>2, RoundingBounds DEF IInv, TypeOK
<1>2. QED
  BY <1>1, Invariance, PTL

\* getExpiredSessions() reports every session at most one interval after its
\* timeout, for every interval and every timeout.
THEOREM ExpiryIsTimely == Spec => []ExpiredWithinInterval
<1>1. ASSUME IInv PROVE ExpiredWithinInterval
  <2> SUFFICES ASSUME NEW s \in registered,
                      deadline[s] + expiration_interval <= now
               PROVE  s \in getExpiredSessions
    BY DEF ExpiredWithinInterval
  <2> DEFINE t == session_to_expiration_time[s]
  <2>1. t \in DOMAIN expiry_to_sessions /\ s \in expiry_to_sessions[t]
    BY <1>1 DEF IInv, BucketsMirror
  <2>2. t = roundToNextInterval(deadline[s]) /\ deadline[s] \in Nat
    BY <1>1 DEF IInv, DeadlineRounded, TypeOK
  <2>3. t <= now
    BY <1>1, <2>2, RoundingBounds, IntervalAssumption DEF IInv, TypeOK
  <2>4. QED
    BY <2>1, <2>3 DEF getExpiredSessions
<1>2. QED
  BY <1>1, Invariance, PTL
=============================================================================
