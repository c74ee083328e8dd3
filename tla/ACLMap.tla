------------------------------- MODULE ACLMap -------------------------------
(***************************************************************************)
(* The table that gives every distinct ACL list a number, so that a node   *)
(* stores the number only (src/Coordination/ACLMap.cpp).  The operators    *)
(* take the table m and return the table after the call.                   *)
(*                                                                         *)
(* An ACL list is any value; NoACL is the empty list, which always has the *)
(* number 0 and needs no entry.                                            *)
(***************************************************************************)
EXTENDS Integers, Maps

CONSTANT NoACL

EmptyACLMap ==
    [num_to_acl |-> <<>>, acl_to_num |-> <<>>, usage_counter |-> <<>>,
     max_acl_id |-> 1]

\* The number of acls: the existing one, or the next free one.
ACLNumber(m, acls) ==
    IF acls = NoACL THEN 0 ELSE Get(m.acl_to_num, acls, m.max_acl_id)

\* The table after ACLNumber was asked for acls.
convertACLs(m, acls) ==
    IF acls = NoACL \/ acls \in DOMAIN m.acl_to_num
    THEN m
    ELSE [m EXCEPT !.acl_to_num = Put(@, acls, m.max_acl_id),
                   !.num_to_acl = Put(@, m.max_acl_id, acls),
                   !.max_acl_id = @ + 1]

\* convertNumber(id) finds a list; otherwise it throws "Unknown ACL id".
KnownACL(m, id) == id = 0 \/ id \in DOMAIN m.num_to_acl

convertNumber(m, id) == IF id = 0 THEN NoACL ELSE m.num_to_acl[id]

\* A second user is not counted.
addUsageOnce(m, id) == [m EXCEPT !.usage_counter = Put(@, id, 1)]

addUsage(m, id) ==
    [m EXCEPT !.usage_counter = Put(@, id, Get(@, id, 0) + 1)]

\* The counter of an unused number stays at zero.
keepZeroUsage(m, id) ==
    [m EXCEPT !.usage_counter = Put(@, id, Get(@, id, 1) - 1)]

\* The last user takes the numbering with it.
removeUsage(m, id) ==
    IF id \notin DOMAIN m.usage_counter
    THEN m
    ELSE IF m.usage_counter[id] # 1
    THEN [m EXCEPT !.usage_counter[id] = @ - 1]
    ELSE [m EXCEPT !.usage_counter = Drop(@, id),
                   !.num_to_acl = Drop(@, id),
                   !.acl_to_num = Drop(@, Get(m.num_to_acl, id, NoACL))]
=============================================================================
