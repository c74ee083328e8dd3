--------------------------- MODULE MCKeeperStorage ---------------------------
(***************************************************************************)
(* Instances of KeeperStorage for TLC.  Every run draws the clients'       *)
(* requests from a set of its own.                                         *)
(***************************************************************************)
EXTENDS KeeperStorage

CONSTANTS a, b, alice

A  == <<a>>
AB == <<a, b>>
\* The first sequential child of /a named b.
AB0 == <<a, SeqName(b, 0)>>

create(path, is_ephemeral, is_sequential, acls) ==
    [op |-> "Create", path |-> path, is_ephemeral |-> is_ephemeral,
     is_sequential |-> is_sequential, acls |-> acls]
persistent(path) == create(path, FALSE, FALSE, {})
ephemeral(path)  == create(path, TRUE, FALSE, {})
sequential(path) == create(path, TRUE, TRUE, {})
versioned(op, path, version) ==
    [op |-> op, path |-> path, version |-> version]
removal(path) == versioned("Remove", path, -1)
set(path)     == versioned("Set", path, -1)
check(path)   == versioned("Check", path, -1)
read(op, path, has_watch) ==
    [op |-> op, path |-> path, has_watch |-> has_watch]
batch(requests) == [op |-> "Multi", requests |-> requests]

acl(scheme, permissions) ==
    [scheme |-> scheme, id |-> alice, permissions |-> permissions]
everyRight  == {acl("digest", Permission)}
ownersRight == {acl("auth", Permission)}

\* Sessions, ephemeral and sequential nodes, watches.
SessionRequests ==
    {persistent(A), ephemeral(A), ephemeral(AB), sequential(AB), removal(A),
     removal(AB), read("Exists", AB, TRUE), read("List", A, TRUE)}

\* Multi requests that fail at different places, and single ones between them.
MultiRequests ==
    {persistent(A), removal(A), versioned("Set", A, 0),
     batch(<<persistent(A), ephemeral(AB), check(AB0)>>),
     batch(<<sequential(AB), set(A), removal(AB0), removal(A)>>),
     batch(<<removal(AB), set(A), persistent(AB), set(AB), ephemeral(AB)>>),
     batch(<<set(A), removal(A), persistent(A), ephemeral(AB)>>)}

\* Access control lists.
ACLRequests ==
    {create(A, FALSE, FALSE, everyRight), create(A, TRUE, FALSE, ownersRight),
     create(AB, FALSE, FALSE, everyRight),
     create(AB, FALSE, FALSE, {acl("world", Permission)}),
     create(AB, FALSE, FALSE, {acl("baddigest", Permission)}),
     [op |-> "SetACL", path |-> A, version |-> 0, acls |-> everyRight],
     [op |-> "SetACL", path |-> A, version |-> 1,
      acls |-> {acl("digest", {"Read"})}],
     [op |-> "Auth", id |-> alice, valid |-> TRUE],
     [op |-> "Auth", id |-> alice, valid |-> FALSE],
     removal(A), set(A), read("Get", A, FALSE), read("GetACL", A, FALSE),
     batch(<<set(A), persistent(AB)>>),
     batch(<<removal(A), check(A)>>)}

\* Both together: nodes with access lists come and go inside multi requests.
MultiACLRequests == MultiRequests \cup ACLRequests

\* A multi that fails after a create, and a watch on what it would create.
FailedMultiRequests ==
    {read("Exists", A, TRUE), batch(<<persistent(A), check(AB)>>)}

\* A multi that fails after a change of "/".
RootMultiRequests == {batch(<<set(Root), check(A)>>)}

\* A multi that fails after it removed the last node with an ACL.
LastACLRequests ==
    {create(A, FALSE, FALSE, everyRight), batch(<<removal(A), check(AB)>>),
     read("Get", A, FALSE)}
=============================================================================
