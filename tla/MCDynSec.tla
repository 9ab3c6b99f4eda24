------------------------------ MODULE MCDynSec ------------------------------
EXTENDS DynSec

Acl(k, t, p, b) == [type |-> k, topic |-> t, priority |-> p, allow |-> b]
Entry(n, p) == [name |-> n, priority |-> p]

Client(pw) == [roles |-> NoEntries, groups |-> NoEntries,
               disabled |-> FALSE, id |-> None, pw |-> pw]
Group == [roles |-> NoEntries, clients |-> NoEntries]

(* A client in a group with a role that allows topic a, and a role that    *)
(* denies it.                                                              *)
Populated ==
    [clients   |-> (1 :> Client(1)),
     groups    |-> (1 :> [roles |-> (1 :> -1), clients |-> (1 :> -1)]) @@ (2 :> Group),
     roles     |-> (1 :> <<Acl("send", "a", -1, TRUE)>>)
                     @@ (2 :> <<Acl("send", "#", 1, FALSE), Acl("literal", "a", -1, TRUE)>>),
     anonymous |-> 1,
     access    |-> FALSE]

(* No client yet and a group missing; the anonymous group has a role. *)
Sparse ==
    [clients   |-> NoEntries,
     groups    |-> (1 :> [Group EXCEPT !.roles = (1 :> -1)]),
     roles     |-> (1 :> <<Acl("send", "a", -1, TRUE)>>),
     anonymous |-> 1,
     access    |-> TRUE]

SmallFiles == {Populated, Sparse}
SmallRoleLists == {Absent, (2 :> 1)}
SmallJoinLists == {Absent, <<Entry(1, -1), Entry(2, 1)>>}
SmallAcls == {Acl("send", "a", 1, FALSE), Acl("pattern", "#", -1, FALSE)}
SmallAclLists == {<<Acl("send", "#", -1, FALSE), Acl("send", "a", -1, TRUE)>>}
=============================================================================
