----------------------------- MODULE MCSecurity -----------------------------
EXTENDS Security

Line(kind, name, access) == [kind |-> kind, name |-> name, access |-> access]
Both == {"read", "write"}
Lines == {Line("user", "a", {}), Line("topic", "t", {}), Line("topic", "#", Both),
          Line("topic", "t", {"read"}), Line("pattern", "%u", Both), Line("pattern", "t", {}),
          Line("invalid", "", {})}

Entry(u, p, sound) == [user |-> u, pw |-> p, sound |-> sound]

(* Every ACL file of up to three lines, and the password files that take a *)
(* password away, spoil it, change it twice or are missing.                *)
Conf(anon, pwfile, pw, aclfile, acl) ==
    [anon |-> anon, pwfile |-> pwfile, pw |-> pw, aclfile |-> aclfile, acl |-> acl]
ReadOnly == <<Line("user", "a", {}), Line("topic", "t", {"read"})>>
SomeReloads ==
    {Conf(anon, "there", <<Entry("a", 1, TRUE), Entry("b+", 1, TRUE)>>, TRUE, acl) :
        anon \in BOOLEAN, acl \in {<<>>, <<Line("user", "a", {}), Line("invalid", "", {})>>}}
    \cup {Conf(FALSE, "there", pw, aclfile, IF aclfile THEN ReadOnly ELSE <<>>) :
            aclfile \in BOOLEAN,
            pw \in {<<Entry("a", 1, FALSE)>>, <<Entry("a", 1, TRUE), Entry("a", 2, TRUE)>>}}
    \cup {Conf(TRUE, pwfile, <<>>, TRUE, ReadOnly) : pwfile \in {"none", "missing"}}
SomeConfs ==
    SomeReloads \cup {Conf(anon, "there", <<Entry("a", 1, TRUE), Entry("b+", 1, TRUE)>>, TRUE, acl) :
                        anon \in BOOLEAN, acl \in BoundedSeq(Lines, 3)}

SomeLogins == {[user |-> Nobody, pw |-> 0], [user |-> "a", pw |-> 1], [user |-> "a", pw |-> 2],
               [user |-> "b+", pw |-> 1]}

Says(v) == [u \in {Nobody, "a", "b+"} |-> v]
Lib(version, symbols, auth, acl) ==
    [version |-> version, symbols |-> symbols, init |-> TRUE, auth |-> auth, acl |-> acl]

SomePlugins ==
    {<<>>,
     <<Lib(5, {"init", "cleanup"}, Says("defer"), Says("defer"))>>,
     <<Lib(5, {"init"}, Says("ok"), Says("ok"))>>,
     <<Lib(4, V2Symbols, [Says("defer") EXCEPT !["a"] = "ok"], Says("ok")),
       Lib(2, V2Symbols, Says("defer"), Says("no"))>>,
     <<Lib(3, V2Symbols, Says("no"), Says("no"))>>,
     <<Lib(4, V2Symbols \cup {"auth_start"}, Says("ok"), Says("ok"))>>}
=============================================================================
