-------------------------- MODULE MCAfmpkgContents --------------------------
(* Small instances of AfmpkgContents for TLC. *)
EXTENDS AfmpkgContents

\* pack/bin/x, pack/htdocs/i, pack/lib/d/s: a directory of each kind and two levels.
MCEntries == {"pack", "bin", "x", "htdocs", "i", "lib", "d", "s"}
MCParent == [e \in MCEntries \ {"pack"} |->
    CASE e \in {"bin", "htdocs", "lib"} -> "pack" [] e = "x" -> "bin" [] e = "i" -> "htdocs"
      [] e = "d" -> "lib" [] e = "s" -> "d"]
MCMode == [e \in MCEntries |-> IF e \in {"x", "i", "s"} THEN "reg" ELSE "dir"]
MCDirType == [e \in MCEntries |->
    CASE e = "bin" -> "Exec" [] e = "htdocs" -> "Http" [] e = "lib" -> "Lib" [] OTHER -> "Unset"]

MCNames == {"bin/x", "i", "lib", "lib/d", "lib/d/s", "no", ""}
MCAt == [n \in MCNames |->
    CASE n = "bin/x" -> "x" [] n = "lib" -> "lib" [] n = "lib/d" -> "d" [] n = "lib/d/s" -> "s"
      [] n = "" -> "pack" [] OTHER -> None]
MCInHtdocs == [n \in MCNames |-> IF n = "i" THEN "i" ELSE None]

MCOrders == {<<"x", "bin", "i", "htdocs", "s", "d", "lib", "pack">>,
             <<"s", "d", "lib", "i", "htdocs", "x", "bin", "pack">>}

Item(kind, key, name, value) == [kind |-> kind, key |-> key, name |-> name, value |-> value]
MCRaws ==
    {None, [form |-> "other", items |-> <<>>],
     [form |-> "string", items |-> <<Item("string", None, "p", None)>>],
     [form |-> "array", items |-> <<Item("string", None, "p", None), Item("object", None, "q", "optional"),
                                    Item("object", None, "p", "bad")>>],
     [form |-> "array", items |-> <<Item("object", None, "q", None)>>],
     [form |-> "object", items |-> <<Item("object", "p", "p", "required"), Item("object", "q", "q", "bad")>>],
     [form |-> "object", items |-> <<Item("object", "p", "q", "required")>>]}

Target(src, exec, configs, perms) == [src |-> src, exec |-> exec, configs |-> configs, perms |-> perms]
Property(name, type) == [name |-> name, type |-> type]
Manifest(plugs, bindings, properties, targets, perms) ==
    [valid |-> TRUE, plugs |-> plugs, bindings |-> bindings, properties |-> properties,
     targets |-> targets, perms |-> perms]

\* The types: all the plugs, bindings and explicit properties on three names.
Zero == <<Target("bin/x", TRUE, <<>>, None)>>
TypeManifests ==
    {Manifest(p, b, q, Zero, None) :
        p \in {<<>>, <<"lib/d/s">>, <<"bin/x", "lib/d">>, <<"no">>},
        b \in {<<>>, <<"lib/d">>, <<"lib/d/s">>, <<"no">>},
        q \in {<<>>} \cup
              {<<Property(n, t)>> : n \in {"bin/x", "lib/d", "lib/d/s", "no", ""},
                                    t \in {"Public", "Data", "Plug", "Public_Exec", "Unset", "Id"}} \cup
              {<<Property("lib", t), Property("lib/d/s", u)>> : t, u \in {"Public_Lib", "Plug", "Conf"}} \cup
              {<<Property("lib", "Data"), Property("lib", "Conf")>>}}

\* The permissions: one of the manifest and one of a target; the contents.
PermManifests ==
    {Manifest(<<>>, <<>>, <<>>, <<Target("bin/x", FALSE, <<>>, r)>>, s) : r, s \in MCRaws}
SourceManifests ==
    {Manifest(<<>>, <<>>, <<>>, <<Target(s, FALSE, c, None)>>, None) :
        s \in {None, "i", "lib", "no", "bin/x"}, c \in {<<>>, <<"lib/d/s">>, <<"bin/x", "lib">>, <<"no">>}}

MCManifests == TypeManifests \cup PermManifests \cup SourceManifests
    \cup {[Manifest(<<>>, <<>>, <<>>, <<>>, None) EXCEPT !.valid = FALSE]}

\* Lengths: an identifier of two bytes, a root of two bytes, a package two names below.  Then a package
\* at the root, roots told with slashes, and paths that do not fit, of a file and of a directory.
Environ(pack, slashes, markers, id, auto, long) ==
    [root |-> 2, pack |-> pack, slashes |-> slashes, markers |-> markers, id |-> id, auto |-> auto, long |-> long]
MCEnvirons ==
    {Environ(6, 0, m, i, a, None) : m \in {{}, {0}, {2, 4}, {6}}, i \in {None, 3}, a \in BOOLEAN}
    \cup {Environ(2, 0, {2}, None, TRUE, None), Environ(2, 1, {}, None, FALSE, None),
          Environ(6, 1, {4}, None, TRUE, None), Environ(6, 2, {}, None, FALSE, None),
          Environ(6, 0, {}, None, FALSE, "s"), Environ(6, 0, {}, None, FALSE, "htdocs")}
=============================================================================
