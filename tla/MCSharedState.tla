---------------------------- MODULE MCSharedState ----------------------------
(* SharedState for TLC: the registries' keys and the archives.             *)
EXTENDS SharedState

MCOps == {"none", "init", "destroy", "wait", "trywait", "timedwait", "post", "getvalue"}

\* A name that is longer than its entry and the one that is left of it, a
\* static method with an instance method beside it, a signature that a method
\* has room for and a field has not, and what is left of it.
Key(table, name, signature, static) ==
    [table |-> table, name |-> name, signature |-> signature, static |-> static]

MCKeys ==
    {Key("methods", "a name of 96 and more", "()V", FALSE), Key("methods", "a name of 95", "()V", FALSE),
     Key("methods", "list", "one of 96 and more", TRUE), Key("methods", "list", "one of 96 and more", FALSE),
     Key("fields", "x", "one of 96 and more", FALSE), Key("fields", "x", "one of 95", FALSE)}

MCCut ==
    [n \in {k.name : k \in MCKeys} |-> IF n = "a name of 96 and more" THEN "a name of 95" ELSE n]

MCCutSignature ==
    [table \in {"methods", "fields"} |-> [s \in {k.signature : k \in MCKeys} |->
        IF table = "fields" /\ s = "one of 96 and more" THEN "one of 95" ELSE s]]

MCCapacity == [methods |-> 2, fields |-> 1]

\* A file with a namesake under "published", a directory without an entry of
\* its own and a size an int cannot hold; and an archive that breaks off.
File(path, size) == [path |-> path, directory |-> FALSE, size |-> size]
Directory(path) == [path |-> path, directory |-> TRUE, size |-> 0]

MCArchives ==
    {[entries |-> << Directory(<<"published">>), File(<<"published", "cars">>, 1),
                     File(<<"cars">>, 3), File(<<"published.1x", "ui", "logo">>, 5),
                     File(<<"published.1x", "ui", "map">>, 2) >>,
      invalid |-> 0],
     [entries |-> << File(<<"cars">>, 3), File(<<"map">>, 1) >>, invalid |-> 2]}

MCRequests == {<<"">>, <<"", "published", "">>, <<"published.1x", "ui">>}
=============================================================================
