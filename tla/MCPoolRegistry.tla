---------------------------- MODULE MCPoolRegistry ----------------------------
(* Small instances of PoolRegistry for TLC.                                 *)
EXTENDS PoolRegistry

Model(n, e, g) == [name |-> n, env |-> e, gid |-> g]
Load(i, m) == [id |-> i, kind |-> "load", model |-> m]
Reload(i, m) == [id |-> i, kind |-> "reload", model |-> m]
Unload(i, m) == [id |-> i, kind |-> "unload", model |-> m]
Close == [id |-> "close", kind |-> "close", model |-> Model("a", NoEnv, NoGid)]

(* One after the other: two models that share an environment, a group or    *)
(* nothing, move between them, and leave.                                   *)
Moving == {Load("l1", Model("a", "tar", NoGid)), Load("l2", Model("b", "tar", NoGid)),
           Load("l3", Model("b", NoEnv, "g")), Reload("r1", Model("a", "tar", "g")),
           Reload("r2", Model("a", "path", NoGid)), Reload("r3", Model("b", "tar", NoGid)),
           Unload("u1", Model("a", NoEnv, NoGid)), Unload("u2", Model("b", NoEnv, NoGid)), Close}
Grouping == {Load("l4", Model("a", NoEnv, "g")), Load("l5", Model("b", NoEnv, "g")),
             Reload("r4", Model("a", NoEnv, "g")), Reload("r5", Model("b", NoEnv, "h")),
             Load("l6", Model("b", NoEnv, NoGid)),
             Unload("u3", Model("a", NoEnv, NoGid)), Unload("u4", Model("b", NoEnv, NoGid)), Close}

(* At once: loads of a start that share a group but no tarball, and         *)
(* operations on models that share nothing.                                 *)
Starting == {Load("l1", Model("a", "tar", NoGid)), Load("l5", Model("b", NoEnv, "g")),
             Load("l7", Model("c", NoEnv, "g")), Load("l8", Model("d", "tar", "g"))}
Apart == {Load("l1", Model("a", "tar", NoGid)), Reload("r2", Model("a", "path", NoGid)),
          Load("l5", Model("b", NoEnv, "g")), Reload("r3", Model("b", "tar", "g")),
          Unload("u1", Model("a", NoEnv, NoGid)), Unload("u2", Model("b", NoEnv, NoGid))}

(* A close at any moment of loads and an unload. *)
Closing == {Load("l5", Model("b", NoEnv, "g")), Load("l7", Model("c", NoEnv, "g")),
            Load("l8", Model("d", "tar", "g")), Unload("u5", Model("d", NoEnv, NoGid)), Close}

Together == {[ops |-> Moving, serial |-> TRUE, failures |-> {}],
             [ops |-> Grouping, serial |-> TRUE, failures |-> {"load"}],
             [ops |-> Starting, serial |-> FALSE, failures |-> {"extract"}],
             [ops |-> Apart, serial |-> FALSE, failures |-> {}],
             [ops |-> Closing, serial |-> FALSE, failures |-> {}]}

(* Two models of the start that use the same tarball. *)
Shared == {[ops |-> {Load("l1", Model("a", "tar", NoGid)), Load("l2", Model("b", "tar", NoGid)),
                     Load("l5", Model("c", NoEnv, "g"))},
            serial |-> FALSE, failures |-> {"extract"}]}
=============================================================================
