---------------------------- MODULE MCExpansions ----------------------------
(***************************************************************************)
(* Small instances of Expansions: two types that refer to each other and   *)
(* to themselves, in cycles.                                               *)
(***************************************************************************)
EXTENDS Expansions, TLC

CONSTANTS Foo, Bar    \* types; each has a service of the same name

Object2(type, fields) == [type |-> type, fields |-> fields, inner |-> None]
Within(o, inner) == [o EXCEPT !.inner = inner]

Foo1 == Object2(Foo, [bar_id |-> 1, parent_id |-> 2])
Foo2 == Object2(Foo, [bar_id |-> 2, parent_id |-> 1])
Foo3 == Object2(Foo, [parent_id |-> 1])
Bar1 == Object2(Bar, [foo_id |-> 3])
Bar2 == Within(Object2(Bar, [foo_id |-> 1]), Foo2)

MCTypeExpansions ==
    Foo :> [bar |-> [type |-> Bar, route |-> "bars", source |-> "bar_id",
                     destination |-> "bar", raises |-> TRUE],
            parent |-> [type |-> Foo, route |-> "foos", source |-> "parent_id",
                        destination |-> "parent", raises |-> FALSE]]
    @@ Bar :> [foo |-> [type |-> Foo, route |-> "foos", source |-> "foo_id",
                        destination |-> "foo", raises |-> TRUE]]

MCTypeRoutes == [foos |-> [service |-> Foo, action |-> "get", field |-> "ids"],
                 bars |-> [service |-> Bar, action |-> "get", field |-> "ids"]]

MCRequested == Foo :> {<<"bar", "foo">>, <<"parent">>} @@ Bar :> {<<"foo">>}

MCDatabase == <<Foo, "get", "ids">> :> <<Foo1, Foo2, Foo3>>
              @@ <<Bar, "get", "ids">> :> <<Bar1, None>>

MCBodies == {<<Foo1>>, <<Foo1, Foo2>>, <<Bar2>>, <<Bar1, Bar2, Foo3>>}

\* Foos and bars from one action, by one field of its request or the other.
MCSharedRoutes == [MCTypeRoutes EXCEPT
    !["bars"] = [service |-> Foo, action |-> "get", field |-> "bar_ids"]]
MCSharedDatabase == <<Foo, "get", "ids">> :> <<Foo1, Foo2, Foo3>>
                    @@ <<Foo, "get", "bar_ids">> :> <<Bar1, None, None>>
=============================================================================
