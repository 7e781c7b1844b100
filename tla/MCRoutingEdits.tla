--------------------------- MODULE MCRoutingEdits ---------------------------
(***************************************************************************)
(* Two channels with two models each, of which one has an id that makes no *)
(* client alias; one stable alias with a name of its own and one that is   *)
(* called like a model; one logical model.  The gateway starts with one    *)
(* channel in production and a provider without routes; an old revision    *)
(* pins a model of the second channel.                                     *)
(***************************************************************************)
EXTENDS RoutingEdits

CONSTANT main

MCNameable == {<<"c1", "m1">>, <<"c1", "m2">>, <<"c2", "m1">>}
MCCatalog == MCNameable \cup {<<"c2", "unnameable">>}
MCAliasNames == {main, <<"c1", "m2">>}

List(all, on) == [all |-> all, on |-> on]
MCCandidateLists ==
  { List({<<"c1", "m1">>, <<"c2", "m1">>}, {<<"c1", "m1">>}),
    List({<<"c1", "m2">>}, {<<"c1", "m2">>}),
    List({<<"c2", "m1">>}, {}) }

FirstStart ==
  [ providers |-> {"c1", "c2"}, enabled |-> {"c1"}, channels |-> {"c1"}, staged |-> {},
    status |-> [e \in MCCatalog |-> IF e = <<"c1", "m1">> THEN "active" ELSE "none"],
    aliases |-> [a \in MCAliasNames |-> None],
    pinned |-> {},
    groups |-> [g \in Groups |-> None] ]

OldRevision ==
  [ FirstStart EXCEPT !.channels = {"c1", "c2"}, !.pinned = {<<"c2", "m1">>},
                      !.status[<<"c2", "m1">>] = "stale" ]

MCBaselines == {FirstStart, OldRevision}
=============================================================================
