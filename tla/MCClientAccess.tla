--------------------------- MODULE MCClientAccess ---------------------------
(* ClientAccess with two channels, two groups, one client with two keys    *)
(* and one request.  An earlier run may have left a document without       *)
(* clients, or one with a client in one of two groups.  All ids and keys   *)
(* are interchangeable.                                                    *)
EXTENDS ClientAccess, TLC

Plain(c) == [channels |-> {c}, access |-> None]
Grouped(c, mine, key) ==
  [channels |-> Channels,
   access |-> [groups |-> [g \in Groups |->
                 [channels |-> IF g = mine THEN {c} ELSE Channels \ {c}, enabled |-> TRUE]],
               clients |-> [k \in Clients |->
                 [group |-> mine, key |-> key, enabled |-> TRUE]]]]
ModelRecorded ==
  {Plain(c) : c \in Channels}
    \cup {Grouped(c, mine, key) : c \in Channels, mine \in Groups, key \in Keys}

Symmetry == Permutations(Channels) \cup Permutations(Groups) \cup Permutations(Keys)
=============================================================================
