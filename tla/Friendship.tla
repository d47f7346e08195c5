----------------------------- MODULE Friendship -----------------------------
(***************************************************************************)
(* What users are promised about friendship, without threads, connections  *)
(* or a database: a request is pending until its addressee accepts or      *)
(* refuses it, accepting turns it into a friendship of both, and either    *)
(* friend can end it.                                                      *)
(***************************************************************************)
CONSTANT Users

VARIABLES
    friends,    \* rows <<user, friend>>
    requests    \* pending requests <<from, to>>

friendshipVars == <<friends, requests>>

Both(u, v) == {<<u, v>>, <<v, u>>}

FriendshipInit ==
    /\ friends \subseteq Users \X Users
    /\ requests \subseteq Users \X Users
    /\ \A u, v \in Users : <<u, v>> \in friends => u # v /\ <<v, u>> \in friends

Ask(u, v) ==
    /\ requests' = requests \cup {<<u, v>>}
    /\ friends' = friends

Accept(u, v) ==
    /\ <<v, u>> \in requests
    /\ u # v
    /\ Both(u, v) \cap friends = {}
    /\ requests' = requests \ {<<v, u>>}
    /\ friends' = friends \cup Both(u, v)

Refuse(u, v) ==
    /\ requests' = requests \ {<<v, u>>}
    /\ friends' = friends

Unfriend(u, v) ==
    /\ friends' = friends \ Both(u, v)
    /\ requests' = requests

FriendshipNext ==
    \E u, v \in Users : Ask(u, v) \/ Accept(u, v) \/ Refuse(u, v) \/ Unfriend(u, v)

FriendshipSpec == FriendshipInit /\ [][FriendshipNext]_friendshipVars
=============================================================================
