----------------------------- MODULE GroupService -----------------------------
(***************************************************************************)
(* What users are promised of group chats: a group is created at once and  *)
(* with all its members, or not at all; a message is accepted at once, for *)
(* a group that exists, or refused; and the answer tells which of the two  *)
(* happened.  A message need not come from a member of its group.  Groups  *)
(* is shown to implement this.                                             *)
(***************************************************************************)
EXTENDS Naturals, Sequences

CONSTANTS Users, Workers

VARIABLES
    groups,     \* the members of each group, by number
    stored,     \* the accepted messages: [group, from]
    request     \* the request each worker serves: [op, user, members | group, outcome]

vars == <<groups, stored, request>>

Idle == [op |-> "none"]

Init ==
    /\ groups \in Seq(SUBSET Users) /\ stored = << >>
    /\ request = [w \in Workers |-> Idle]

Outcome(w, o) == request' = [request EXCEPT ![w].outcome = o]
Open(w) == request[w] # Idle /\ request[w].outcome = "open"

Ask(w, r) ==
    /\ request[w] = Idle
    /\ request' = [request EXCEPT ![w] = r]
    /\ UNCHANGED <<groups, stored>>

Create(w) ==
    /\ Open(w) /\ request[w].op = "create"
    /\ groups' = Append(groups, request[w].members \cup {request[w].user})
    /\ Outcome(w, "success")
    /\ UNCHANGED stored

Say(w) ==
    /\ Open(w) /\ request[w].op = "say"
    /\ request[w].group \in DOMAIN groups
    /\ stored' = Append(stored, [group |-> request[w].group, from |-> request[w].user])
    /\ Outcome(w, "success")
    /\ UNCHANGED groups

Refuse(w) == Open(w) /\ Outcome(w, "failed") /\ UNCHANGED <<groups, stored>>

Answer(w) ==
    /\ request[w] # Idle /\ ~Open(w)
    /\ request' = [request EXCEPT ![w] = Idle]
    /\ UNCHANGED <<groups, stored>>

Next == \E w \in Workers :
    \/ \E u \in Users, m \in SUBSET Users :
            Ask(w, [op |-> "create", user |-> u, members |-> m, outcome |-> "open"])
    \/ \E u \in Users, g \in DOMAIN groups :
            Ask(w, [op |-> "say", user |-> u, group |-> g, outcome |-> "open"])
    \/ Create(w) \/ Say(w) \/ Refuse(w) \/ Answer(w)

Spec == Init /\ [][Next]_vars
===============================================================================
