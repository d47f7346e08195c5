----------------------------- MODULE ImageService -----------------------------
(***************************************************************************)
(* What a user is promised of the images he sends, without chunks, threads *)
(* or a connection: an image that he has offered is stored at most once,   *)
(* with no piece of it twice, and stays as it was stored; and his friend   *)
(* is told of it at most once, when it is stored and unless it was given   *)
(* up before.  ImageUpload is shown to implement this.                     *)
(***************************************************************************)
CONSTANTS Uploads, Junk

VARIABLES
    phase,      \* of each upload: "new", "pending" or "gone"
    stored,     \* the stored images: a function of their uploads
    announced   \* the images the friend has been told of

vars == <<phase, stored, announced>>

OncePerPiece(content) ==
    \A i, j \in DOMAIN content : content[i] = content[j] /\ content[i] # Junk => i = j

Init ==
    /\ phase = [u \in Uploads |-> "new"]
    /\ stored = << >>
    /\ announced = {}

Offer(u) ==
    /\ phase[u] = "new"
    /\ phase' = [phase EXCEPT ![u] = "pending"]
    /\ UNCHANGED <<stored, announced>>

\* Also an image that was given up may still be stored: the user does not hear of it.
Store(u) ==
    /\ phase[u] # "new" /\ u \notin DOMAIN stored
    /\ DOMAIN stored' = DOMAIN stored \cup {u}
    /\ \A v \in DOMAIN stored : stored'[v] = stored[v]
    /\ OncePerPiece(stored'[u])
    /\ UNCHANGED <<phase, announced>>

Announce(u) ==
    /\ phase[u] = "pending" /\ u \in DOMAIN stored
    /\ phase' = [phase EXCEPT ![u] = "gone"]
    /\ announced' = announced \cup {u}
    /\ UNCHANGED stored

GiveUp(u) ==
    /\ phase[u] = "pending"
    /\ phase' = [phase EXCEPT ![u] = "gone"]
    /\ UNCHANGED <<stored, announced>>

Next == \E u \in Uploads : Offer(u) \/ Store(u) \/ Announce(u) \/ GiveUp(u)

Spec == Init /\ [][Next]_vars
=============================================================================
