----------------------------- MODULE KeyedMutex -----------------------------
(***************************************************************************)
(* What a write lock promises to the runs that use it: at any moment a key *)
(* (a workspace, or the single render slot) has at most one user.          *)
(***************************************************************************)
CONSTANTS Keys, Runs

VARIABLE users   \* users[k]: the runs now working under key k

Init == users = [k \in Keys |-> {}]

\* A run starts to work under an unused key.
Use(r, k) == /\ users[k] = {}
             /\ users' = [users EXCEPT ![k] = {r}]

\* A run leaves its key.
Leave(r, k) == /\ r \in users[k]
               /\ users' = [users EXCEPT ![k] = @ \ {r}]

\* A run leaves one key and starts under another, unused one.
Move(r, j, k) == /\ r \in users[j]
                 /\ users[k] \ (IF j = k THEN {r} ELSE {}) = {}
                 /\ users' = [users EXCEPT ![j] = @ \ {r}, ![k] = {r}]

\* The process ends: nobody works any more.
Vanish == users' = [k \in Keys |-> {}]

Next == \/ \E r \in Runs, k \in Keys : Use(r, k) \/ Leave(r, k)
        \/ \E r \in Runs, j, k \in Keys : Move(r, j, k)
        \/ Vanish

Spec == Init /\ [][Next]_users
=============================================================================
