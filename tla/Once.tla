-------------------------------- MODULE Once --------------------------------
(***************************************************************************)
(* What an idempotency key promises to its sender, without transactions,   *)
(* locks or tables: the work of a key is done by one request, once and for *)
(* good, and whoever is told of it is told of that.  A request may as well *)
(* be refused or get no answer, which is no step here.                     *)
(***************************************************************************)
CONSTANTS Requests, Keys, Results, NoKey

VARIABLES
    key,       \* key[t]: NoKey before t arrives
    done,      \* done[k]: the results of the work of k, none before it is done
    told       \* told[t]: the results that the answer of t names

onceVars == <<key, done, told>>

Init ==
    /\ key = [t \in Requests |-> NoKey]
    /\ done = [k \in Keys |-> {}]
    /\ told = [t \in Requests |-> {}]

Ask(t, k) ==
    /\ key[t] = NoKey
    /\ key' = [key EXCEPT ![t] = k]
    /\ UNCHANGED <<done, told>>

\* The commit; its answer may be lost.
Work(t) ==
    /\ key[t] # NoKey /\ done[key[t]] = {}
    /\ \E r \in Results :
        /\ done' = [done EXCEPT ![key[t]] = {r}]
        /\ told' \in {told, [told EXCEPT ![t] = {r}]}
    /\ UNCHANGED key

Replay(t) ==
    /\ key[t] # NoKey /\ told[t] = {} /\ done[key[t]] # {}
    /\ told' = [told EXCEPT ![t] = done[key[t]]]
    /\ UNCHANGED <<key, done>>

Next ==
    \E t \in Requests : (\E k \in Keys : Ask(t, k)) \/ Work(t) \/ Replay(t)

Spec == Init /\ [][Next]_onceVars
=============================================================================
