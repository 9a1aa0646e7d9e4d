---------------------------- MODULE PushRegistry ----------------------------
(***************************************************************************)
(* What the table of push subscriptions promises about those that work:    *)
(* one is there from the moment it is saved until its own user, at the     *)
(* browser that holds it, takes it back, or its endpoint dies; nothing     *)
(* else makes it come or go.  Of loops that send on stale lists and clean  *)
(* up, of requests that are lost and of restarts, nothing shows.           *)
(***************************************************************************)
CONSTANTS Users, Endpoints

VARIABLES
    live,       \* endpoints the push service knows
    dead,       \* endpoints it has forgotten
    atHand,     \* who is at the browser of a live endpoint, as pairs
    wanted,     \* pairs of user and endpoint saved, and not taken back
    registered  \* those of them in the table that work

registryVars == <<live, dead, atHand, wanted, registered>>

Init ==
    /\ live = {}
    /\ dead = {}
    /\ atHand = {}
    /\ wanted = {}
    /\ registered = {}

(* The push service mints an endpoint, never the same one twice. *)
Mint(u, e) ==
    /\ e \notin live \cup dead
    /\ live' = live \cup {e}
    /\ atHand' = atHand \cup {<<u, e>>}
    /\ UNCHANGED <<dead, wanted, registered>>

(* Another user logs in where e is. *)
Login(u, v, e) ==
    /\ <<u, e>> \in atHand
    /\ atHand' = (atHand \ {<<u, e>>}) \cup {<<v, e>>}
    /\ UNCHANGED <<live, dead, wanted, registered>>

Save(u, e) ==
    /\ <<u, e>> \in atHand
    /\ wanted' = wanted \cup {<<u, e>>}
    /\ registered' = registered \cup {<<u, e>>}
    /\ UNCHANGED <<live, dead, atHand>>

(* A user's word, and the only way for a subscription that works to go. *)
TakeBack(u, e) ==
    /\ <<u, e>> \in atHand \cap wanted
    /\ wanted' = wanted \ {<<u, e>>}
    /\ registered' = registered \ {<<u, e>>}
    /\ UNCHANGED <<live, dead, atHand>>

(* The push service forgets one, and with it whoever had subscribed there. *)
Die(e) ==
    /\ e \in live
    /\ live' = live \ {e}
    /\ dead' = dead \cup {e}
    /\ atHand' = {r \in atHand : r[2] # e}
    /\ registered' = {r \in registered : r[2] # e}
    /\ UNCHANGED wanted

Next ==
    \/ \E u \in Users, e \in Endpoints : Mint(u, e) \/ Save(u, e) \/ TakeBack(u, e)
    \/ \E u, v \in Users, e \in Endpoints : Login(u, v, e)
    \/ \E e \in Endpoints : Die(e)

Spec == Init /\ [][Next]_registryVars
=============================================================================
