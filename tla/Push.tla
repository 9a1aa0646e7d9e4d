-------------------------------- MODULE Push --------------------------------
(***************************************************************************)
(* Push notifications: browsers that enable and disable them, the table of *)
(* subscriptions, and the loops that send to all subscriptions of a user   *)
(* and delete those the push service no longer knows.  The engine and the  *)
(* webhook handlers send pages, a handler of the settings page sends       *)
(* tests; nothing keeps them apart, and the process may end and boot again *)
(* at any time.                                                            *)
(*                                                                         *)
(* Browser and push service are external: subscribe() mints an endpoint    *)
(* for one application server key, and an endpoint that is gone stays gone.*)
(***************************************************************************)
EXTENDS Boot

CONSTANTS
    Users,
    Browsers,
    Endpoints,      \* bound: endpoints that may ever be minted
    None,           \* no endpoint, no user
    Pagers,         \* goroutines that may be in sendPush
    Testers         \* goroutines that may be in pushTest

ASSUME PushAssumption ==
    /\ None \notin Endpoints
    /\ None \notin Users
    /\ Pagers \cap Testers = {}

VARIABLES
    browser,    \* who is logged in, the local subscription, the request underway
    minted,     \* push service: endpoints ever minted
    vouched,    \* push service: the key a live endpoint was minted for
    rows,       \* push_subscriptions, as pairs of user and endpoint
    enabled,    \* history: pairs saved, and not taken back by their user
    send        \* one frame per sender

pushVars == <<browser, minted, vouched, rows, enabled, send>>
vars     == <<schema, marks, settings, tx, proc, drawn, crashes,
              browser, minted, vouched, rows, enabled, send>>

Senders == Pagers \cup Testers
Live(e) == vouched[e] # NoKey

(* read: the subscriptions selected; left: those still to do; sent, failed:  *)
(* history, how the others answered; said: what the timeline, or the         *)
(* response to a test, tells of it.                                          *)
Frame == [pc : {"idle", "loop", "gone"}, user : Users \cup {None},
          read : SUBSET Endpoints, left : SUBSET Endpoints, cur : Endpoints \cup {None},
          sent : SUBSET Endpoints, failed : SUBSET Endpoints,
          said : {"nothing", "notified", "notify_failed"}]

IdleFrame == [pc |-> "idle", user |-> None, read |-> {}, left |-> {}, cur |-> None,
              sent |-> {}, failed |-> {}, said |-> "nothing"]

-----------------------------------------------------------------------------
(* The browser's settings page. *)

(* The button, without a local subscription: subscribe() with the key of a   *)
(* page the running server rendered.                                         *)
Enable(b) ==
    /\ Up
    /\ browser[b].pc = "idle"
    /\ browser[b].sub = None
    /\ \E e \in Endpoints \ minted :
          /\ minted' = minted \cup {e}
          /\ vouched' = [vouched EXCEPT ![e] = proc.pub]
          /\ browser' = [browser EXCEPT ![b].sub = e, ![b].pc = "saving"]
    /\ UNCHANGED <<rows, enabled, send>>

(* Its POST reaches pushSubscribe, which upserts. *)
Saved(b) ==
    /\ Up
    /\ browser[b].pc = "saving"
    /\ LET sub == <<browser[b].user, browser[b].sub>>
       IN  rows' = rows \cup {sub} /\ enabled' = enabled \cup {sub}
    /\ browser' = [browser EXCEPT ![b].pc = "idle"]
    /\ UNCHANGED <<minted, vouched, send>>

(* Or it does not, or the session has expired.  Nobody looks at the answer,  *)
(* and the browser keeps its subscription.                                   *)
SaveLost(b) ==
    /\ browser[b].pc = "saving"
    /\ browser' = [browser EXCEPT ![b].pc = "idle"]
    /\ UNCHANGED <<minted, vouched, rows, enabled, send>>

(* Mutation: the WHERE clause forgets the endpoint. *)
DeletePushSubscription_AllOfUser(u, e) == rows' = {r \in rows : r[1] # u}

DeletePushSubscription(u, e) == rows' = rows \ {<<u, e>>}

(* The button, with a local subscription: pushUnsubscribe for whoever is     *)
(* logged in, or its redirect to the login page; then unsubscribe().         *)
Disable(b) ==
    /\ Up
    /\ browser[b].pc = "idle"
    /\ browser[b].sub # None
    /\ LET u == browser[b].user
           e == browser[b].sub
       IN  \/ DeletePushSubscription(u, e) /\ enabled' = enabled \ {<<u, e>>}
           \/ UNCHANGED <<rows, enabled>>
    /\ browser' = [browser EXCEPT ![b].pc = "dropping"]
    /\ UNCHANGED <<minted, vouched, send>>

Drop(b) ==
    /\ browser[b].pc = "dropping"
    /\ vouched' = [vouched EXCEPT ![browser[b].sub] = NoKey]
    /\ browser' = [browser EXCEPT ![b].sub = None, ![b].pc = "idle"]
    /\ UNCHANGED <<minted, rows, enabled, send>>

(* Site data cleared, or the app uninstalled, without a word to the server. *)
Forget(b) ==
    /\ browser[b].pc = "idle"
    /\ browser[b].sub # None
    /\ vouched' = [vouched EXCEPT ![browser[b].sub] = NoKey]
    /\ browser' = [browser EXCEPT ![b].sub = None]
    /\ UNCHANGED <<minted, rows, enabled, send>>

(* Somebody else logs in; the browser's subscription stays. *)
SwitchUser(b, u) ==
    /\ browser[b].pc = "idle"
    /\ browser[b].user # u
    /\ browser' = [browser EXCEPT ![b].user = u]
    /\ UNCHANGED <<minted, vouched, rows, enabled, send>>

-----------------------------------------------------------------------------
(* sendPush and the loop of pushTest. *)

ReadSubscriptions(s, u) ==
    /\ Up
    /\ send[s].pc = "idle"
    /\ LET subs == {e \in Endpoints : <<u, e>> \in rows}
       IN  /\ subs # {}
           /\ send' = [send EXCEPT ![s] = [IdleFrame EXCEPT !.pc = "loop", !.user = u,
                                                            !.read = subs, !.left = subs]]
    /\ UNCHANGED <<browser, minted, vouched, rows, enabled>>

(* The push service takes what the endpoint's key has signed; the answer may *)
(* still be an error, or be lost.                                            *)
Accepts(e) == vouched[e] = proc.pub /\ proc.priv = proc.pub

(* Mutation: the first error ends the loop. *)
SendOne_FirstErrorReturns(s) ==
    /\ send[s].pc = "loop"
    /\ \E e \in send[s].left :
          \/ /\ ~Live(e)
             /\ send' = [send EXCEPT ![s].left = @ \ {e}, ![s].cur = e, ![s].pc = "gone"]
          \/ /\ Live(e) /\ Accepts(e)
             /\ send' = [send EXCEPT ![s].left = @ \ {e}, ![s].sent = @ \cup {e}]
          \/ /\ Live(e)
             /\ send' = [send EXCEPT ![s].left = {}, ![s].failed = @ \cup {e}]
    /\ UNCHANGED <<browser, minted, vouched, rows, enabled>>

(* Mutation: whatever is no success counts as gone. *)
SendOne_AnyErrorIsGone(s) ==
    /\ send[s].pc = "loop"
    /\ \E e \in send[s].left :
          \/ send' = [send EXCEPT ![s].left = @ \ {e}, ![s].cur = e, ![s].pc = "gone"]
          \/ /\ Live(e) /\ Accepts(e)
             /\ send' = [send EXCEPT ![s].left = @ \ {e}, ![s].sent = @ \cup {e}]
    /\ UNCHANGED <<browser, minted, vouched, rows, enabled>>

(* 404 or 410; accepted; or an error, and on to the next. *)
SendOne(s) ==
    /\ send[s].pc = "loop"
    /\ \E e \in send[s].left :
          \/ /\ ~Live(e)
             /\ send' = [send EXCEPT ![s].left = @ \ {e}, ![s].cur = e, ![s].pc = "gone"]
          \/ /\ Live(e) /\ Accepts(e)
             /\ send' = [send EXCEPT ![s].left = @ \ {e}, ![s].sent = @ \cup {e}]
          \/ /\ Live(e)
             /\ send' = [send EXCEPT ![s].left = @ \ {e}, ![s].failed = @ \cup {e}]
    /\ UNCHANGED <<browser, minted, vouched, rows, enabled>>

DeleteGone(s) ==
    /\ send[s].pc = "gone"
    /\ DeletePushSubscription(send[s].user, send[s].cur)
    /\ send' = [send EXCEPT ![s].pc = "loop", ![s].cur = None]
    /\ UNCHANGED <<browser, minted, vouched, enabled>>

(* Mutation: any error makes it a failure. *)
Outcome_AnyError(s) ==
    IF s \in Testers
    THEN IF send[s].sent # {} THEN "notified" ELSE "notify_failed"
    ELSE IF send[s].failed # {} THEN "notify_failed" ELSE "notified"

(* delivered == 0 && lastErr != nil in sendPush, sent in pushTest. *)
Outcome(s) ==
    IF s \in Testers
    THEN IF send[s].sent # {} THEN "notified" ELSE "notify_failed"
    ELSE IF send[s].sent = {} /\ send[s].failed # {} THEN "notify_failed" ELSE "notified"

(* logAttempt, or the response. *)
Report(s) ==
    /\ send[s].pc = "loop"
    /\ send[s].left = {}
    /\ send' = [send EXCEPT ![s].pc = "idle", ![s].user = None,
                              ![s].said = Outcome(s)]
    /\ UNCHANGED <<browser, minted, vouched, rows, enabled>>

-----------------------------------------------------------------------------
Init ==
    /\ BootInit
    /\ browser \in [Browsers -> [pc : {"idle"}, user : Users, sub : {None}]]
    /\ minted = {}
    /\ vouched = [e \in Endpoints |-> NoKey]
    /\ rows = {}
    /\ enabled = {}
    /\ send = [s \in Senders |-> IdleFrame]

PushStep ==
    \/ \E b \in Browsers : \/ Enable(b) \/ Saved(b) \/ SaveLost(b)
                           \/ Disable(b) \/ Drop(b) \/ Forget(b)
    \/ \E b \in Browsers, u \in Users : SwitchUser(b, u)
    \/ \E s \in Senders, u \in Users : ReadSubscriptions(s, u)
    \/ \E s \in Senders : SendOne(s) \/ DeleteGone(s) \/ Report(s)

Next ==
    \/ BootStep /\ UNCHANGED pushVars
    \/ Crash /\ send' = [s \in Senders |-> IdleFrame]
             /\ UNCHANGED <<browser, minted, vouched, rows, enabled>>
    \/ PushStep /\ UNCHANGED bootVars

Spec == Init /\ [][Next]_vars

(* Somebody starts the process whenever it is down, and it runs. *)
FairSpec == Spec /\ WF_vars(BootStep /\ UNCHANGED pushVars)

-----------------------------------------------------------------------------
TypeOK ==
    /\ BootTypeOK
    /\ browser \in [Browsers -> [pc : {"idle", "saving", "dropping"}, user : Users,
                                 sub : Endpoints \cup {None}]]
    /\ minted \subseteq Endpoints
    /\ vouched \in [Endpoints -> Key]
    /\ rows \subseteq Users \X Endpoints
    /\ enabled \subseteq Users \X Endpoints
    /\ send \in [Senders -> Frame]

(* Wherever the process ends, a migration's tables and its mark are on disk  *)
(* together or not at all, and none is applied before an earlier one.        *)
SchemaMatchesMarks ==
    /\ schema = marks
    /\ \A m \in marks : 1..m \subseteq marks

(* "Keys must stay stable across restarts, or every browser's existing push  *)
(* subscription silently stops delivering": whenever the server is up, every *)
(* live subscription it has stored was minted for the key it serves.         *)
SubscriptionsUsable ==
    Up => \A r \in rows : Live(r[2]) => vouched[r[2]] = proc.pub

(* Cleaning up what is gone never costs a user a subscription that works:    *)
(* not the other browser's, not another user's of the same browser, not the  *)
(* one that the same browser has made anew in the meantime.                  *)
CleanupSparesLive == \A r \in enabled : Live(r[2]) => r \in rows

(* One subscription that fails, or is gone, does not keep the page from the  *)
(* others: a loop that ends has tried every one that is still live.          *)
EveryDeviceTried ==
    \A s \in Senders : send[s].said # "nothing" =>
        \A e \in send[s].read : Live(e) => e \in send[s].sent \cup send[s].failed

(* "notified" is only said where a push service has taken the page, or none  *)
(* of the user's subscriptions was left; "failed" only where none took it.   *)
HonestReport ==
    \A s \in Senders :
        /\ send[s].said = "notified" => send[s].sent # {} \/ \A e \in send[s].read : ~Live(e)
        /\ send[s].said = "notify_failed" => send[s].sent = {}

-----------------------------------------------------------------------------
(* What the disk and the table of subscriptions promise, read off the state. *)
Disk == INSTANCE AtomicDisk WITH
            tables  <- schema,
            applied <- marks,
            public  <- settings.pub,
            private <- settings.priv

AtHand == {<<browser[b].user, browser[b].sub>> : b \in {c \in Browsers : browser[c].sub # None}}

Registry == INSTANCE PushRegistry WITH
                live       <- {e \in Endpoints : Live(e)},
                dead       <- {e \in minted : ~Live(e)},
                atHand     <- AtHand,
                wanted     <- enabled,
                registered <- {r \in rows : Live(r[2])}

(* However boots are cut short and repeated, the disk goes through the states *)
(* it would go through if nothing ever ended the process: one migration after *)
(* the other, whole, then a public key for good, then perhaps its private     *)
(* half, never another's.                                                     *)
ImplementsDisk == Disk!Spec

(* Senders that work on stale lists and clean up, restarts, lost requests and *)
(* people who share a browser leave no trace in the subscriptions that work:  *)
(* these come with a save by who is at the browser, and go with the same      *)
(* user's word, given there, or with their endpoint.  A clean-up is nobody's  *)
(* word, so that it takes no row that works.                                  *)
ImplementsRegistry == Registry!Spec

(* How many steps a boot has still to take at the most: four for a migration, *)
(* less the further it is with the one at hand, and four for the key pair.    *)
Distance ==
    LET left == 4 * (MigrationCount + 1 - proc.next)
    IN  CASE proc.pc = "down"   -> 4 * MigrationCount + 5
          [] proc.pc = "check"  -> left + 4
          [] proc.pc = "apply"  -> left + 3
          [] proc.pc = "mark"   -> left + 2
          [] proc.pc = "commit" -> left + 1
          [] proc.pc = "getpub" -> 3
          [] proc.pc \in {"getpriv", "setpub"} -> 2
          [] proc.pc = "setpriv" -> 1
          [] proc.pc = "up"     -> 0

(* A boot never fails by itself and never goes around in circles: whatever an *)
(* earlier one left on disk, each of its steps brings it nearer to being up.  *)
BootAdvances == [][BootStep => Distance' < Distance]_vars

(* The process gets up again however often it ends while it boots: what a    *)
(* boot that was cut short leaves on disk never stops the next one.          *)
BootsAgain == <>[]Up

(* "EnsureVAPIDKeys returns the server's VAPID keypair". *)
ServesKeyPair == Up => proc.priv = proc.pub
=============================================================================
