-------------------------------- MODULE Push --------------------------------
(***************************************************************************)
(* Web push of one browser: the toggle of the settings page                *)
(* (apps/web/src/features/settings/PushToggle.tsx), the routes             *)
(* POST /push/subscribe and DELETE /push/subscribe/:id                     *)
(* (apps/api/src/routes/push.ts), and the sender, which deletes a row when *)
(* the push service answers 410 (apps/api/src/push/sender.ts).             *)
(*                                                                         *)
(* The page may be reloaded, or the settings left and opened again, at any *)
(* await; what was asked of the server goes on.  A subscription of the     *)
(* browser is numbered; PushManager.subscribe returns the present one, and *)
(* one that ended is never valid again.                                    *)
(***************************************************************************)
EXTENDS Naturals, FiniteSets

CONSTANTS
  MaxSubscriptions,         \* bound on the subscriptions of the browser
  MaxPosts                  \* bound on the calls of POST /push/subscribe

ASSUME PushAssumptions == MaxPosts \in Nat

VARIABLES
  toggle,                   \* ToggleState of the mounted toggle
  checking,                 \* its mount effect: "none", or what getSubscription gives
  closing,                  \* disable() calls under way: of the mounted toggle, of others
  enabled,                  \* TOGGLE_STORAGE_KEY
  savedId,                  \* SUBSCRIPTION_ID_KEY
  subscription,             \* of the browser, 0 when there is none
  lastSubscription,         \* the newest one there ever was
  subscribing,              \* calls of POST /push/subscribe under way
  deleting,                 \* the ids in calls of DELETE /push/subscribe/:id
  subscriptions,            \* table push_subscriptions
  lastRow,                  \* its newest id
  torn,                     \* history: see LiveRowKept
  sending                   \* rows the sender has read

pageVars == <<toggle, checking, closing, enabled, savedId>>
subscriptionVars == <<subscription, lastSubscription>>
rowVars == <<subscribing, deleting, subscriptions, lastRow, torn, sending>>
pushVars == <<pageVars, subscriptionVars, rowVars>>

PushInit ==
  /\ toggle = "off" /\ checking = "none" /\ closing = [mounted |-> 0, others |-> 0]
  /\ enabled = FALSE /\ savedId = 0
  /\ subscription = 0 /\ lastSubscription = 0
  /\ subscribing = {} /\ deleting = {} /\ subscriptions = {} /\ lastRow = 0
  /\ torn = FALSE /\ sending = {}

(* The flag and the id are forgotten; a toggle that is still mounted shows *)
(* what became of its call, and one that was left shows nothing any more.  *)
Forget == enabled' = FALSE /\ savedId' = 0
Show(who, state) == toggle' = IF who = "mounted" THEN state ELSE toggle

----------------------------------------------------------------------------
(* The toggle.                                                             *)

(* enable: permission and PushManager.subscribe, then POST.                *)
Subscribe ==
  /\ toggle = "off"
  /\ lastRow + Cardinality(subscribing) < MaxPosts
  /\ subscription # 0 \/ lastSubscription < MaxSubscriptions
  /\ lastSubscription' = IF subscription = 0 THEN lastSubscription + 1 ELSE lastSubscription
  /\ subscription' = IF subscription = 0 THEN lastSubscription' ELSE subscription
  /\ \E n \in 1..MaxPosts :
       /\ \A p \in subscribing : p.call # n
       /\ subscribing' = subscribing \cup
            {[call |-> n, endpoint |-> subscription', step |-> "delete", for |-> "mounted"]}
  /\ toggle' = "enabling"
  /\ torn' = (torn \/ enabled \/ \E p \in subscribing : p.for # "nobody")
  /\ UNCHANGED <<checking, closing, enabled, savedId, deleting, subscriptions, lastRow, sending>>

(* The catch of enable: unsubscribe, best effort, and off.                 *)
EnableFails(p) ==
  /\ p.for # "nobody"
  /\ Forget
  /\ Show(p.for, "off")
  /\ subscription' \in {0, subscription}
  /\ subscribing' = (subscribing \ {p}) \cup {[p EXCEPT !.for = "nobody"]}
  /\ UNCHANGED <<checking, closing, lastSubscription, deleting, subscriptions, lastRow, torn, sending>>

(* disable: unsubscribe, then DELETE unless that failed; off either way.   *)
Disable ==
  /\ toggle = "on"
  /\ closing.mounted + closing.others < MaxPosts
  /\ toggle' = "disabling"
  /\ closing' = [closing EXCEPT !.mounted = @ + 1]
  /\ \/ subscription' = 0 /\ deleting' = deleting \cup ({savedId} \ {0})
     \/ UNCHANGED <<subscription, deleting>>
  /\ UNCHANGED <<checking, enabled, savedId, lastSubscription, subscribing, subscriptions,
                 lastRow, torn, sending>>

Disabled(who) ==
  /\ closing[who] > 0
  /\ closing' = [closing EXCEPT ![who] = @ - 1]
  /\ Forget
  /\ Show(who, "off")
  /\ UNCHANGED <<checking, subscriptionVars, rowVars>>

(* The toggle is mounted anew, after a reload or when the settings are     *)
(* opened again: it reads the flag, and reconciles it with the browser.    *)
Mount(left) ==
  /\ toggle' = IF enabled THEN "on" ELSE "off"
  /\ checking' = IF enabled THEN "reading" ELSE "none"
  /\ subscribing' = {[p EXCEPT !.for = IF p.for = "nobody" THEN p.for ELSE left] : p \in subscribing}
  /\ closing' = [mounted |-> 0,
                 others |-> IF left = "nobody" THEN 0 ELSE closing.mounted + closing.others]
  /\ UNCHANGED <<enabled, savedId, subscriptionVars, deleting, subscriptions, lastRow, torn, sending>>

ReloadToggle == Mount("nobody")
RemountToggle == Mount("others")

GetSubscription ==
  /\ checking = "reading"
  /\ checking' = IF subscription = 0 THEN "null" ELSE "none"
  /\ UNCHANGED <<toggle, closing, enabled, savedId, subscriptionVars, rowVars>>

Reconciled ==
  /\ checking = "null"
  /\ checking' = "none"
  /\ Forget
  /\ toggle' = "off"
  /\ UNCHANGED <<closing, subscriptionVars, rowVars>>

(* The browser drops the subscription, or the push service ends it.        *)
SubscriptionEnds ==
  /\ subscription # 0
  /\ subscription' = 0
  /\ UNCHANGED <<pageVars, lastSubscription, rowVars>>

----------------------------------------------------------------------------
(* The routes: the rows of the device are replaced by two queries.         *)

DeleteRows(p) ==
  /\ p.step = "delete"
  /\ subscriptions' = {}
  /\ subscribing' = (subscribing \ {p}) \cup {[p EXCEPT !.step = "insert"]}
  /\ torn' = (torn \/ \E s \in subscriptions : s.endpoint > p.endpoint)
  /\ UNCHANGED <<pageVars, subscriptionVars, deleting, lastRow, sending>>

(* The reply reaches enable, unless its page is gone or it gave up.        *)
InsertSubscription(p) ==
  /\ p.step = "insert"
  /\ lastRow' = lastRow + 1
  /\ subscriptions' = subscriptions \cup {[id |-> lastRow', endpoint |-> p.endpoint]}
  /\ subscribing' = subscribing \ {p}
  /\ Show(p.for, "on")
  /\ IF p.for # "nobody"
       THEN enabled' = TRUE /\ savedId' = lastRow'
       ELSE UNCHANGED <<enabled, savedId>>
  /\ UNCHANGED <<checking, closing, subscriptionVars, deleting, torn, sending>>

SubscribeFails(p) ==
  /\ p.for = "nobody"
  /\ subscribing' = subscribing \ {p}
  /\ torn' = (torn \/ p.step = "insert")
  /\ UNCHANGED <<pageVars, subscriptionVars, deleting, subscriptions, lastRow, sending>>

DeleteSubscription(id) ==
  /\ id \in deleting
  /\ deleting' = deleting \ {id}
  /\ subscriptions' \in {subscriptions, {s \in subscriptions : s.id # id}}
  /\ UNCHANGED <<pageVars, subscriptionVars, subscribing, lastRow, torn, sending>>

----------------------------------------------------------------------------
(* sendPushToDevice.                                                       *)

SendPush ==
  /\ \E s \in subscriptions :
       /\ \A t \in subscriptions : t.id <= s.id
       /\ sending' = sending \cup {s}
  /\ UNCHANGED <<pageVars, subscriptionVars, subscribing, deleting, subscriptions, lastRow, torn>>

PushSent(s) ==
  /\ sending' = sending \ {s}
  /\ UNCHANGED <<pageVars, subscriptionVars, subscribing, deleting, subscriptions, lastRow, torn>>

\* Mutant of Gone: the subscription of the device is deleted, not the row.
GoneDevice(s) ==
  /\ s.endpoint # subscription
  /\ sending' = sending \ {s}
  /\ subscriptions' = {}
  /\ UNCHANGED <<pageVars, subscriptionVars, subscribing, deleting, lastRow, torn>>

Gone(s) ==
  /\ s.endpoint # subscription
  /\ sending' = sending \ {s}
  /\ subscriptions' = subscriptions \ {s}
  /\ UNCHANGED <<pageVars, subscriptionVars, subscribing, deleting, lastRow, torn>>

PushNext ==
  \/ Subscribe \/ Disable \/ ReloadToggle \/ RemountToggle \/ GetSubscription \/ Reconciled
  \/ SubscriptionEnds \/ SendPush
  \/ \E who \in {"mounted", "others"} : Disabled(who)
  \/ \E p \in subscribing :
       EnableFails(p) \/ DeleteRows(p) \/ InsertSubscription(p) \/ SubscribeFails(p)
  \/ \E id \in deleting : DeleteSubscription(id)
  \/ \E s \in sending : PushSent(s) \/ Gone(s)

PushSpec == PushInit /\ [][PushNext]_pushVars

----------------------------------------------------------------------------
(* Properties.                                                             *)

(* Push that is on stays on: while the toggle is saved as on and the       *)
(* browser has its subscription, the server has a row with its endpoint,   *)
(* whatever late DELETEs, repeated POSTs and 410s of older subscriptions   *)
(* do; unless a POST is between its two queries, failed between them, or   *)
(* came so late that it replaced a row newer than its own, or the user     *)
(* switched on a toggle that showed off while an earlier enable() was      *)
(* under way or had saved the flag (torn).                                 *)
LiveRowKept ==
  enabled /\ subscription # 0 /\ ~torn /\ (\A p \in subscribing : p.step # "insert") =>
    \E s \in subscriptions : s.endpoint = subscription
=============================================================================
