------------------------------ MODULE Billing -------------------------------
(***************************************************************************)
(* Stripe billing: the user's row mirrors the subscription.  A webhook     *)
(* only says which subscription changed; its state is fetched afresh and   *)
(* then written.  Events may arrive late, twice and out of order.          *)
(***************************************************************************)
EXTENDS Integers

CONSTANTS
    Subscriptions,    \* the user's Stripe subscriptions, old and new
    NoSubscription,   \* NULL
    Webhooks,         \* webhook requests at once
    MaxChanges        \* bound on what happens to the subscriptions at Stripe

ASSUME BillingAssumption ==
    MaxChanges \in Nat /\ NoSubscription \notin Subscriptions

VARIABLES
    stripe,     \* stripe[s]: the subscription's status at Stripe
    mirror,     \* the user's row: which subscription, in which status
    events,     \* subscriptions Stripe still has an event to deliver about
    webhook,    \* webhook[h]: what it fetched
    changes,    \* changes left
    parallel    \* history: two subscriptions were live at once

billingVars == <<stripe, mirror, events, webhook, changes, parallel>>

\* "due" stands for past_due, unpaid and incomplete.
Status == {"none", "active", "due", "canceled"}

\* A subscription that is not there yet, but can be paid for.
Unpaid == {"none", "checkout"}

IdleWebhook == [subscription |-> NoSubscription, status |-> "none"]

\* The mirror names a subscription that exists.
BillingTypeOK ==
    /\ stripe \in [Subscriptions -> Status \union Unpaid]
    /\ mirror \in [subscription : Subscriptions \union {NoSubscription}, status : Status]
    /\ mirror.subscription # NoSubscription => stripe[mirror.subscription] \notin Unpaid
    /\ events \subseteq Subscriptions
    /\ webhook \in [Webhooks -> [subscription : Subscriptions \union {NoSubscription}, status : Status]]
    /\ changes \in 0 .. MaxChanges
    /\ parallel \in BOOLEAN

BillingInit ==
    /\ stripe = [s \in Subscriptions |-> "none"]
    /\ mirror = [subscription |-> NoSubscription, status |-> "none"]
    /\ events = {}
    /\ webhook = [h \in Webhooks |-> IdleWebhook]
    /\ changes = MaxChanges
    /\ parallel = FALSE

-----------------------------------------------------------------------------
Live(s) == stripe[s] \in {"active", "due"}

ChangeAtStripe(s, status) ==
    /\ changes > 0 /\ changes' = changes - 1
    /\ stripe' = [stripe EXCEPT ![s] = status]
    /\ events' = events \union {s}
    /\ parallel' = (parallel \/ (Live(s)' /\ \E t \in Subscriptions \ {s} : Live(t)))
    /\ UNCHANGED <<mirror, webhook>>

\* create_checkout_session: what is mirrored is looked at now, not when the
\* session is paid, and an open session is not looked for.
CreateCheckoutSession(s) ==
    /\ mirror.status \notin {"active", "due"}
    /\ stripe[s] = "none"
    /\ stripe' = [stripe EXCEPT ![s] = "checkout"]
    /\ UNCHANGED <<mirror, events, webhook, changes, parallel>>

\* The user pays at Stripe, which knows nothing of the mirror.
PayCheckout(s) == stripe[s] = "checkout" /\ ChangeAtStripe(s, "active")

\* A payment fails or succeeds after all; the user cancels; Stripe gives up.
ChangeSubscription(s, status) ==
    /\ Live(s)
    /\ status \in {"active", "due", "canceled"} \ {stripe[s]}
    /\ ChangeAtStripe(s, status)

\* handle_event: retrieve the subscription.  The event may come again.
FetchSubscription(h, s) ==
    /\ s \in events
    /\ webhook[h] = IdleWebhook
    /\ webhook' = [webhook EXCEPT ![h] = [subscription |-> s, status |-> stripe[s]]]
    /\ events' \in {events, events \ {s}}
    /\ UNCHANGED <<stripe, mirror, changes, parallel>>

\* Mutant: whatever was fetched is written.
IgnoresNothing(incoming) == FALSE

\* A late word of an old subscription does not overwrite the active one.
Ignored(incoming) ==
    /\ mirror.subscription \notin {NoSubscription, incoming.subscription}
    /\ mirror.status = "active"
    /\ incoming.status # "active"

\* sync_subscription.
SyncSubscription(h) ==
    /\ webhook[h] # IdleWebhook
    /\ mirror' = IF Ignored(webhook[h]) THEN mirror ELSE webhook[h]
    /\ webhook' = [webhook EXCEPT ![h] = IdleWebhook]
    /\ UNCHANGED <<stripe, events, changes, parallel>>

\* A webhook that fails is answered with an error: Stripe sends it again.
WebhookFails(h) ==
    /\ webhook[h] # IdleWebhook
    /\ events' = events \union {webhook[h].subscription}
    /\ webhook' = [webhook EXCEPT ![h] = IdleWebhook]
    /\ UNCHANGED <<stripe, mirror, changes, parallel>>

BillingNext ==
    \/ \E s \in Subscriptions : CreateCheckoutSession(s) \/ PayCheckout(s)
    \/ \E s \in Subscriptions, status \in Status : ChangeSubscription(s, status)
    \/ \E h \in Webhooks, s \in Subscriptions : FetchSubscription(h, s)
    \/ \E h \in Webhooks : SyncSubscription(h) \/ WebhookFails(h)

BillingSpec == BillingInit /\ [][BillingNext]_billingVars

-----------------------------------------------------------------------------
(* Properties.                                                             *)

\* Every event is handled, in whatever order and however often.
AllHandled == events = {} /\ \A h \in Webhooks : webhook[h] = IdleWebhook

\* Then what is mirrored of the subscription the user's row names is its
\* latest state: it holds while webhooks do not overlap.
MirrorIsLatest ==
    AllHandled /\ mirror.subscription # NoSubscription =>
        mirror.status = stripe[mirror.subscription]

\* Then, webhooks not overlapping, the row has the latest state of the
\* subscription it names; and the user has access exactly when Stripe has an
\* active subscription, unless two were live at once.
MirrorConverges ==
    /\ MirrorIsLatest
    /\ AllHandled /\ ~parallel =>
          (mirror.status = "active" <=> \E s \in Subscriptions : stripe[s] = "active")
=============================================================================
