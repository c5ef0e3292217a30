------------------------------ MODULE Billing -------------------------------
(***************************************************************************)
(* Stripe's webhook (applyStripeWebhookToDatabase) and the entitlement of  *)
(* one user: requests of several processes handle events that Stripe may   *)
(* send twice, late and in any order.  Each call to the database is a step *)
(* of its own, after which the request may throw or its process die.       *)
(***************************************************************************)
EXTENDS Naturals

CONSTANTS
  Events,     \* event ids
  EventKind,  \* type of each event, "updated" split by the status it brings
  EventSub,   \* its subscription
  Subs,
  Handlers    \* requests in progress

EventKinds == {"completed", "renewed", "lapsed", "deleted"}

ASSUME BillingAssumption ==
  EventKind \in [Events -> EventKinds] /\ EventSub \in [Events -> Subs]

VARIABLES
  subscription, \* BillingSubscription rows
  session,      \* CheckoutSession row
  recorded,     \* StripeEvent rows
  entitlement,  \* of the user and the workspaces it owns
  workspace,    \* entitlement of a workspace that is added meanwhile
  ownerRead,    \* createWorkspaceForUser has this entitlement of its owner
  handler,
  applied,      \* history: how often an event's entitlement was written
  acknowledged  \* history: events answered with success

billingVars == <<subscription, session, recorded, entitlement, workspace, ownerRead, handler,
                 applied, acknowledged>>
workspaceVars == <<workspace, ownerRead>>

Entitlements == {"free", "pro"}
Idle         == [at |-> "idle"]
At(at, e)    == [at |-> at, event |-> e]

BillingType ==
  /\ subscription \in [Subs -> {"none", "active", "lapsed", "cancelled"}]
  /\ session \in {"none", "open", "completed"}
  /\ recorded \subseteq Events
  /\ entitlement \in Entitlements
  /\ {workspace, ownerRead} \subseteq Entitlements \union {"none"}
  /\ handler \in [Handlers -> [at : {"found", "updated", "recorded"}, event : Events] \union {Idle}]
  /\ applied \in [Events -> Nat]
  /\ acknowledged \subseteq recorded

BillingInit ==
  /\ subscription = [s \in Subs |-> "none"]
  /\ session = "none"
  /\ recorded = {}
  /\ entitlement = "free"
  /\ workspace = "none" /\ ownerRead = "none"
  /\ handler = [h \in Handlers |-> Idle]
  /\ applied = [e \in Events |-> 0]
  /\ acknowledged = {}

-----------------------------------------------------------------------------
(* applyStripeWebhookToDatabase *)

\* A recorded event is acknowledged and nothing else; another one is handled.
ReceiveEvent(h, e) ==
  /\ handler[h] = Idle
  /\ IF e \in recorded
     THEN acknowledged' = acknowledged \union {e} /\ UNCHANGED handler
     ELSE handler' = [handler EXCEPT ![h] = At("found", e)] /\ UNCHANGED acknowledged
  /\ UNCHANGED <<subscription, session, recorded, entitlement, workspaceVars, applied>>

\* Mutant: the event's row is written if it is not there.
UpsertEvent(h) ==
  /\ recorded' = recorded \union {handler[h].event}
  /\ handler' = [handler EXCEPT ![h].at = "recorded"]

\* stripeEvent.create: the id is unique, and the request throws when it is there.
InsertEvent(h) ==
  /\ handler[h].event \notin recorded
  /\ recorded' = recorded \union {handler[h].event}
  /\ handler' = [handler EXCEPT ![h].at = "recorded"]

\* checkout.session.completed: subscription, session and event in one transaction.
CompleteCheckout(h) ==
  /\ handler[h].at = "found" /\ EventKind[handler[h].event] = "completed"
  /\ InsertEvent(h)
  /\ subscription' = [subscription EXCEPT ![EventSub[handler[h].event]] = "active"]
  /\ session' = IF session = "none" THEN session ELSE "completed"
  /\ UNCHANGED <<entitlement, workspaceVars, applied, acknowledged>>

\* customer.subscription.updated and .deleted: first the subscriptions; the latter
\* cancels every one the user has ...
UpdateSubscriptions(h) ==
  /\ handler[h].at = "found" /\ EventKind[handler[h].event] # "completed"
  /\ subscription' =
       LET kind == EventKind[handler[h].event]
       IN  CASE kind = "renewed" -> [subscription EXCEPT ![EventSub[handler[h].event]] = "active"]
             [] kind = "lapsed" -> [subscription EXCEPT ![EventSub[handler[h].event]] = "lapsed"]
             [] OTHER -> [s \in Subs |-> IF subscription[s] = "none" THEN "none" ELSE "cancelled"]
  /\ handler' = [handler EXCEPT ![h].at = "updated"]
  /\ UNCHANGED <<session, recorded, entitlement, workspaceVars, applied, acknowledged>>

\* ... then the event ...
RecordEvent(h) ==
  /\ handler[h].at = "updated"
  /\ InsertEvent(h)
  /\ UNCHANGED <<subscription, session, entitlement, workspaceVars, applied, acknowledged>>

\* ... and last, updateOwnedWorkspaceEntitlement: the user and all its workspaces.
SetEntitlement(h) ==
  /\ handler[h].at = "recorded"
  /\ LET e == handler[h].event
     IN  /\ entitlement' = IF EventKind[e] \in {"completed", "renewed"} THEN "pro" ELSE "free"
         /\ workspace' = IF workspace = "none" THEN "none" ELSE entitlement'
         /\ applied' = [applied EXCEPT ![e] = @ + 1]
         /\ acknowledged' = acknowledged \union {e}
  /\ handler' = [handler EXCEPT ![h] = Idle]
  /\ UNCHANGED <<subscription, session, recorded, ownerRead>>

\* A call throws, or the process dies: Stripe gets no success and sends again.
RequestFails(h) ==
  /\ handler[h] # Idle
  /\ handler' = [handler EXCEPT ![h] = Idle]
  /\ UNCHANGED <<subscription, session, recorded, entitlement, workspaceVars, applied,
                 acknowledged>>

WebhookStep(h) ==
  \/ \E e \in Events : ReceiveEvent(h, e)
  \/ CompleteCheckout(h) \/ UpdateSubscriptions(h) \/ RecordEvent(h) \/ SetEntitlement(h)
  \/ RequestFails(h)

-----------------------------------------------------------------------------
(* Other requests *)

\* createCheckoutSessionForUser
OpenCheckout ==
  /\ session = "none"
  /\ session' = "open"
  /\ UNCHANGED <<subscription, recorded, entitlement, workspaceVars, handler, applied,
                 acknowledged>>

\* createWorkspaceForUser: the user was read when the request came ...
ReadOwner ==
  /\ workspace = "none" /\ ownerRead = "none"
  /\ ownerRead' = entitlement
  /\ UNCHANGED <<subscription, session, recorded, entitlement, workspace, handler, applied,
                 acknowledged>>

\* ... and its entitlement is copied.
AddWorkspace ==
  /\ ownerRead # "none"
  /\ workspace' = ownerRead
  /\ ownerRead' = "none"
  /\ UNCHANGED <<subscription, session, recorded, entitlement, handler, applied, acknowledged>>

BillingNext ==
  \/ \E h \in Handlers : WebhookStep(h)
  \/ OpenCheckout \/ ReadOwner \/ AddWorkspace

-----------------------------------------------------------------------------
(* Properties *)

\* However often and by how many requests at once an event is handled, it decides the
\* entitlement once: an old event that is sent again cannot undo a newer one.
EventAppliesOnce == \A e \in Events : applied[e] <= 1

\* docs/ops/production-readiness.md: the webhooks are replay-safe, so an event that was
\* acknowledged, after however many attempts, has had its effect.
AcknowledgedEventWasApplied == \A e \in acknowledged : applied[e] > 0
=============================================================================
