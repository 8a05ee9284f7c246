------------------------------ MODULE PushCard -------------------------------
(***************************************************************************)
(* The push switch of the settings page, in the tabs of one browser:       *)
(* PushSettings, enablePush and disablePush, and the rows of               *)
(* push_subscriptions they leave.  The browser has one subscription for    *)
(* all its tabs and users; its rows are made and deleted by requests that  *)
(* may fail after the browser has acted, and signing out does not touch    *)
(* either.                                                                 *)
(***************************************************************************)
EXTENDS Naturals, FiniteSets

CONSTANTS
    Pages,         \* the tabs with the settings page open
    Users,         \* who sign in on this browser
    MaxEndpoints   \* bound on the subscriptions the browser makes

ASSUME MaxEndpointsAssumption == MaxEndpoints \in Nat

VARIABLES
    user,        \* who is signed in
    subscribed,  \* the endpoint of the browser's subscription, 0 for none
    made,        \* how many endpoints were made
    rows,        \* push_subscriptions
    page,        \* the card in each tab, and its handler
    slips       \* history: what has come between the rows and the browser

pushVars == <<user, subscribed, made, rows, page, slips>>

Endpoints == 1..MaxEndpoints

\* `id` tells rows of one endpoint apart: `endpoint` is not unique.
PushRow == [id: Nat, endpoint: Endpoints, user: Users]

Page == [status: {"loading", "subscribed", "unsubscribed"},
         step: {"idle", "key", "drop", "subscribe", "post", "insert", "posted",
                "unpost", "undrop"},
         endpoint: 0..MaxEndpoints]   \* the PushSubscription it holds

Rest == \A t \in Pages : page[t].step = "idle"

\* Another handler has begun before this one ended.
Racing(t) == IF \E s \in Pages \ {t} : page[s].step # "idle"
             THEN slips \cup {"raced"} ELSE slips

Doing(t, step) == page[t].step = step

Goto(t, step) == page' = [page EXCEPT ![t].step = step]

\* refresh(): what the browser says, and nothing else.
Shown == IF subscribed' = 0 THEN "unsubscribed" ELSE "subscribed"

End(t) == page' = [page EXCEPT ![t] = [status |-> Shown, step |-> "idle",
                                       endpoint |-> 0]]

-----------------------------------------------------------------------------
\* Mounting, by a reload too, while the card's handler rests (a bound).
MountPage(t) ==
    /\ Doing(t, "idle")
    /\ UNCHANGED <<user, subscribed, made, rows, slips>>
    /\ End(t)

\* handleLogout, and a sign-in of somebody else, between handlers (a bound).
SwitchUser(u) ==
    /\ u # user /\ Rest
    /\ user' = u
    /\ page' = [t \in Pages |-> [page[t] EXCEPT !.status = "loading"]]
    /\ slips' = IF subscribed # 0 THEN slips \cup {"switched"} ELSE slips
    /\ UNCHANGED <<subscribed, made, rows>>

\* onEnable: permission is granted, the key asked for.
Enable(t) ==
    /\ Doing(t, "idle") /\ page[t].status = "unsubscribed"
    /\ Goto(t, "key")
    /\ slips' = Racing(t)
    /\ UNCHANGED <<user, subscribed, made, rows>>

\* getSubscription, once the key is there.
KeyAnswered(t) ==
    /\ Doing(t, "key")
    /\ page' = [page EXCEPT ![t].endpoint = subscribed,
                  ![t].step = IF subscribed = 0 THEN "subscribe" ELSE "drop"]
    /\ UNCHANGED <<user, subscribed, made, rows, slips>>

\* existing.unsubscribe(): the service is not told.
DropExisting(t) ==
    /\ Doing(t, "drop")
    /\ subscribed' = IF subscribed = page[t].endpoint THEN 0 ELSE subscribed
    /\ slips' = slips \cup {"redone"}
    /\ Goto(t, "subscribe")
    /\ UNCHANGED <<user, made, rows>>

\* pushManager.subscribe: a new endpoint, or the one the browser has by now.
Subscribe(t) ==
    /\ Doing(t, "subscribe")
    /\ IF subscribed = 0
       THEN /\ made < MaxEndpoints
            /\ made' = made + 1 /\ subscribed' = made'
       ELSE UNCHANGED <<made, subscribed>>
    /\ page' = [page EXCEPT ![t].step = "post", ![t].endpoint = subscribed']
    /\ UNCHANGED <<user, rows, slips>>

RowsOf(endpoint) == {r \in rows : r.endpoint = endpoint}

\* upsert_subscription reads the row of the endpoint; with two of them
\* scalar_one_or_none raises.
ServeUpsert(t) ==
    /\ Doing(t, "post")
    /\ LET found == RowsOf(page[t].endpoint)
       IN  \/ found = {} /\ Goto(t, "insert") /\ UNCHANGED rows
           \/ /\ Cardinality(found) = 1
              /\ rows' = (rows \ found) \cup {[r EXCEPT !.user = user] : r \in found}
              /\ Goto(t, "posted")
    /\ UNCHANGED <<user, subscribed, made, slips>>

Insert(t) ==
    /\ Doing(t, "insert")
    /\ LET id == CHOOSE n \in 0..Cardinality(rows) : \A r \in rows : r.id # n
       IN  rows' = rows \cup {[id |-> id, endpoint |-> page[t].endpoint,
                               user |-> user]}
    /\ Goto(t, "posted")
    /\ UNCHANGED <<user, subscribed, made, slips>>

Posted(t) ==
    /\ Doing(t, "posted")
    /\ UNCHANGED <<user, subscribed, made, rows, slips>>
    /\ End(t)

\* Refused or lost, at the key, the browser's push service or the post: a toast,
\* the status stays.
FailEnable(t) ==
    /\ page[t].step \in {"key", "subscribe", "post", "insert", "posted"}
    /\ page' = [page EXCEPT ![t].step = "idle", ![t].endpoint = 0]
    /\ slips' = IF page[t].step \in {"post", "insert"} THEN slips \cup {"unposted"}
                                                      ELSE slips
    /\ UNCHANGED <<user, subscribed, made, rows>>

\* onDisable, up to the request.
Disable(t) ==
    /\ Doing(t, "idle") /\ page[t].status = "subscribed"
    /\ slips' = Racing(t)
    /\ UNCHANGED <<user, subscribed, made, rows>>
    /\ IF subscribed = 0 THEN End(t)
       ELSE page' = [page EXCEPT ![t].step = "unpost", ![t].endpoint = subscribed]

\* delete_subscription_by_endpoint.
ServeDelete(t) ==
    /\ Doing(t, "unpost")
    /\ rows' = rows \ RowsOf(page[t].endpoint)
    /\ Goto(t, "undrop")
    /\ UNCHANGED <<user, subscribed, made, slips>>

\* The catch clause: the browser's subscription is dropped all the same.
LoseDelete(t) ==
    /\ Doing(t, "unpost")
    /\ slips' = slips \cup {"undeleted"}
    /\ Goto(t, "undrop")
    /\ UNCHANGED <<user, subscribed, made, rows>>

\* Broken on purpose: the browser keeps what the service has forgotten.
DropNothing(t) ==
    /\ Doing(t, "undrop")
    /\ UNCHANGED <<user, subscribed, made, rows, slips>>
    /\ End(t)

Drop(t) ==
    /\ Doing(t, "undrop")
    /\ subscribed' = IF subscribed = page[t].endpoint THEN 0 ELSE subscribed
    /\ UNCHANGED <<user, made, rows, slips>>
    /\ End(t)

-----------------------------------------------------------------------------
PushInit ==
    /\ user \in Users
    /\ subscribed = 0 /\ made = 0 /\ rows = {}
    /\ page = [t \in Pages |-> [status |-> "loading", step |-> "idle", endpoint |-> 0]]
    /\ slips = {}

Enabling(t) ==
    \/ KeyAnswered(t) \/ DropExisting(t) \/ Subscribe(t)
    \/ ServeUpsert(t) \/ Insert(t) \/ Posted(t) \/ FailEnable(t)

Disabling(t) == ServeDelete(t) \/ LoseDelete(t) \/ Drop(t)

PushNext ==
    \/ \E t \in Pages : \/ MountPage(t) \/ Enable(t) \/ Disable(t)
                        \/ Enabling(t) \/ Disabling(t)
    \/ \E u \in Users : SwitchUser(u)

PushSpec == PushInit /\ [][PushNext]_pushVars

-----------------------------------------------------------------------------
\* The shapes; a request about a row names the subscription it is about.
PushTypeOK ==
    /\ user \in Users
    /\ subscribed \in 0..MaxEndpoints /\ made \in 0..MaxEndpoints
    /\ rows \subseteq PushRow
    /\ page \in [Pages -> Page]
    /\ \A t \in Pages : page[t].step \in {"post", "insert", "posted", "unpost", "undrop"}
                          => page[t].endpoint # 0
    /\ slips \subseteq {"raced", "redone", "switched", "unposted", "undeleted"}

\* At rest the service has one row, of the signed-in user, for the browser's
\* subscription and none for any other; unless two handlers ran at once, one
\* found a subscription its card did not show, somebody else signed in, or a
\* request failed after the browser had acted.
RegistryMatchesBrowser ==
    Rest /\ slips = {} =>
        /\ {<<r.endpoint, r.user>> : r \in rows} = IF subscribed = 0 THEN {}
                                                   ELSE {<<subscribed, user>>}
        /\ Cardinality(rows) =< 1

=============================================================================
