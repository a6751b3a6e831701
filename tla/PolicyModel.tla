---------------------------- MODULE PolicyModel ----------------------------
(***************************************************************************)
(* The documents of the control plane: what app/policies/model.py accepts, *)
(* what the admin handlers make of a request body, and which limit is in   *)
(* force for a route (PolicyResolver._resolve).  A body is a record with   *)
(* some fields; it may have fields and values no policy has.               *)
(***************************************************************************)
EXTENDS Integers

CONSTANTS
    NoPolicy,   \* no document stored
    Static,     \* RATE_LIMIT_ROUTES: a function from some routes to limit and window
    Global      \* RATE_LIMIT and RATE_LIMIT_WINDOW: limit and window

MaxLimit == 1000000000
MaxWindow == 31536000

\* validate_limit and validate_window
ValidLimitFromZero(n) == n \in 0..MaxLimit
ValidLimit(n) == n \in 1..MaxLimit
ValidWindow(n) == n \in 1..MaxWindow

\* What RoutePolicy admits; its route is the key under which it is stored
Policies == [limit : 1..MaxLimit, window : 1..MaxWindow, enabled : BOOLEAN]
Documents == Policies \cup {NoPolicy}

\* normalize_policy_payload raises no ValueError (422)
Normalizable(body) ==
    /\ DOMAIN body \subseteq {"limit", "window", "enabled"}
    /\ "limit" \in DOMAIN body => ValidLimit(body.limit)
    /\ "window" \in DOMAIN body => ValidWindow(body.window)
    /\ "enabled" \in DOMAIN body => body.enabled \in BOOLEAN

\* The body of a POST needs both numbers; enabled defaults to true
Creatable(body) == Normalizable(body) /\ {"limit", "window"} \subseteq DOMAIN body
NewPolicy(body) ==
    [limit |-> body.limit, window |-> body.window,
     enabled |-> IF "enabled" \in DOMAIN body THEN body.enabled ELSE TRUE]

\* merged = existing.to_dict(); merged.update(fields)
Merge(doc, fields) ==
    [x \in DOMAIN doc |-> IF x \in DOMAIN fields THEN fields[x] ELSE doc[x]]

InForce(config, source, doc) ==
    [limit |-> config.limit, window |-> config.window, source |-> source, policy |-> doc]

\* An enabled dynamic policy, else the static limit of the route, else the global one
Effective(r, doc) ==
    IF doc # NoPolicy /\ doc.enabled THEN InForce(doc, "dynamic", doc)
    ELSE IF r \in DOMAIN Static THEN InForce(Static[r], "static", doc)
    ELSE InForce(Global, "global", doc)
=============================================================================
