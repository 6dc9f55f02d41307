----------------------------- MODULE HttpStack -----------------------------
(***************************************************************************)
(* A request through the layers of route.rs, outermost first:              *)
(* http_observability, auth (which adds the current user), CORS, the panic *)
(* catcher, global_405, the router with the Claims layers of its nested    *)
(* routers, and a handler.  Beside it the tokens: login signs them with    *)
(* the key of its replica, Claims checks them with the key of another.     *)
(*                                                                         *)
(* The layers run without a pause, so that a request is one step down and, *)
(* when a handler ran, one step up.  In between the client may go away:    *)
(* hyper (external) then drops the request wherever it is.  What handlers  *)
(* do is the subject of other modules; here they only have outcomes.       *)
(***************************************************************************)
EXTENDS Integers, Sequences, FiniteSets

CONSTANTS
  Requests,     \* request slots, each used once
  Replicas,     \* processes of the server
  Secrets,      \* values JWT_SECRET may have, or its default in keys(); only login
                \* signs with one
  Ttl,          \* life of a token; 15 days in the code
  Leeway,       \* Validation::default: 60 seconds
  MaxTime       \* bound on the clock

ASSUME HttpAssumption ==
  /\ Ttl \in Nat /\ Leeway \in Nat /\ MaxTime \in Nat
  /\ Secrets # {} /\ "none" \notin Secrets

VARIABLES
  now,          \* the clock
  deployed,     \* JWT_SECRET a process gets when it starts
  keys,         \* per replica: KEYS
  tokens,       \* tokens that login has answered with
  logins,       \* history: when and with which key somebody logged in
  req,          \* per request: what it is and how far it has come
  counts        \* per request: what record_http_metrics was called with

vars == <<now, deployed, keys, tokens, logins, req, counts>>

\* Routes that the layers and the outcomes tell apart: the GET routes of bakery,
\* orders and hot are "read", the POST routes of orders and hot are "write".
Routes  == {"index", "users", "login", "register", "protected", "bakery_write",
            "read", "write", "chat", "unknown"}
Methods == {"GET", "POST", "OPTIONS"}
NoToken == [secret |-> "none", exp |-> 0]
Token   == [secret : Secrets, exp : 0..(MaxTime + Ttl)]
Status  == {101, 200, 201, 400, 401, 404, 405, 409, 500}
Panic   == -1  \* the outcome of a handler that panics
Pass    == 0   \* no layer refuses: the handler is called
New     == [stage |-> "new"]
Running == [stage : {"running"}, replica : Replicas, route : Routes, method : Methods]
Dropped == [stage |-> "dropped"]
Answered == [stage : {"answered"}, route : Routes, method : Methods, ran : BOOLEAN, status : Status]
Count   == [method : Methods, route : Routes \union {"raw_path"}, status : Status]

TypeOK ==
  /\ now \in 0..MaxTime
  /\ deployed \in Secrets
  /\ keys \in [Replicas -> Secrets]
  /\ tokens \subseteq Token
  /\ logins \subseteq [secret : Secrets, at : 0..MaxTime]
  /\ req \in [Requests -> {New, Dropped} \union Running \union Answered]
  /\ counts \in [Requests -> Seq(Count)]

Init ==
  /\ now = 0
  /\ deployed \in Secrets
  /\ keys = [n \in Replicas |-> deployed]
  /\ tokens = {} /\ logins = {}
  /\ req = [r \in Requests |-> New]
  /\ counts = [r \in Requests |-> <<>>]

-----------------------------------------------------------------------------
(* Routing *)

\* The methods of the routes (a path that no router has matches none).
MethodOf(route) ==
  CASE route \in {"index", "users", "protected", "read", "chat"} -> {"GET"}
    [] route \in {"login", "register", "bakery_write", "write"} -> {"POST"}
    [] OTHER -> {}

\* Routes behind middleware::from_extractor::<Claims>.  A layer covers the
\* routes that were added before it, wrong methods included.
Layered(route) == route \in {"users", "bakery_write"}

\* protected asks for Claims in its arguments.
Guarded(route) == Layered(route) \/ route = "protected"

\* Fault: the expiry is not looked at.
ValidForEver(token, key) == token.secret = key

\* Claims::from_request_parts: signature and expiry.
Valid(token, key) == token.secret = key /\ token.exp >= now - Leeway

\* What the layers and the router answer on their own, if they do.
\* CORS answers every OPTIONS, and a layered route asks for the token before it
\* looks at the method.
Refusal(route, method, token, key) ==
  CASE method = "OPTIONS" -> 200
    [] method # "OPTIONS" /\ route = "unknown" -> 404
    [] method # "OPTIONS" /\ Layered(route) /\ ~Valid(token, key) -> 401
    [] method # "OPTIONS" /\ route # "unknown" /\ (Layered(route) => Valid(token, key))
         /\ method \notin MethodOf(route) -> 405
    [] route = "protected" /\ method = "GET" /\ ~Valid(token, key) -> 401
    [] OTHER -> Pass

\* What a handler comes to, failed connections and rejected arguments included
\* (400 stands for each status of the latter).
Outcomes(route) ==
  CASE route = "index" -> {200}
    [] route = "users" -> {200, 400}
    [] route = "login" -> {200, 400, 401, 500}
    [] route = "register" -> {Panic}
    [] route = "protected" -> {200}
    [] route = "read" -> {200, 400, 404, 500}
    [] route = "bakery_write" -> {200, 201, 400, 500}
    [] route = "write" -> {200, 201, 400, 409, 500}
    [] route = "chat" -> {101, 400}

\* CatchPanicLayer
StatusOf(outcome) == IF outcome = Panic THEN 500 ELSE outcome

\* MatchedPath, or the path as it was sent.
Label(route) == IF route = "unknown" THEN "raw_path" ELSE route

\* Fault: the panic catcher is the outermost layer.
RecordedInside(r, method, route, outcome) ==
  IF outcome = Panic THEN counts
  ELSE [counts EXCEPT ![r] = Append(@, [method |-> method, route |-> Label(route), status |-> outcome])]

\* http_observability, when the layers inside it have answered.
Recorded(r, method, route, outcome) ==
  [counts EXCEPT ![r] = Append(@, [method |-> method, route |-> Label(route), status |-> StatusOf(outcome)])]

-----------------------------------------------------------------------------
(* Requests *)

\* The layers answer without a handler.
Refused(r, n, route, method, token) ==
  LET status == Refusal(route, method, token, keys[n]) IN
  /\ req[r] = New
  /\ status # Pass
  /\ req' = [req EXCEPT ![r] = [stage |-> "answered", route |-> route, method |-> method,
                                ran |-> FALSE, status |-> status]]
  /\ counts' = Recorded(r, method, route, status)
  /\ UNCHANGED <<now, deployed, keys, tokens, logins>>

\* The handler is called.
Handled(r, n, route, method, token) ==
  /\ req[r] = New
  /\ Refusal(route, method, token, keys[n]) = Pass
  /\ req' = [req EXCEPT ![r] = [stage |-> "running", replica |-> n, route |-> route, method |-> method]]
  /\ UNCHANGED <<now, deployed, keys, tokens, logins, counts>>

\* get_timestamp_x_days_from_now
Expiry == now + Ttl

\* login has checked the credentials and signs a token.
Issue(key) ==
  /\ tokens' = tokens \union {[secret |-> key, exp |-> Expiry]}
  /\ logins' = logins \union {[secret |-> key, at |-> now]}

\* The handler returns or panics, and the layers pass its answer on.
Answer(r, outcome) ==
  LET q == req[r] IN
  /\ q.stage = "running"
  /\ outcome \in Outcomes(q.route)
  /\ req' = [req EXCEPT ![r] = [stage |-> "answered", route |-> q.route, method |-> q.method,
                                ran |-> TRUE, status |-> StatusOf(outcome)]]
  /\ counts' = Recorded(r, q.method, q.route, outcome)
  /\ IF q.route = "login" /\ outcome = 200 THEN Issue(keys[q.replica]) ELSE UNCHANGED <<tokens, logins>>
  /\ UNCHANGED <<now, deployed, keys>>

\* The client goes away and hyper drops the request.
Drop(r) ==
  /\ req[r].stage = "running"
  /\ req' = [req EXCEPT ![r] = Dropped]
  /\ UNCHANGED <<now, deployed, keys, tokens, logins, counts>>

-----------------------------------------------------------------------------
(* Surroundings *)

Tick ==
  /\ now < MaxTime
  /\ now' = now + 1
  /\ UNCHANGED <<deployed, keys, tokens, logins, req, counts>>

\* External: an operator changes the secret of the deployment.
Rotate(s) ==
  /\ deployed' = s
  /\ UNCHANGED <<now, keys, tokens, logins, req, counts>>

\* A replica is replaced: its requests are gone, its key is read anew.
Restart(n) ==
  /\ keys' = [keys EXCEPT ![n] = deployed]
  /\ req' = [r \in Requests |->
       IF req[r].stage = "running" /\ req[r].replica = n THEN Dropped ELSE req[r]]
  /\ UNCHANGED <<now, deployed, tokens, logins, counts>>

Next ==
  \/ \E r \in Requests :
       \/ \E n \in Replicas, route \in Routes, method \in Methods, token \in tokens \union {NoToken} :
            Refused(r, n, route, method, token) \/ Handled(r, n, route, method, token)
       \/ \E outcome \in Status \union {Panic} : Answer(r, outcome)
       \/ Drop(r)
  \/ Tick
  \/ \E s \in Secrets : Rotate(s)
  \/ \E n \in Replicas : Restart(n)

Spec == Init /\ [][Next]_vars

-----------------------------------------------------------------------------
(* Properties *)

\* A request is counted exactly when it is answered, once, and with the status
\* its client saw, whether a layer, a handler or the panic catcher answered.
CountedAsAnswered ==
  \A r \in Requests :
    counts[r] = IF req[r].stage = "answered"
                THEN <<[method |-> req[r].method, route |-> Label(req[r].route), status |-> req[r].status]>>
                ELSE <<>>

\* A handler of the bakery's writes, of the users and of protected is called
\* only after a login under the key of its replica that is not too long ago,
\* through restarts and changes of the secret.
GuardedNeedsLogin ==
  [][\A r \in Requests :
       req[r] = New /\ req'[r].stage = "running" /\ req'[r].route \in {"users", "bakery_write", "protected"} =>
         \E l \in logins : l.secret = keys[req'[r].replica] /\ now <= l.at + Ttl + Leeway]_vars

\* Nobody is asked for a token where none is needed.
OpenRoutesStayOpen ==
  \A r \in Requests :
    req[r].stage = "answered" /\ req[r].status = 401 =>
      \/ req[r].route \in {"users", "bakery_write", "protected"}
      \/ req[r].route = "login" /\ req[r].ran
=============================================================================
