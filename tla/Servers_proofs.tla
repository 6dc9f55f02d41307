--------------------------- MODULE Servers_proofs ---------------------------
(***************************************************************************)
(* The properties of the two servers: of HttpStack for any requests,       *)
(* replicas, secrets and lifetimes of a token, and of GrpcObservability    *)
(* for any requests and codes.  The two share nothing; what belongs to the *)
(* second has Grpc in its name where the first has the same.               *)
(***************************************************************************)
EXTENDS HttpStack, GrpcObservability, TLAPS

-----------------------------------------------------------------------------
(* HttpStack *)

\* Whoever holds a token logged in under its key.
TokensFromLogins ==
  \A t \in tokens : \E l \in logins : l.secret = t.secret /\ t.exp = l.at + Ttl

\* The router has a handler for what runs.
RunningIsKnown == \A r \in Requests : req[r].stage = "running" => req[r].route # "unknown"

IInv ==
  /\ TypeOK
  /\ TokensFromLogins
  /\ RunningIsKnown
  /\ CountedAsAnswered
  /\ OpenRoutesStayOpen

\* The stage tells the five kinds of a request apart.
LEMMA Stages ==
  ASSUME TypeOK, NEW r \in Requests
  PROVE  /\ req[r].stage \in {"new", "running", "dropped", "answered"}
         /\ req[r].stage = "new" <=> req[r] = New
         /\ req[r].stage = "dropped" <=> req[r] = Dropped
         /\ req[r].stage = "running" <=> req[r] \in Running
         /\ req[r].stage = "answered" <=> req[r] \in Answered
<1>1. req[r] \in {New, Dropped} \union Running \union Answered BY DEF TypeOK
<1>2. CASE req[r] = New BY <1>2 DEF New, Dropped, Running, Answered
<1>3. CASE req[r] = Dropped BY <1>3 DEF New, Dropped, Running, Answered
<1>4. CASE req[r] \in Running BY <1>4 DEF New, Dropped, Running, Answered
<1>5. CASE req[r] \in Answered BY <1>5 DEF New, Dropped, Running, Answered
<1> QED BY <1>1, <1>2, <1>3, <1>4, <1>5

\* A layer answers with one of its statuses; 401 comes from a guarded route, and
\* an unknown route has no handler.
LEMMA RefusalKinds ==
  ASSUME NEW route \in Routes, NEW method \in Methods, NEW token, NEW key
  PROVE  /\ Refusal(route, method, token, key) \in {Pass, 200, 404, 401, 405}
         /\ Refusal(route, method, token, key) = 401 => route \in {"users", "bakery_write", "protected"}
         /\ route = "unknown" => Refusal(route, method, token, key) # Pass
         /\ Guarded(route) /\ Refusal(route, method, token, key) = Pass => Valid(token, key)
<1> DEFINE layered == Layered(route)
           valid   == Valid(token, key)
           fits    == method \in MethodOf(route)
<1>1. Refusal(route, method, token, key) =
        CASE method = "OPTIONS" -> 200
          [] method # "OPTIONS" /\ route = "unknown" -> 404
          [] method # "OPTIONS" /\ layered /\ ~valid -> 401
          [] method # "OPTIONS" /\ route # "unknown" /\ (layered => valid) /\ ~fits -> 405
          [] route = "protected" /\ method = "GET" /\ ~valid -> 401
          [] OTHER -> Pass
  BY DEF Refusal
<1>2. layered <=> route \in {"users", "bakery_write"} BY DEF Layered
<1>3. route = "protected" => (fits <=> method = "GET") BY DEF MethodOf
<1> HIDE DEF layered, valid, fits
<1>4. Guarded(route) <=> layered \/ route = "protected" BY DEF Guarded, layered
<1>5. valid <=> Valid(token, key) BY DEF valid
<1> QED BY <1>1, <1>2, <1>3, <1>4, <1>5 DEF Pass

\* What a handler comes to: 401 is the word of login only.
LEMMA OutcomeKinds ==
  ASSUME NEW route \in Routes \ {"unknown"}, NEW outcome \in Outcomes(route)
  PROVE  /\ outcome \in Status \union {Panic}
         /\ StatusOf(outcome) \in Status
         /\ StatusOf(outcome) = 401 => route = "login"
<1>1. outcome \in Status \union {Panic} /\ (outcome = 401 => route = "login")
  BY DEF Outcomes, Routes, Status, Panic
<1> QED BY <1>1 DEF StatusOf, Status, Panic

\* The first count of a request.
LEMMA FirstCount ==
  ASSUME TypeOK, CountedAsAnswered, NEW r \in Requests, req[r].stage # "answered",
         NEW method \in Methods, NEW route \in Routes, NEW outcome, StatusOf(outcome) \in Status
  PROVE  LET c == [method |-> method, route |-> Label(route), status |-> StatusOf(outcome)] IN
         /\ Recorded(r, method, route, outcome) = [counts EXCEPT ![r] = <<c>>]
         /\ Recorded(r, method, route, outcome) \in [Requests -> Seq(Count)]
<1> DEFINE c == [method |-> method, route |-> Label(route), status |-> StatusOf(outcome)]
<1>1. counts[r] = << >> BY DEF CountedAsAnswered
<1>2. c \in Count BY DEF Count, Label, Routes
<1> HIDE DEF c
<1>3. Append(counts[r], c) = <<c>> /\ <<c>> \in Seq(Count) BY <1>1, <1>2
<1>4. Recorded(r, method, route, outcome) = [counts EXCEPT ![r] = Append(counts[r], c)] BY DEF Recorded, c
<1>5. counts \in [Requests -> Seq(Count)] BY DEF TypeOK
<1>6. Recorded(r, method, route, outcome) = [counts EXCEPT ![r] = <<c>>] BY <1>3, <1>4
<1>7. Recorded(r, method, route, outcome) \in [Requests -> Seq(Count)] BY <1>3, <1>5, <1>6
<1> QED BY <1>6, <1>7 DEF c

-----------------------------------------------------------------------------
(* Requests of HttpStack *)

\* An answer from the layers is counted once.
LEMMA RefusedKeeps ==
  ASSUME IInv, NEW r \in Requests, NEW n \in Replicas, NEW route \in Routes, NEW method \in Methods,
         NEW token, Refused(r, n, route, method, token)
  PROVE  IInv'
<1> DEFINE status == Refusal(route, method, token, keys[n])
           answer == [stage |-> "answered", route |-> route, method |-> method, ran |-> FALSE, status |-> status]
           c == [method |-> method, route |-> Label(route), status |-> status]
<1>1. status \in {200, 404, 401, 405} /\ (status = 401 => route \in {"users", "bakery_write", "protected"})
  BY RefusalKinds DEF Refused
<1>2. req[r] = New /\ req' = [req EXCEPT ![r] = answer] /\ counts' = Recorded(r, method, route, status)
      /\ UNCHANGED <<now, deployed, keys, tokens, logins>>
  BY DEF Refused
<1> HIDE DEF status
<1>3. StatusOf(status) = status /\ status \in Status BY <1>1 DEF StatusOf, Status, Panic
<1>4. counts' = [counts EXCEPT ![r] = <<c>>] /\ counts' \in [Requests -> Seq(Count)]
  <2>1. req[r].stage # "answered" BY <1>2 DEF New
  <2> QED BY <1>2, <1>3, <2>1, FirstCount DEF IInv
<1>5. answer \in Answered BY <1>3 DEF Answered
<1>6. TypeOK' BY <1>2, <1>4, <1>5 DEF IInv, TypeOK
<1>7. TokensFromLogins' BY <1>2 DEF IInv, TokensFromLogins
<1>8. RunningIsKnown' BY <1>2 DEF IInv, TypeOK, RunningIsKnown
<1>9. CountedAsAnswered' BY <1>2, <1>4 DEF IInv, TypeOK, CountedAsAnswered
<1>10. OpenRoutesStayOpen' BY <1>1, <1>2 DEF IInv, TypeOK, OpenRoutesStayOpen
<1> QED BY <1>6, <1>7, <1>8, <1>9, <1>10 DEF IInv

\* What the layers pass on has a handler.
LEMMA HandledKeeps ==
  ASSUME IInv, NEW r \in Requests, NEW n \in Replicas, NEW route \in Routes, NEW method \in Methods,
         NEW token, Handled(r, n, route, method, token)
  PROVE  IInv'
<1> DEFINE q == [stage |-> "running", replica |-> n, route |-> route, method |-> method]
<1>1. req[r] = New /\ req' = [req EXCEPT ![r] = q] /\ UNCHANGED <<now, deployed, keys, tokens, logins, counts>>
  BY DEF Handled
<1>2. route # "unknown" BY RefusalKinds DEF Handled
<1>3. q \in Running BY DEF Running
<1>4. TypeOK' BY <1>1, <1>3 DEF IInv, TypeOK
<1>5. TokensFromLogins' BY <1>1 DEF IInv, TokensFromLogins
<1>6. RunningIsKnown' BY <1>1, <1>2 DEF IInv, TypeOK, RunningIsKnown
<1>7. CountedAsAnswered' BY <1>1 DEF IInv, TypeOK, CountedAsAnswered, New
<1>8. OpenRoutesStayOpen' BY <1>1 DEF IInv, TypeOK, OpenRoutesStayOpen
<1> QED BY <1>4, <1>5, <1>6, <1>7, <1>8 DEF IInv

\* An answer of a handler is counted once, and login's token comes with a login.
LEMMA AnswerKeeps ==
  ASSUME IInv, NEW r \in Requests, NEW outcome, Answer(r, outcome)
  PROVE  IInv'
<1> DEFINE q == req[r]
           answer == [stage |-> "answered", route |-> q.route, method |-> q.method,
                      ran |-> TRUE, status |-> StatusOf(outcome)]
           c == [method |-> q.method, route |-> Label(q.route), status |-> StatusOf(outcome)]
<1>1. /\ q.stage = "running" /\ outcome \in Outcomes(q.route)
      /\ req' = [req EXCEPT ![r] = answer]
      /\ counts' = Recorded(r, q.method, q.route, outcome)
      /\ UNCHANGED <<now, deployed, keys>>
  BY DEF Answer
<1>2. q \in Running BY <1>1, Stages DEF IInv
<1>3. q.route \in Routes \ {"unknown"} /\ q.method \in Methods /\ q.replica \in Replicas
  BY <1>1, <1>2 DEF Running, IInv, RunningIsKnown
<1>4. StatusOf(outcome) \in Status /\ (StatusOf(outcome) = 401 => q.route = "login")
  BY <1>1, <1>3, OutcomeKinds
<1>5. counts' = [counts EXCEPT ![r] = <<c>>] /\ counts' \in [Requests -> Seq(Count)]
  <2>1. q.stage # "answered" /\ q.route \in Routes BY <1>1, <1>3
  <2> HIDE DEF q
  <2>2. /\ Recorded(r, q.method, q.route, outcome) = [counts EXCEPT ![r] = <<c>>]
        /\ Recorded(r, q.method, q.route, outcome) \in [Requests -> Seq(Count)]
    BY <2>1, <1>3, <1>4, FirstCount DEF IInv, q
  <2> QED BY <2>2, <1>1
<1>6. answer \in Answered BY <1>3, <1>4 DEF Answered
<1>7. \/ UNCHANGED <<tokens, logins>>
      \/ Issue(keys[q.replica])
  BY DEF Answer
<1>8. tokens' \subseteq Token /\ logins' \subseteq [secret : Secrets, at : 0..MaxTime] /\ TokensFromLogins'
  <2>1. CASE UNCHANGED <<tokens, logins>> BY <2>1, <1>1 DEF IInv, TypeOK, TokensFromLogins
  <2>2. CASE Issue(keys[q.replica])
    <3> DEFINE key == keys[q.replica]
    <3>1. key \in Secrets /\ now \in 0..MaxTime /\ now + Ttl \in 0..(MaxTime + Ttl)
      BY <1>3, HttpAssumption DEF IInv, TypeOK
    <3> HIDE DEF key
    <3>2. tokens' = tokens \union {[secret |-> key, exp |-> now + Ttl]} /\ logins' = logins \union {[secret |-> key, at |-> now]}
      BY <2>2 DEF Issue, Expiry, key
    <3>3. tokens' \subseteq Token /\ logins' \subseteq [secret : Secrets, at : 0..MaxTime]
      BY <3>1, <3>2 DEF IInv, TypeOK, Token
    <3>4. ASSUME NEW t \in tokens' PROVE \E l \in logins' : l.secret = t.secret /\ t.exp = l.at + Ttl
      <4>1. CASE t \in tokens BY <4>1, <3>2 DEF IInv, TokensFromLogins
      <4>2. CASE t = [secret |-> key, exp |-> now + Ttl]
        <5> DEFINE l == [secret |-> key, at |-> now]
        <5>1. l \in logins' BY <3>2
        <5>2. l.secret = t.secret /\ t.exp = l.at + Ttl BY <4>2
        <5> QED BY <5>1, <5>2
      <4> QED BY <3>2, <4>1, <4>2
    <3>5. TokensFromLogins' BY <3>4 DEF TokensFromLogins
    <3> QED BY <3>3, <3>5
  <2> QED BY <1>7, <2>1, <2>2
<1>9. TypeOK' BY <1>1, <1>5, <1>6, <1>8 DEF IInv, TypeOK
<1>10. RunningIsKnown' BY <1>1 DEF IInv, TypeOK, RunningIsKnown
<1>11. CountedAsAnswered' BY <1>1, <1>5 DEF IInv, TypeOK, CountedAsAnswered
<1>12. OpenRoutesStayOpen' BY <1>1, <1>4 DEF IInv, TypeOK, OpenRoutesStayOpen
<1> QED BY <1>8, <1>9, <1>10, <1>11, <1>12 DEF IInv

\* Requests that are dropped leave no trace, one at a time or with their replica.
LEMMA DroppedKeeps ==
  ASSUME IInv, req' \in [Requests -> {New, Dropped} \union Running \union Answered],
         \A r \in Requests : req'[r] = req[r] \/ (req[r].stage = "running" /\ req'[r] = Dropped),
         keys' \in [Replicas -> Secrets], UNCHANGED <<now, deployed, tokens, logins, counts>>
  PROVE  IInv'
<1>1. TypeOK' BY DEF IInv, TypeOK
<1>2. TokensFromLogins' BY DEF IInv, TokensFromLogins
<1>3. RunningIsKnown' BY DEF IInv, RunningIsKnown, Dropped
<1>4. ASSUME NEW r \in Requests
      PROVE  counts'[r] = IF req'[r].stage = "answered"
                          THEN <<[method |-> req'[r].method, route |-> Label(req'[r].route), status |-> req'[r].status]>>
                          ELSE <<>>
  <2>1. CASE req'[r] = req[r] BY <2>1 DEF IInv, CountedAsAnswered
  <2>2. CASE req[r].stage = "running" /\ req'[r] = Dropped
    <3>1. counts[r] = << >> BY <2>2 DEF IInv, CountedAsAnswered
    <3>2. req'[r].stage # "answered" BY <2>2 DEF Dropped
    <3> QED BY <3>1, <3>2
  <2> QED BY <2>1, <2>2
<1>5. CountedAsAnswered' BY <1>4 DEF CountedAsAnswered, Label
<1>6. OpenRoutesStayOpen' BY DEF IInv, OpenRoutesStayOpen, Dropped
<1> QED BY <1>1, <1>2, <1>3, <1>5, <1>6 DEF IInv

-----------------------------------------------------------------------------
(* The invariant *)

\* At the start there are no tokens and no counts.
LEMMA InitEstablishes == Init => IInv
<1> SUFFICES ASSUME Init PROVE IInv OBVIOUS
<1>1. TypeOK BY HttpAssumption DEF Init, TypeOK
<1>2. TokensFromLogins /\ RunningIsKnown /\ CountedAsAnswered /\ OpenRoutesStayOpen
  BY DEF Init, TokensFromLogins, RunningIsKnown, CountedAsAnswered, OpenRoutesStayOpen, New
<1> QED BY <1>1, <1>2 DEF IInv

\* One step per action.
LEMMA StepKeeps == IInv /\ [Next]_vars => IInv'
<1> SUFFICES ASSUME IInv, [Next]_vars PROVE IInv' OBVIOUS
<1> USE DEF IInv
<1>1. CASE UNCHANGED vars
  BY <1>1 DEF vars, TypeOK, TokensFromLogins, RunningIsKnown, CountedAsAnswered, OpenRoutesStayOpen
<1>2. ASSUME NEW r \in Requests, NEW n \in Replicas, NEW route \in Routes, NEW method \in Methods,
             NEW token \in tokens \union {NoToken},
             Refused(r, n, route, method, token) \/ Handled(r, n, route, method, token)
      PROVE  IInv'
  BY <1>2, RefusedKeeps, HandledKeeps
<1>3. ASSUME NEW r \in Requests, NEW outcome \in Status \union {Panic}, Answer(r, outcome) PROVE IInv'
  BY <1>3, AnswerKeeps
<1>4. ASSUME NEW r \in Requests, Drop(r) PROVE IInv'
  BY <1>4, DroppedKeeps DEF Drop, TypeOK
<1>5. CASE Tick
  <2>1. now' \in 0..MaxTime BY <1>5, HttpAssumption DEF Tick, TypeOK
  <2>2. TypeOK' BY <1>5, <2>1 DEF Tick, TypeOK
  <2> QED BY <1>5, <2>2 DEF Tick, TokensFromLogins, RunningIsKnown, CountedAsAnswered, OpenRoutesStayOpen
<1>6. ASSUME NEW s \in Secrets, Rotate(s) PROVE IInv'
  BY <1>6 DEF Rotate, TypeOK, TokensFromLogins, RunningIsKnown, CountedAsAnswered, OpenRoutesStayOpen
<1>7. ASSUME NEW n \in Replicas, Restart(n) PROVE IInv'
  BY <1>7, DroppedKeeps DEF Restart, TypeOK
<1> QED BY <1>1, <1>2, <1>3, <1>4, <1>5, <1>6, <1>7 DEF Next

-----------------------------------------------------------------------------
(* Theorems *)

\* The inductive invariant holds.
THEOREM HttpInvariant == Spec => []IInv
  BY InitEstablishes, StepKeeps, PTL DEF Spec

\* Type correctness: in particular no panic reaches a client as such.
THEOREM HttpTypeOK == Spec => []TypeOK
<1>1. IInv => TypeOK BY DEF IInv
<1> QED BY <1>1, HttpInvariant, PTL

\* A request is counted when it is answered, once, with the status of the answer.
THEOREM HttpCountedAsAnswered == Spec => []CountedAsAnswered
<1>1. IInv => CountedAsAnswered BY DEF IInv
<1> QED BY <1>1, HttpInvariant, PTL

\* 401 is for the guarded routes and for a failed login.
THEOREM HttpOpenRoutesStayOpen == Spec => []OpenRoutesStayOpen
<1>1. IInv => OpenRoutesStayOpen BY DEF IInv
<1> QED BY <1>1, HttpInvariant, PTL

\* No handler of a guarded route is called without a login under the key of
\* its replica, recent enough by the clock of that replica.
THEOREM HttpGuardedNeedsLogin == Spec => GuardedNeedsLogin
<1> DEFINE needsLogin ==
       \A r \in Requests :
         req[r] = New /\ req'[r].stage = "running" /\ req'[r].route \in {"users", "bakery_write", "protected"} =>
           \E l \in logins : l.secret = keys[req'[r].replica] /\ now <= l.at + Ttl + Leeway
<1>1. IInv /\ [Next]_vars => [needsLogin]_vars
  <2> SUFFICES ASSUME IInv, Next, NEW r \in Requests, req[r] = New,
                      req'[r].stage = "running", req'[r].route \in {"users", "bakery_write", "protected"}
               PROVE  \E l \in logins : l.secret = keys[req'[r].replica] /\ now <= l.at + Ttl + Leeway
    OBVIOUS
  <2>1. req \in [Requests -> {New, Dropped} \union Running \union Answered] /\ req'[r] # req[r]
    BY DEF IInv, TypeOK, New
  <2>2. PICK n \in Replicas, route \in Routes, method \in Methods, token \in tokens \union {NoToken} :
          Handled(r, n, route, method, token)
    <3>1. ASSUME NEW k \in Requests, NEW n \in Replicas, NEW route \in Routes, NEW method \in Methods,
                 NEW token \in tokens \union {NoToken}, Refused(k, n, route, method, token)
          PROVE  FALSE
      BY <3>1, <2>1 DEF Refused
    <3>2. ASSUME NEW k \in Requests, NEW n \in Replicas, NEW route \in Routes, NEW method \in Methods,
                 NEW token \in tokens \union {NoToken}, Handled(k, n, route, method, token)
          PROVE  k = r
      BY <3>2, <2>1 DEF Handled
    <3>3. ASSUME NEW k \in Requests, NEW outcome, Answer(k, outcome) PROVE FALSE
      BY <3>3, <2>1 DEF Answer
    <3>4. ASSUME NEW k \in Requests, Drop(k) PROVE FALSE BY <3>4, <2>1 DEF Drop, Dropped
    <3>5. ASSUME NEW n \in Replicas, Restart(n) PROVE FALSE BY <3>5, <2>1 DEF Restart, Dropped
    <3>6. ~Tick /\ \A s \in Secrets : ~Rotate(s) BY <2>1 DEF Tick, Rotate
    <3> QED BY <3>1, <3>2, <3>3, <3>4, <3>5, <3>6 DEF Next
  <2>3. req'[r] = [stage |-> "running", replica |-> n, route |-> route, method |-> method]
    BY <2>1, <2>2 DEF Handled
  <2>4. Guarded(route) BY <2>3 DEF Guarded, Layered
  <2>5. token.secret = keys[n] /\ token.exp >= now - Leeway
    BY <2>2, <2>4, RefusalKinds DEF Handled, Valid
  <2>6. keys[n] \in Secrets BY DEF IInv, TypeOK
  <2>7. token \in tokens BY <2>2, <2>5, <2>6, HttpAssumption DEF NoToken
  <2>8. PICK l \in logins : l.secret = token.secret /\ token.exp = l.at + Ttl
    BY <2>7 DEF IInv, TokensFromLogins
  <2>9. l.at \in Nat /\ now \in Nat /\ Ttl \in Nat /\ Leeway \in Nat BY HttpAssumption DEF IInv, TypeOK
  <2>10. now <= l.at + Ttl + Leeway BY <2>5, <2>8, <2>9
  <2>11. l.secret = keys[req'[r].replica] BY <2>3, <2>5, <2>8
  <2> QED BY <2>10, <2>11
<1> QED BY <1>1, HttpInvariant, PTL DEF Spec, GuardedNeedsLogin

-----------------------------------------------------------------------------
(* GrpcObservability *)

\* Nothing is recorded before the inner service is done.
NotYet(r) == phase[r] \in {"new", "handling"} => recorded[r] = 0 /\ fallback[r] = NoCode /\ shown[r] = NoCode

\* The flag of the body tells whether something was recorded, but for a service
\* that failed before there was a body.
FlagTells(r) ==
  /\ recorded[r] \in {0, 1}
  /\ phase[r] # "failed" => (recorded[r] = 1 <=> completed[r])

\* Headers and trailers do not both carry a status; the flag of a body that
\* goes on stands for a status that was sent.
OneStatus(r) ==
  /\ phase[r] = "headers" => fallback[r] = shown[r] /\ shown[r] # NoCode /\ ~completed[r]
  /\ phase[r] = "streaming" => fallback[r] = NoCode /\ (completed[r] <=> shown[r] # NoCode)

\* The code that was recorded.
RightCode(r) == recorded[r] > 0 => code[r] = IF phase[r] = "failed" THEN Unknown ELSE shown[r]

GrpcIInv ==
  /\ GrpcTypeOK
  /\ \A r \in Rpcs : NotYet(r) /\ FlagTells(r) /\ OneStatus(r) /\ RightCode(r)

\* At the start nothing is recorded.
LEMMA GrpcInitEstablishes == GrpcInit => GrpcIInv
  BY DEF GrpcInit, GrpcIInv, GrpcTypeOK, NotYet, FlagTells, OneStatus, RightCode

\* The first completion of a body, with the code that its client is sent by the
\* same step or before, or with Unknown by the step that fails.
LEMMA CompleteKeeps ==
  ASSUME GrpcIInv, NEW r \in Rpcs, NEW c \in Codes, Complete(r, c), ~completed[r],
         phase[r] \in {"headers", "streaming"},
         NEW p \in {"streaming", "finished", "failed"}, phase' = [phase EXCEPT ![r] = p],
         UNCHANGED fallback,
         \/ p = "failed" /\ c = Unknown /\ UNCHANGED shown
         \/ p = "streaming" /\ phase[r] = "streaming" /\ shown' = [shown EXCEPT ![r] = c]
         \/ p = "finished" /\ shown[r] = c /\ UNCHANGED shown
  PROVE  GrpcIInv'
<1> USE GrpcAssumption DEF GrpcIInv, GrpcTypeOK
<1>1. /\ completed' = [completed EXCEPT ![r] = TRUE]
      /\ recorded' = [recorded EXCEPT ![r] = @ + 1]
      /\ code' = [code EXCEPT ![r] = c]
  BY DEF Complete, Record
<1>2. recorded[r] = 0
  <2>1. phase[r] # "failed" OBVIOUS
  <2> QED BY <2>1 DEF FlagTells
<1>3. shown' \in [Rpcs -> Codes \union {NoCode}] OBVIOUS
<1>4. recorded' \in [Rpcs -> Nat] /\ recorded'[r] = 1 BY <1>1, <1>2
<1>5. GrpcTypeOK' BY <1>1, <1>3, <1>4
<1>6. NotYet(r)' /\ FlagTells(r)' BY <1>1, <1>4 DEF NotYet, FlagTells
<1>7. OneStatus(r)' BY <1>1 DEF OneStatus
<1>8. RightCode(r)' BY <1>1 DEF RightCode
<1>9. ASSUME NEW k \in Rpcs, k # r PROVE NotYet(k)' /\ FlagTells(k)' /\ OneStatus(k)' /\ RightCode(k)'
  <2>1. /\ phase'[k] = phase[k] /\ fallback'[k] = fallback[k] /\ completed'[k] = completed[k]
        /\ recorded'[k] = recorded[k] /\ code'[k] = code[k] /\ shown'[k] = shown[k]
    BY <1>1, <1>9
  <2> QED BY <2>1 DEF NotYet, FlagTells, OneStatus, RightCode
<1> QED BY <1>5, <1>6, <1>7, <1>8, <1>9

\* Steps of the inner service.
LEMMA ServiceKeeps ==
  ASSUME GrpcIInv, NEW r \in Rpcs,
         Call(r) \/ ServiceFails(r) \/ RespondHeadersOnly(r) \/ RespondStream(r)
  PROVE  GrpcIInv'
<1> USE GrpcAssumption
<1>1. CASE Call(r)
  BY <1>1 DEF Call, GrpcIInv, GrpcTypeOK, NotYet, FlagTells, OneStatus, RightCode
<1>2. CASE ServiceFails(r)
  BY <1>2 DEF ServiceFails, Record, GrpcIInv, GrpcTypeOK, NotYet, FlagTells, OneStatus, RightCode
<1>3. CASE RespondHeadersOnly(r)
  BY <1>3 DEF RespondHeadersOnly, GrpcIInv, GrpcTypeOK, NotYet, FlagTells, OneStatus, RightCode
<1>4. CASE RespondStream(r)
  BY <1>4 DEF RespondStream, GrpcIInv, GrpcTypeOK, NotYet, FlagTells, OneStatus, RightCode
<1> QED BY <1>1, <1>2, <1>3, <1>4

\* Steps of the body.
LEMMA BodyKeeps ==
  ASSUME GrpcIInv, NEW r \in Rpcs, PollData(r) \/ PollTrailers(r) \/ PollError(r) \/ PollEnd(r)
  PROVE  GrpcIInv'
<1> USE GrpcAssumption
<1>1. CASE PollData(r)
  <2>1. fallback[r] = NoCode BY <1>1 DEF PollData, GrpcIInv, OneStatus
  <2>2. UNCHANGED grpcVars BY <1>1, <2>1 DEF PollData, Observe, FrameCode, grpcVars
  <2> QED BY <2>2 DEF grpcVars, GrpcIInv, GrpcTypeOK, NotYet, FlagTells, OneStatus, RightCode
<1>2. CASE PollTrailers(r)
  <2>1. PICK c \in Codes : Observe(r, c) /\ shown' = [shown EXCEPT ![r] = c] BY <1>2 DEF PollTrailers
  <2>2. Complete(r, c) BY <2>1 DEF Observe, FrameCode
  <2>3. ~completed[r] /\ phase[r] = "streaming" BY <1>2 DEF PollTrailers, GrpcIInv, OneStatus
  <2>4. phase' = [phase EXCEPT ![r] = "streaming"] /\ UNCHANGED fallback
    BY <1>2, <2>3 DEF PollTrailers, GrpcIInv, GrpcTypeOK
  <2> QED BY <2>1, <2>2, <2>3, <2>4, CompleteKeeps
<1>3. CASE PollError(r)
  <2>1. ~completed[r] BY <1>3 DEF PollError, GrpcIInv, OneStatus
  <2>2. Complete(r, Unknown) BY <1>3 DEF PollError
  <2> QED BY <1>3, <2>1, <2>2, CompleteKeeps DEF PollError
<1>4. CASE PollEnd(r)
  <2>1. CASE phase[r] = "streaming"
    <3>1. completed[r] BY <1>4, <2>1 DEF PollEnd, GrpcIInv, OneStatus
    <3>2. UNCHANGED <<completed, recorded, code>> BY <1>4, <3>1 DEF PollEnd, Complete
    <3> QED BY <1>4, <2>1, <3>2 DEF PollEnd, GrpcIInv, GrpcTypeOK, NotYet, FlagTells, OneStatus, RightCode
  <2>2. CASE phase[r] = "headers"
    <3>1. fallback[r] = shown[r] /\ fallback[r] \in Codes /\ ~completed[r]
      BY <2>2 DEF GrpcIInv, GrpcTypeOK, OneStatus
    <3>2. Complete(r, fallback[r]) BY <1>4, <3>1 DEF PollEnd
    <3> QED BY <1>4, <2>2, <3>1, <3>2, CompleteKeeps DEF PollEnd
  <2> QED BY <1>4, <2>1, <2>2 DEF PollEnd
<1> QED BY <1>1, <1>2, <1>3, <1>4

\* The server or the client lets go of the request.
LEMMA EndKeeps == ASSUME GrpcIInv, NEW r \in Rpcs, StopPolling(r) \/ Reset(r) PROVE GrpcIInv'
  BY DEF StopPolling, Reset, GrpcIInv, GrpcTypeOK, NotYet, FlagTells, OneStatus, RightCode

\* One step per action or group of actions above.
LEMMA GrpcStepKeeps == GrpcIInv /\ [GrpcNext]_grpcVars => GrpcIInv'
<1> SUFFICES ASSUME GrpcIInv, [GrpcNext]_grpcVars PROVE GrpcIInv' OBVIOUS
<1>1. CASE UNCHANGED grpcVars BY <1>1 DEF grpcVars, GrpcIInv, GrpcTypeOK, NotYet, FlagTells, OneStatus, RightCode
<1>2. CASE GrpcNext BY <1>2, ServiceKeeps, BodyKeeps, EndKeeps DEF GrpcNext
<1> QED BY <1>1, <1>2

-----------------------------------------------------------------------------
(* Theorems *)

\* The inductive invariant holds.
THEOREM GrpcInvariant == GrpcSpec => []GrpcIInv
  BY GrpcInitEstablishes, GrpcStepKeeps, PTL DEF GrpcSpec

\* Type correctness.
THEOREM GrpcTypes == GrpcSpec => []GrpcTypeOK
<1>1. GrpcIInv => GrpcTypeOK BY DEF GrpcIInv
<1> QED BY <1>1, GrpcInvariant, PTL

\* No request is counted twice.
THEOREM GrpcCountedAtMostOnce == GrpcSpec => []CountedAtMostOnce
<1>1. GrpcIInv => CountedAtMostOnce
  <2> SUFFICES ASSUME GrpcIInv, NEW r \in Rpcs PROVE recorded[r] <= 1 BY DEF CountedAtMostOnce
  <2>1. recorded[r] \in {0, 1} BY DEF GrpcIInv, FlagTells
  <2> QED BY <2>1
<1> QED BY <1>1, GrpcInvariant, PTL

\* What is recorded is what the client was sent, or Unknown.
THEOREM GrpcRecordedCodeIsShown == GrpcSpec => []RecordedCodeIsShown
<1>1. GrpcIInv => RecordedCodeIsShown BY DEF GrpcIInv, RightCode, RecordedCodeIsShown
<1> QED BY <1>1, GrpcInvariant, PTL
=============================================================================
