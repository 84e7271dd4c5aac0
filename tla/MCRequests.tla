----------------------------- MODULE MCRequests -----------------------------
EXTENDS Requests, TLC

CONSTANTS q1, q2, q3, q4

\* The decorators against what they promise, over every declaration and value.
ASSUME EveryFieldPromises

Plain == [route |-> "health", peer |-> "proxy", client |-> "a", forwarded |-> FALSE, basic |-> FALSE,
          signedIn |-> TRUE, form |-> TRUE, fits |-> TRUE, files |-> 1, query |-> <<>>]
To(route, query) == [Plain EXCEPT !.route = route, !.query = query]
Other == [Plain EXCEPT !.client = "b", !.forwarded = TRUE]

\* One parameter of every reading, and pairs of those that belong together.
Texts == {Text(w) : w \in {"none", "seven", "zero", "minusOne", "oneAndAHalf", "sentence", "asc", "uuid"}}
Few == {Text(w) : w \in {"none", "seven", "minusOne", "uuid"}}
MCInputs ==
    {Plain, Other, To("all", <<>>), To("cursor", <<>>), To("profile", [firstName |-> Null]),
     To("profile", [username |-> Null]), To("profile", [unknown |-> Object]),
     To("all", [unknown |-> Text("seven")]), To("all", [limit |-> List(<<Text("seven"), Text("seven")>>)])}
    \cup {To("all", p :> v) : p \in DOMAIN OffsetQuery, v \in Texts}
    \cup {To("cursor", p :> v) : p \in DOMAIN CursorQuery, v \in Texts}
    \cup {To("all", [page |-> v, limit |-> w]) : v \in Few, w \in Few}
    \cup {To("cursor", [afterCursor |-> v, beforeCursor |-> w]) : v \in Few, w \in Few}
    \cup {To("one", [id |-> v]) : v \in {Text("uuid"), Text("seven")}}
    \cup {[Plain EXCEPT !.route = r, !.form = b, !.fits = c, !.files = n] :
              r \in Uploads, b \in BOOLEAN, c \in BOOLEAN, n \in 0..2}
    \cup {[Plain EXCEPT !.route = r, !.basic = b, !.forwarded = c] :
              r \in {"docs", "reference", "auth"}, b \in BOOLEAN, c \in BOOLEAN}
    \cup {[Plain EXCEPT !.route = r, !.signedIn = FALSE] : r \in {"all", "multiple", "health"}}

\* The usual configuration with one setting changed, and short quotas.
Usual == [trustProxy |-> TRUE, limit |-> 2, ttl |-> 2, localFileUpload |-> FALSE, bucket |-> TRUE,
          reports |-> TRUE, docs |-> TRUE]
MCConfigs ==
    {Usual, [Usual EXCEPT !.limit = 1], [Usual EXCEPT !.ttl = 0]}
    \cup {[Usual EXCEPT ![s] = ~@] : s \in {"trustProxy", "localFileUpload", "bucket", "reports", "docs"}}

\* Bounds: one request of any input, with another of the same input beside it if
\* it uploads two files; or else two requests of the two clients behind a proxy,
\* four in the configurations that are about quotas, but then without faults and
\* one at a time but where they wait for the throttler.
\* Requests come in the order of their numbers.  One crash, three ticks.
Order == <<q1, q2, q3, q4>>
Sent == {p \in Requests : pc[p] # "idle"}
Quiet == \A q \in Sent : asked[q] \in {Plain, Other}
Faultless == \A q \in Requests : faults[q] = {} /\ pc[q] # "lost"
Waiting(q) == pc[q] \in {"idle", "throttle", "answered"}
Many == Faultless /\ config \in {Usual, [Usual EXCEPT !.limit = 1]} /\ \A q \in Requests : Waiting(q)
Follows(i) ==
    CASE Sent = {} -> TRUE
      [] Quiet -> \/ Cardinality(Sent) = 1 /\ i \in {Plain, Other}
                  \/ Many /\ i = IF Cardinality(Sent) = 2 THEN Plain ELSE Other
      [] OTHER -> Cardinality(Sent) = 1 /\ i = asked[q1] /\ i.route = "multiple" /\ i.files = 2
MCArrive ==
    /\ Cardinality(Sent) < 4
    /\ \E i \in Inputs : Follows(i) /\ Arrive(Order[Cardinality(Sent) + 1], i)
RequestStep(q) ==
    /\ Step(q) \/ \E f \in Files : Put(q, f)
    /\ Cardinality(Sent) > 2 => faults'[q] = {} /\ \A p \in Requests \ {q} : Waiting(p)
OneCrash ==
    /\ Cardinality(Sent) < 3 /\ \A q \in Requests : pc[q] # "lost"
    /\ \E q \in Requests : pc[q] \in Open
    /\ Crash
MCTick == now < 3 /\ Quiet /\ Sent # {} /\ Tick /\ (Cardinality(Sent) > 2 => \A q \in Requests : Waiting(q))
MCNext == MCArrive \/ (\E q \in Requests : RequestStep(q)) \/ OneCrash \/ MCTick
MCSpec == Init /\ [][MCNext]_vars /\ Fairness
=============================================================================
