------------------------------ MODULE Requests ------------------------------
(***************************************************************************)
(* A request to the server, from the first hook to its answer: basic auth  *)
(* of the docs (src/main.ts), AppThrottlerGuard, AuthGuard, interceptors,  *)
(* pipes, the handler, and the interceptors again for its error.  Requests *)
(* run concurrently; Redis, Better Auth, the database and the bucket are   *)
(* asked in between and may fail, and the server may crash.                *)
(***************************************************************************)
EXTENDS Fields, FiniteSets

CONSTANTS Requests, \* the requests that clients make
          Inputs,   \* what they may ask
          Configs   \* configurations of the server

Routes == {"docs", "reference", "auth", "health", "all", "cursor", "one", "profile", "single", "multiple"}
Uploads == {"single", "multiple"}
Files == 1..2

\* peer: the address that connects (a proxy's, for all clients behind it).
ASSUME RequestsAssumption ==
    /\ Inputs # {}
    /\ \A i \in Inputs :
        /\ i.route \in Routes /\ i.forwarded \in BOOLEAN /\ i.basic \in BOOLEAN /\ i.signedIn \in BOOLEAN
        /\ i.form \in BOOLEAN /\ i.fits \in BOOLEAN /\ i.files \in 0..2
        /\ i.peer \in STRING \ {"throws"} /\ i.client \in STRING /\ i.query \in [DOMAIN i.query -> Raw]
        \* a URL carries texts and lists, only the body of a profile update is JSON
        /\ i.route # "profile" => \A p \in DOMAIN i.query : IsText(i.query[p]) \/ IsList(i.query[p])
    /\ \A c \in Configs :
        /\ c.limit \in Nat \ {0} /\ c.ttl \in Nat
        /\ {c.trustProxy, c.localFileUpload, c.bucket, c.reports, c.docs} \subseteq BOOLEAN
-----------------------------------------------------------------------------
VARIABLES config,   \* what the server was started with
          pc,       \* Requests -> where it is
          asked,    \* Requests -> its input
          faults,   \* Requests -> the outside calls that failed for it
          admitted, \* Requests -> when the throttler let it pass
          answer,   \* Requests -> status, files listed, reported to Sentry
          hits,     \* the throttler's counters in Redis
          pending,  \* the PutObject calls under way: request and file
          stored,   \* the objects in the bucket: request and file
          now

vars == <<config, pc, asked, faults, admitted, answer, hits, pending, stored, now>>

Open == {"hook", "throttle", "guard", "pipe", "handler", "storing"}
NoAnswer == [status |-> 0, files |-> <<>>, reported |-> FALSE]
Outside == {"counters", "session", "auth", "database", "redis", "docs", "bucket"}
Addresses == {i.peer : i \in Inputs} \cup {i.client : i \in Inputs}

TypeOK ==
    /\ config \in Configs
    /\ pc \in [Requests -> {"idle", "answered", "lost"} \cup Open]
    /\ asked \in [Requests -> Inputs]
    /\ faults \in [Requests -> SUBSET Outside]
    /\ admitted \in [Requests -> Nat \cup {-1}]
    /\ answer \in [Requests -> [status : Nat, files : Seq(Files), reported : BOOLEAN]]
    /\ hits \in [Routes \X Addresses -> [count : Nat, expires : Nat, blocked : Nat]]
    /\ pending \subseteq Requests \X Files /\ stored \subseteq Requests \X Files
    /\ now \in Nat

Init ==
    /\ config \in Configs
    /\ pc = [q \in Requests |-> "idle"]
    /\ asked = [q \in Requests |-> CHOOSE i \in Inputs : TRUE]
    /\ faults = [q \in Requests |-> {}]
    /\ admitted = [q \in Requests |-> -1]
    /\ answer = [q \in Requests |-> NoAnswer]
    /\ hits = [k \in Routes \X Addresses |-> [count |-> 0, expires |-> 0, blocked |-> 0]]
    /\ pending = {} /\ stored = {} /\ now = 0

Go(q, next) == pc' = [pc EXCEPT ![q] = next] /\ UNCHANGED answer

Respond(q, status, files, reported) ==
    /\ pc' = [pc EXCEPT ![q] = "answered"]
    /\ answer' = [answer EXCEPT ![q] = [status |-> status, files |-> files, reported |-> reported]]

Answer(q, status) == Respond(q, status, <<>>, FALSE)

\* SentryInterceptor sees what is thrown after the guards, HttpExceptions aside.
Throw(q) == Respond(q, 500, <<>>, config.reports)

Failing(q, calls) == faults' = [faults EXCEPT ![q] = @ \cup calls]
-----------------------------------------------------------------------------
Arrive(q, i) ==
    /\ pc[q] = "idle"
    /\ asked' = [asked EXCEPT ![q] = i]
    /\ Go(q, "hook")
    /\ UNCHANGED <<config, faults, admitted, hits, pending, stored, now>>

\* Mutant: wrong credentials get no reply.
HookSilent(q) ==
    /\ pc[q] = "hook" /\ (asked[q].basic \/ asked[q].route \notin {"docs", "reference"})
    /\ Go(q, IF asked[q].route \in {"docs", "reference", "auth"} THEN "handler" ELSE "throttle")
    /\ UNCHANGED <<config, asked, faults, admitted, hits, pending, stored, now>>

\* onRequest: the three documentation paths ask for basic auth.  The pages and
\* Better Auth's own route are Fastify's; the guards of Nest do not see them.
Hook(q) ==
    /\ pc[q] = "hook"
    /\ LET i == asked[q]
       IN  IF i.route \in {"docs", "reference"} /\ ~i.basic THEN Answer(q, 401)
           ELSE Go(q, IF i.route \in {"docs", "reference", "auth"} THEN "handler" ELSE "throttle")
    /\ UNCHANGED <<config, asked, faults, admitted, hits, pending, stored, now>>

\* Mutant: requests are told apart by the client's address.
TrackerClient(i) == IF i.forwarded /\ ~config.trustProxy THEN "throws" ELSE i.client

\* getTracker: req.ips[0] is the peer; without trustProxy there is no req.ips.
Tracker(i) == IF i.forwarded /\ ~config.trustProxy THEN "throws" ELSE i.peer

\* The script of the throttler's storage: one hit counted, and blocked for a
\* ttl when it is one too many.
Hit(h) ==
    LET count == IF now < h.expires THEN h.count + 1 ELSE 1
    IN  [count |-> count, expires |-> IF now < h.expires THEN h.expires ELSE now + config.ttl,
         blocked |-> IF now >= h.blocked /\ count > config.limit THEN now + config.ttl ELSE h.blocked]

\* @UseGuards(AuthGuard) of UserController and FileController.
GuardedUsers == {"all", "cursor", "one", "profile"} \* Mutant: not on the files
Guarded == {"all", "cursor", "one", "profile"} \cup Uploads

\* AppThrottlerGuard, on every handler.
Throttle(q) ==
    /\ pc[q] = "throttle"
    /\ \/ /\ Tracker(asked[q]) = "throws"
          /\ Answer(q, 500)
          /\ UNCHANGED <<hits, admitted, faults>>
       \/ /\ Tracker(asked[q]) # "throws"
          /\ LET k == <<asked[q].route, Tracker(asked[q])>>
                 h == Hit(hits[k])
             IN  /\ hits' = IF config.ttl = 0 THEN hits ELSE [hits EXCEPT ![k] = h]
                 /\ IF config.ttl > 0 /\ now < h.blocked
                    THEN Answer(q, 429) /\ UNCHANGED admitted
                    ELSE /\ Go(q, IF asked[q].route \in Guarded THEN "guard" ELSE "pipe")
                         /\ admitted' = [admitted EXCEPT ![q] = now]
          /\ UNCHANGED faults
       \/ /\ Tracker(asked[q]) # "throws"
          /\ Failing(q, {"counters"}) /\ Answer(q, 500)
          /\ UNCHANGED <<hits, admitted>>
    /\ UNCHANGED <<config, asked, pending, stored, now>>

\* AuthGuard: none of the routes is public or optional.
Guard(q) ==
    /\ pc[q] = "guard"
    /\ \/ /\ IF asked[q].signedIn THEN Go(q, "pipe") ELSE Answer(q, 401)
          /\ UNCHANGED faults
       \/ Failing(q, {"session"}) /\ Answer(q, 500)
    /\ UNCHANGED <<config, asked, admitted, hits, pending, stored, now>>
-----------------------------------------------------------------------------
(* The DTOs. *)
\* Mutant: int is left out, as if minimum implied it.
WholeOptionalLoose == NumberFieldOptional([minimum |-> 1])

WholeOptional == NumberFieldOptional([int |-> TRUE, minimum |-> 1])
OffsetQuery ==
    [limit |-> WholeOptional, page |-> WholeOptional, q |-> StringFieldOptional(<<>>),
     order |-> EnumFieldOptional({"asc", "desc"}, <<>>)]
CursorQuery ==
    [limit |-> WholeOptional, afterCursor |-> StringFieldOptional(<<>>),
     beforeCursor |-> StringFieldOptional(<<>>), q |-> StringFieldOptional(<<>>)]
UpdateUserProfileDto ==
    [p \in {"username", "firstName", "lastName", "image"} |->
        StringFieldOptional(IF p = "username" THEN <<>> ELSE [nullable |-> TRUE])]
Dto(route) ==
    CASE route = "all" -> OffsetQuery [] route = "cursor" -> CursorQuery
      [] route = "profile" -> UpdateUserProfileDto

\* whitelist, forbidNonWhitelisted: other parameters are refused, but those of
\* an @Exclude()d class are dropped in the conversion.
Refused(i) ==
    \E p \in DOMAIN i.query :
        IF p \notin DOMAIN Dto(i.route) THEN i.route # "profile"
        ELSE ~Passes(Dto(i.route)[p], Transformed(Dto(i.route)[p], i.query[p]))

Param(i, p, default) ==
    IF p \in DOMAIN i.query THEN Transformed(Dto(i.route)[p], i.query[p]) ELSE default

\* The FileUploadInterceptor reads a form, 10 MB a file; then ParseUUIDPipe and
\* the ValidationPipe.
Pipe(q) ==
    /\ pc[q] = "pipe"
    /\ LET i == asked[q]
       IN  CASE i.route \in Uploads /\ i.form /\ ~i.fits -> Answer(q, 413)
             [] i.route = "single" /\ i.form /\ i.fits /\ i.files > 1 -> Answer(q, 400)
             [] i.route = "one" /\ ~Looks(i.query.id, "uuid") -> Answer(q, 400)
             [] i.route \in {"all", "cursor", "profile"} /\ Refused(i) -> Answer(q, 422)
             [] OTHER -> Go(q, "handler")
    /\ UNCHANGED <<config, asked, faults, admitted, hits, pending, stored, now>>
-----------------------------------------------------------------------------
(* The handlers. *)
Whole(v) == v[2] \div 2

\* findAllUsers: Postgres refuses a negative OFFSET.
OffsetOf(i) ==
    LET page == Whole(Param(i, "page", Number(2)))
        limit == Whole(Param(i, "limit", Number(20)))
    IN  (page - 1) * limit

\* findAllUsersCursor: the one cursor it looks up, if any.
CursorOf(i) ==
    LET after == Param(i, "afterCursor", Undefined)
        before == Param(i, "beforeCursor", Undefined)
    IN  IF after \notin {Undefined, Text("none")} THEN after ELSE before

QueryFails(i) ==
    \/ i.route = "all" /\ OffsetOf(i) < 0
    \/ i.route = "cursor" /\ CursorOf(i) \notin {Undefined, Text("none")} /\ ~Looks(CursorOf(i), "uuid")

HandleUser(q) ==
    /\ asked[q].route \in {"all", "cursor", "one", "profile"}
    /\ \/ /\ IF QueryFails(asked[q]) THEN Throw(q)
             ELSE \/ Answer(q, 200)
                  \/ asked[q].route \in {"one", "profile"} /\ Answer(q, 404)
          /\ UNCHANGED faults
       \/ Failing(q, {"database"}) /\ Throw(q)
    /\ UNCHANGED pending

\* HealthController.check: Terminus makes a 503 of a failed ping, but
\* DrizzleHealthIndicator throws a plain Error, which it throws on.
HandleHealth(q) ==
    /\ asked[q].route = "health"
    /\ \E down \in SUBSET ({"database", "redis"} \cup IF config.docs THEN {"docs"} ELSE {}) :
        /\ Failing(q, down)
        /\ IF "database" \in down THEN Throw(q) ELSE Answer(q, IF down = {} THEN 200 ELSE 503)
    /\ UNCHANGED pending

\* AuthModule.configure: its own catch, without Nest's interceptors.
HandleNative(q) ==
    /\ asked[q].route \in {"auth", "reference", "docs"}
    /\ \/ Answer(q, 200) /\ UNCHANGED faults
       \/ asked[q].route # "docs" /\ Failing(q, {"auth"}) /\ Answer(q, 500)
    /\ UNCHANGED pending

\* FileController: without a form, uploadFiles reads undefined.length.
HandleUpload(q) ==
    /\ asked[q].route \in Uploads
    /\ LET i == asked[q]
           files == 1..(IF i.form THEN i.files ELSE 0)
       IN  CASE ~i.form /\ i.route = "multiple" -> Throw(q) /\ UNCHANGED pending
             [] files = {} /\ (i.form \/ i.route = "single") -> Answer(q, 400) /\ UNCHANGED pending
             [] files # {} /\ config.localFileUpload ->
                    Respond(q, 200, [f \in files |-> f], FALSE) /\ UNCHANGED pending
             [] files # {} /\ ~config.localFileUpload /\ ~config.bucket -> Throw(q) /\ UNCHANGED pending
             [] OTHER -> Go(q, "storing") /\ pending' = pending \cup ({q} \X files)
    /\ UNCHANGED faults

Handle(q) ==
    /\ pc[q] = "handler"
    /\ HandleUser(q) \/ HandleHealth(q) \/ HandleNative(q) \/ HandleUpload(q)
    /\ UNCHANGED <<config, asked, admitted, hits, stored, now>>

Rest(q, f) == {g \in Files : g # f /\ <<q, g>> \in pending}

\* Mutant: the first file stored answers for all.
StoreAny(q, f) ==
    /\ <<q, f>> \in pending
    /\ pending' = pending \ {<<q, f>>}
    /\ stored' = stored \cup {<<q, f>>}
    /\ IF pc[q] = "storing" THEN Respond(q, 200, [g \in 1..asked[q].files |-> g], FALSE)
       ELSE UNCHANGED <<pc, answer>>
    /\ UNCHANGED <<config, asked, faults, admitted, hits, now>>

\* A PutObject of Promise.all succeeds; the last one answers the request.
Store(q, f) ==
    /\ <<q, f>> \in pending
    /\ pending' = pending \ {<<q, f>>}
    /\ stored' = stored \cup {<<q, f>>}
    /\ IF pc[q] = "storing" /\ Rest(q, f) = {}
       THEN Respond(q, 200, [g \in 1..asked[q].files |-> g], FALSE)
       ELSE UNCHANGED <<pc, answer>>
    /\ UNCHANGED <<config, asked, faults, admitted, hits, now>>

\* A PutObject fails: Promise.all rejects at once, the other ones go on.
Refuse(q, f) ==
    /\ <<q, f>> \in pending
    /\ pending' = pending \ {<<q, f>>}
    /\ Failing(q, {"bucket"})
    /\ IF pc[q] = "storing" THEN Throw(q) ELSE UNCHANGED <<pc, answer>>
    /\ UNCHANGED <<config, asked, admitted, hits, stored, now>>
-----------------------------------------------------------------------------
\* The server dies, and with it the requests and calls under way; Redis and the
\* bucket keep what they have.
Crash ==
    /\ pc' = [q \in Requests |-> IF pc[q] \in Open THEN "lost" ELSE pc[q]]
    /\ pending' = {}
    /\ UNCHANGED <<config, asked, faults, admitted, answer, hits, stored, now>>

Tick == now' = now + 1 /\ UNCHANGED <<config, pc, asked, faults, admitted, answer, hits, pending, stored>>

Step(q) == Hook(q) \/ Throttle(q) \/ Guard(q) \/ Pipe(q) \/ Handle(q)
Put(q, f) == Store(q, f) \/ Refuse(q, f)

Next == \/ \E q \in Requests : \/ \E i \in Inputs : Arrive(q, i)
                               \/ Step(q)
                               \/ \E f \in Files : Put(q, f)
        \/ Crash \/ Tick

\* The event loop runs every continuation, and every outside call ends.
Fairness ==
    \A q \in Requests : WF_vars(Step(q)) /\ \A f \in Files : WF_vars(Put(q, f))

Spec == Init /\ [][Next]_vars /\ Fairness
-----------------------------------------------------------------------------
\* What the DTOs tell of their fields, Swagger included.
FromOne == [kind |-> "number", optional |-> TRUE, o |-> [int |-> TRUE, minimum |-> 1]]
AnyText == [kind |-> "string", optional |-> TRUE, o |-> <<>>]
Told ==
    [all |-> [limit |-> FromOne, page |-> FromOne, q |-> AnyText,
              order |-> [kind |-> "enum", optional |-> TRUE, o |-> [enum |-> {"asc", "desc"}]]],
     cursor |-> [limit |-> FromOne, afterCursor |-> AnyText, beforeCursor |-> AnyText, q |-> AnyText],
     profile |-> [username |-> AnyText, firstName |-> AnyText, lastName |-> AnyText, image |-> AnyText]]

\* minimum is Swagger's word, the decorator's own is min: whole numbers below it pass.
Unchecked(told, v) == "minimum" \in DOMAIN told.o /\ IsNumber(v) /\ v[2] % 2 = 0 /\ ~(v[2] >= 2 * told.o.minimum)

(* A handler gets from the client only what its DTO tells, and the limits  *)
(* and pages below the declared minimum that nothing checks; a 422 is given*)
(* only for a parameter the DTO does not have or does not allow otherwise. *)
FieldsPromise ==
    \A q \in Requests : pc[q] # "idle" /\ asked[q].route \in DOMAIN Told =>
        LET i == asked[q]
            told == Told[i.route]
            given(p) == Param(i, p, Undefined)
            keeps(p) == p \in DOMAIN told /\ (Promised(told[p], given(p)) \/ Unchecked(told[p], given(p)))
        IN  /\ pc[q] = "handler" \/ answer[q].status = 200 =>
                    \A p \in DOMAIN i.query : keeps(p) \/ (i.route = "profile" /\ p \notin DOMAIN told)
            /\ answer[q].status = 422 => \E p \in DOMAIN i.query : ~keeps(p)

(* The throttler lets at most 2 * limit - 1 requests of one peer pass to a *)
(* handler in any ttl, counted by who connects and not by what the headers *)
(* of a request say: twice a window's worth, where two windows meet.       *)
QuotaPerPeer ==
    config.ttl > 0 =>
        \A p \in Requests :
            Cardinality({q \in Requests : /\ asked[q].route = asked[p].route
                                          /\ asked[q].peer = asked[p].peer
                                          /\ admitted[q] # -1 /\ admitted[p] # -1
                                          /\ admitted[q] - admitted[p] \in 0..(config.ttl - 1)})
                <= 2 * config.limit - 1

\* Inputs no check refuses and the server still fails on.
Signed(word) == CASE word = "minusOne" -> -1 [] word \in {"none", "zero"} -> 0 [] OTHER -> 1
NegativeOffset(i) ==
    LET sign(p) == IF p \in DOMAIN i.query THEN Signed(i.query[p][2]) ELSE 1
        page == IF "page" \in DOMAIN i.query /\ i.query.page = Text("seven") THEN 1 ELSE 0
    IN  (sign("page") < 1 /\ "page" \in DOMAIN i.query /\ sign("limit") = 1)
        \/ (page = 1 /\ sign("limit") = -1)
NoUuid(i, p) == p \in DOMAIN i.query /\ i.query[p] \notin {Text("none"), Text("uuid"), Text("UUID")}
NoCursor(i, p) == p \notin DOMAIN i.query \/ i.query[p] = Text("none")
Unforeseen(i) ==
    \/ i.forwarded /\ ~config.trustProxy /\ i.route \notin {"auth", "reference", "docs"}
    \/ i.route = "all" /\ NegativeOffset(i)
    \/ i.route = "cursor"
       /\ (NoUuid(i, "afterCursor") \/ (NoCursor(i, "afterCursor") /\ NoUuid(i, "beforeCursor")))
    \/ i.route = "multiple" /\ ~i.form
    \/ i.route \in Uploads /\ ~config.localFileUpload /\ ~config.bucket

(* Every status is explained: a 500 by a failed call or an input of the    *)
(* list above, a 2xx excludes both and needs the session or the basic auth *)
(* its route asks for, a refusal comes before any call has failed, and the *)
(* health check tells 503 of Redis and the docs but never of the database. *)
(* Sentry hears of each 500 but those of guards and of Better Auth's route.*)
AnswersExplained ==
    \A q \in Requests : pc[q] = "answered" =>
        LET i == asked[q]
            status == answer[q].status
            early == faults[q] \cap {"counters", "session", "auth"} # {} \/ admitted[q] = -1
        IN  /\ status = 500 => Unforeseen(i) \/ faults[q] \ {"redis", "docs"} # {}
            /\ status = 200 =>
                /\ ~Unforeseen(i) /\ faults[q] = {}
                /\ i.signedIn \/ i.route \in {"docs", "reference", "auth", "health"}
                /\ i.basic \/ i.route \notin {"docs", "reference"}
            /\ status \in 400..499 => faults[q] = {}
            /\ status = 503 <=> /\ i.route = "health" /\ admitted[q] # -1
                               /\ faults[q] \cap {"database", "counters"} = {}
                               /\ faults[q] # {}
            /\ answer[q].reported <=> status = 500 /\ config.reports /\ ~early

(* An upload that is answered with its files has every one of them in the  *)
(* bucket, in the order they were sent; an object that no answer names is  *)
(* one of a request still under way, lost in a crash, or failed for another*)
(* file: these objects stay, nobody knows their keys.                      *)
UploadsExplained ==
    /\ \A q \in Requests : answer[q].status = 200 /\ asked[q].route \in Uploads =>
            /\ answer[q].files = [f \in 1..asked[q].files |-> f]
            /\ config.localFileUpload \/ {q} \X (1..asked[q].files) \subseteq stored
    /\ \A object \in stored :
            \/ \E n \in DOMAIN answer[object[1]].files : answer[object[1]].files[n] = object[2]
            \/ pc[object[1]] \in {"storing", "lost"}
            \/ answer[object[1]].status = 500 /\ "bucket" \in faults[object[1]]

(* Every request is answered, unless the server crashes under it.          *)
EveryRequestAnswered == \A q \in Requests : pc[q] = "hook" ~> pc[q] \in {"answered", "lost"}
=============================================================================
