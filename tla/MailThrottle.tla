---------------------------- MODULE MailThrottle ----------------------------
(***************************************************************************)
(* The three mail-sending operations of AuthService (src/auth/             *)
(* auth.service.ts): sendSigninMagicLink, verifyEmail and resetPassword.   *)
(* Better Auth calls them while it serves a request (the callbacks of      *)
(* src/config/auth/better-auth.config.ts).  Each one reads the ttl of its  *)
(* "last sent" stamp in Redis, answers 429 while a stamp is alive, and     *)
(* otherwise adds a job to the email queue and only then writes the stamp. *)
(*                                                                         *)
(* Every await is a step of its own, so requests served by one process or  *)
(* by several interleave at exactly those points.  Any step may fail       *)
(* (Redis or database error, death of the serving process); a call whose   *)
(* reply is lost fails after it took effect.                               *)
(***************************************************************************)
EXTENDS CacheService

CONSTANTS Requests,   \* one element per call of a sending operation
          Users,
          Window,     \* the ttl of a stamp: 30_000 ms in the code
          MaxTime     \* bound on the clock, for model checking

ASSUME ThrottleAssumption == Window \in Nat \ {0} /\ MaxTime \in Nat

Kinds == {"signin-magic-link", "email-verification", "reset-password"}

\* _constructCacheKey: one stamp per operation and user id.
Keys == Kinds \X Users
NoKey == <<"none", "none">>

VARIABLES now,        \* the Redis clock
          cache,      \* Keys -> entry: the "last sent" stamps
          accounts,   \* users findOne returns (not soft-deleted)
          pc,         \* Requests -> the await the operation is at
          key,        \* Requests -> the stamp it reads and writes
          readAt,     \* history: when it read the ttl (0: not yet)
          addedAt,    \* history: when it added its job (0: not yet)
          stampedAt   \* history: when it wrote its stamp (0: not yet)

history == <<readAt, addedAt, stampedAt>>
vars == <<now, cache, accounts, pc, key, readAt, addedAt, stampedAt>>

Answered == {"sent", "refused", "unknown", "failed"}
Control == {"idle", "lookup", "ttl", "add", "stamp"} \cup Answered

TypeOK ==
    /\ now \in Nat \ {0}
    /\ cache \in [Keys -> Entries(Nat)]
    /\ accounts \subseteq Users
    /\ pc \in [Requests -> Control]
    /\ key \in [Requests -> Keys \cup {NoKey}]
    /\ \A r \in Requests : pc[r] # "idle" => key[r] \in Keys
    /\ readAt \in [Requests -> Nat]
    /\ addedAt \in [Requests -> Nat]
    /\ stampedAt \in [Requests -> Nat]

Init ==
    /\ now = 1
    /\ cache = [k \in Keys |-> Absent(0)]
    /\ accounts = Users
    /\ pc = [r \in Requests |-> "idle"]
    /\ key = [r \in Requests |-> NoKey]
    /\ readAt = [r \in Requests |-> 0]
    /\ addedAt = [r \in Requests |-> 0]
    /\ stampedAt = [r \in Requests |-> 0]
-----------------------------------------------------------------------------
\* Better Auth calls one of the operations; only the magic link, which is
\* asked for by e-mail address, looks its user up first.
Arrive(r, k) ==
    /\ pc[r] = "idle"
    /\ pc' = [pc EXCEPT ![r] = IF k[1] = "signin-magic-link" THEN "lookup" ELSE "ttl"]
    /\ key' = [key EXCEPT ![r] = k]
    /\ UNCHANGED <<now, cache, accounts, history>>

\* userRepository.findOne, then NotFoundException or on to the throttle.
Lookup(r) ==
    /\ pc[r] = "lookup"
    /\ pc' = [pc EXCEPT ![r] = IF key[r][2] \in accounts THEN "ttl" ELSE "unknown"]
    /\ UNCHANGED <<now, cache, accounts, key, history>>

\* Mutants: the remaining time rounded down to a coarser unit, as the 429 text
\* does; the !== 0 test dropped.
ThrottledCoarse(k) == GetTtl(cache[k], now) > 1
ThrottledAtExpiry(k) == GetTtl(cache[k], now) # NullTtl

\* The guard of the throttle: !(remainingTtl == null) && remainingTtl !== 0.
Throttled(k) ==
    LET remainingTtl == GetTtl(cache[k], now)
    IN  remainingTtl # NullTtl /\ remainingTtl # 0

\* Mutant: the early return of a throttled request sends no answer.
ReadTtlSilent(r) ==
    /\ pc[r] = "ttl"
    /\ readAt' = [readAt EXCEPT ![r] = now]
    /\ pc' = [pc EXCEPT ![r] = IF Throttled(key[r]) THEN "ttl" ELSE "add"]
    /\ UNCHANGED <<now, cache, accounts, key, addedAt, stampedAt>>

\* cacheService.getTtl, then 429 or on to the queue.
ReadTtl(r) ==
    /\ pc[r] = "ttl"
    /\ readAt' = [readAt EXCEPT ![r] = now]
    /\ pc' = [pc EXCEPT ![r] = IF Throttled(key[r]) THEN "refused" ELSE "add"]
    /\ UNCHANGED <<now, cache, accounts, key, addedAt, stampedAt>>

\* emailQueue.add; the job may be stored although the call then fails.
AddJob(r) ==
    /\ pc[r] = "add"
    /\ addedAt' = [addedAt EXCEPT ![r] = now]
    /\ \E next \in {"stamp", "failed"} : pc' = [pc EXCEPT ![r] = next]
    /\ UNCHANGED <<now, cache, accounts, key, readAt, stampedAt>>

\* Mutant: the stamp counts from the moment the ttl was read (PXAT, not PX).
SetStampFromRead(r) ==
    /\ pc[r] = "stamp"
    /\ cache' = [cache EXCEPT ![key[r]] = Set(now, Window, readAt[r])]
    /\ stampedAt' = [stampedAt EXCEPT ![r] = now]
    /\ pc' = [pc EXCEPT ![r] = "sent"]
    /\ UNCHANGED <<now, accounts, key, readAt, addedAt>>

\* cacheService.set(key, +new Date(), { ttl: 30_000 }).
SetStamp(r) ==
    /\ pc[r] = "stamp"
    /\ cache' = [cache EXCEPT ![key[r]] = Set(now, Window, now)]
    /\ stampedAt' = [stampedAt EXCEPT ![r] = now]
    /\ \E next \in {"sent", "failed"} : pc' = [pc EXCEPT ![r] = next]
    /\ UNCHANGED <<now, accounts, key, readAt, addedAt>>

\* The awaited call throws without an effect, or the serving process dies.
Fail(r) ==
    /\ pc[r] \in {"lookup", "ttl", "add", "stamp"}
    /\ pc' = [pc EXCEPT ![r] = "failed"]
    /\ UNCHANGED <<now, cache, accounts, key, history>>

\* UserService.deleteUser: the soft-deleted row is hidden from findOne.
DeleteAccount(u) ==
    /\ u \in accounts
    /\ accounts' = accounts \ {u}
    /\ UNCHANGED <<now, cache, pc, key, history>>

Tick ==
    /\ now < MaxTime
    /\ now' = now + 1
    /\ UNCHANGED <<cache, accounts, pc, key, history>>

Step(r) == Lookup(r) \/ ReadTtl(r) \/ AddJob(r) \/ SetStamp(r)

Next ==
    \/ \E r \in Requests : Step(r) \/ Fail(r) \/ \E k \in Keys : Arrive(r, k)
    \/ \E u \in Users : DeleteAccount(u)
    \/ Tick

Spec == Init /\ [][Next]_vars

\* Every awaited call of a request in service settles (or Fail ends the request).
Fairness == \A r \in Requests : WF_vars(Step(r))
FairSpec == Spec /\ Fairness
-----------------------------------------------------------------------------
Queued(r) == addedAt[r] # 0
Stamped(r) == stampedAt[r] # 0

(* Two mails of one kind to one user are at least Window apart unless the  *)
(* operations that queued them overlapped: the later one read the ttl      *)
(* before, or in the same instant as, the earlier one wrote its stamp.     *)
SpacedUnlessOverlapping ==
    \A q, r \in Requests :
        /\ Queued(q) /\ Queued(r) /\ key[q] = key[r]
        /\ Stamped(q) /\ stampedAt[q] < readAt[r]
        => addedAt[r] >= addedAt[q] + Window

(* A request is answered 429 only when another one had put a mail of that  *)
(* kind for that user on the queue, and stamped it, less than Window       *)
(* before: nobody is locked out for a mail that was never queued.          *)
RefusalJustified ==
    \A r \in Requests : pc[r] = "refused" =>
        \E q \in Requests :
            /\ key[q] = key[r] /\ Queued(q) /\ Stamped(q)
            /\ stampedAt[q] <= readAt[r]
            /\ readAt[r] < stampedAt[q] + Window

(* A slow request that stamps late never shortens a lock-out that a faster *)
(* one started: no step moves the expiry of a stamp back.                  *)
StampsOnlyExtend ==
    [][\A k \in Keys : cache'[k].expiresAt >= cache[k].expiresAt]_vars

(* Every request that entered an operation is answered, by success, by     *)
(* 404, by 429 or by an error.                                             *)
EveryRequestAnswered ==
    \A r \in Requests : (pc[r] # "idle") ~> (pc[r] \in Answered)

(* auth.service.ts:46, :68 and :90: "Rate limited to 1 email per 30        *)
(* seconds".  What those comments say of the operation whatever the        *)
(* interleaving: any two mails of one kind to one user are Window apart.   *)
RateLimited ==
    \A q, r \in Requests :
        /\ q # r /\ Queued(q) /\ Queued(r) /\ key[q] = key[r]
        /\ addedAt[q] <= addedAt[r]
        => addedAt[r] >= addedAt[q] + Window
=============================================================================
