---------------------------- MODULE CacheService ----------------------------
(***************************************************************************)
(* src/shared/cache/cache.service.ts over cache-manager-ioredis-yet: the   *)
(* Redis key/value store with per-key expiry that the mail throttle, the   *)
(* session storage and the socket registry share.                          *)
(*                                                                         *)
(* An entry is a value and the clock reading up to which Redis keeps it.   *)
(* Redis drops a key once its clock is PAST the expiry (now > when), so an *)
(* entry is still there, with a remaining time of 0, at the expiry itself. *)
(***************************************************************************)
EXTENDS Integers

Never == -1          \* expiresAt of an entry written without a ttl
NoTtl == 0           \* options.ttl undefined or 0: no PX argument is sent
NullTtl == -1        \* getTtl's null: no such key, or a key without expiry

Entries(Values) == [value : Values, expiresAt : Nat \cup {Never}]

\* A slot that holds nothing: clocks start at 1, so it is expired from the start.
Absent(v) == [value |-> v, expiresAt |-> 0]

Live(e, now) == e.expiresAt = Never \/ e.expiresAt >= now

\* get / storeGet: the stored value, or the caller's stand-in for undefined.
Get(e, now, undefined) == IF Live(e, now) THEN e.value ELSE undefined

\* getTtl: PTTL with -1 (no expiry) and -2 (no key) both turned into null.
GetTtl(e, now) ==
    IF Live(e, now) /\ e.expiresAt # Never THEN e.expiresAt - now ELSE NullTtl

\* set / storeSet: SET key value PX ttl, or a plain SET when there is no ttl.
Set(v, ttl, now) ==
    [value |-> v, expiresAt |-> IF ttl = NoTtl THEN Never ELSE now + ttl]

\* delete: DEL key.
Delete(e) == Absent(e.value)
=============================================================================
