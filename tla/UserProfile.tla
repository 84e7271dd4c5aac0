----------------------------- MODULE UserProfile ----------------------------
(***************************************************************************)
(* The operations of UserService on one user (src/api/user/                *)
(* user.service.ts): findOneUser, deleteUser and updateUserProfile, as the *)
(* REST controller and the GraphQL resolver call them.                     *)
(*                                                                         *)
(* A profile update writes the row twice, without a transaction: image and *)
(* username through Better Auth, then the names through Drizzle; then it   *)
(* reads the row it answers with.  Requests interleave at every await, and *)
(* every awaited call may fail, before or after it took effect.  Better    *)
(* Auth stores a username in lower case; the code compares it as it came.  *)
(***************************************************************************)
EXTENDS Integers

CONSTANTS Requests, Users,
          Values,     \* the texts a field may hold
          Lower,      \* Values -> Values: a text in lower case
          Dtos        \* bodies of PATCH /user/profile: Unset for undefined

Unset == "unset"
Null == "null"
AuthFields == {"username", "image"}
OwnFields == {"firstName", "lastName"}
Fields == AuthFields \cup OwnFields
Nothing == [f \in Fields |-> Unset]

ASSUME ProfileAssumption ==
    /\ Unset \notin Values /\ Null \notin Values
    /\ Lower \in [Values -> Values] /\ \A v \in Values : Lower[Lower[v]] = Lower[v]
    /\ Dtos \subseteq [Fields -> Values \cup {Null, Unset}]

\* The username plugin normalises what it stores; the other fields are stored as
\* they come.
Stored(f, v) == IF f = "username" /\ v # Null THEN Lower[v] ELSE v

\* What a row may hold: nothing, or a text, and usernames in lower case only.
Profiles == {p \in [Fields -> Values \cup {Null}] : p["username"] = Stored("username", p["username"])}

VARIABLES status,     \* Users -> no such row, live, or soft-deleted
          row,        \* Users -> the profile fields of the row
          pc,         \* Requests -> the await it is at, or its answer
          user, dto,  \* Requests -> what it is about
          change,     \* Requests -> shouldChangeUsername
          returned,   \* Requests -> the row it answered with, or Nothing
          wrote,      \* history: Requests -> the fields it wrote
          touched,    \* history: Requests -> fields others wrote while it was served
          late,       \* history: requests that came after the user was deleted
          faulted     \* history: requests of which an awaited call failed

history == <<wrote, touched, late, faulted>>
vars == <<status, row, pc, user, dto, change, returned, wrote, touched, late, faulted>>

InService == {"compare", "auth", "names", "find", "exists", "mark"}
Answered == {"ok", "notFound", "failed"}

TypeOK ==
    /\ status \in [Users -> {"none", "live", "deleted"}]
    /\ row \in [Users -> Profiles]
    /\ pc \in [Requests -> {"idle"} \cup InService \cup Answered]
    /\ user \in [Requests -> Users]
    /\ dto \in [Requests -> Dtos \cup {Nothing}]
    /\ change \in [Requests -> BOOLEAN]
    /\ returned \in [Requests -> Profiles \cup {Nothing}]
    /\ wrote \in [Requests -> SUBSET Fields] /\ touched \in [Requests -> SUBSET Fields]
    /\ late \subseteq Requests /\ faulted \subseteq Requests

Init ==
    /\ status \in [Users -> {"none", "live"}]
    /\ \E v \in Values \cup {Null} : row = [u \in Users |-> [f \in Fields |-> Stored(f, v)]]
    /\ pc = [r \in Requests |-> "idle"]
    /\ user \in [Requests -> Users]
    /\ dto = [r \in Requests |-> Nothing]
    /\ change = [r \in Requests |-> FALSE]
    /\ returned = [r \in Requests |-> Nothing]
    /\ wrote = [r \in Requests |-> {}] /\ touched = [r \in Requests |-> {}]
    /\ late = {} /\ faulted = {}
-----------------------------------------------------------------------------
Goto(r, next) == pc' = [pc EXCEPT ![r] = next]

\* Mutant: findOneUser without isNull(deletedAt).
FoundAny(u) == status[u] # "none"

\* findOneUser: the row, unless it is soft-deleted.
Found(u) == status[u] = "live"

\* Null is a value to write, but for the username, where it is as good as undefined.
Asks(d, f) == d[f] # Unset /\ (f = "username" => d[f] # Null)

\* The fields of the body that Better Auth is given.
AuthChanges(r) == {f \in AuthFields : Asks(dto[r], f) /\ (f = "username" => change[r])}

\* Mutant: the last name is forgotten.
NameChangesShort(r) == {f \in {"firstName"} : Asks(dto[r], f)}

\* The fields of the body that are left for Drizzle's .set().
NameChanges(r) == {f \in OwnFields : Asks(dto[r], f)}

\* Mutant: a field that is not in the body is cleared.
WriteCleared(r, fs) ==
    /\ row' = [row EXCEPT ![user[r]] = [f \in Fields |-> IF f \in fs THEN Stored(f, dto[r][f]) ELSE Null]]
    /\ wrote' = [wrote EXCEPT ![r] = @ \cup fs]
    /\ UNCHANGED touched

\* Write fields of the body to the row of the user.
Write(r, fs) ==
    /\ row' = [row EXCEPT ![user[r]] =
                  [f \in Fields |-> IF f \in fs THEN Stored(f, dto[r][f]) ELSE @[f]]]
    /\ wrote' = [wrote EXCEPT ![r] = @ \cup fs]
    /\ touched' = [q \in Requests |->
                     IF q # r /\ user[q] = user[r] /\ pc[q] \in InService
                     THEN touched[q] \cup fs ELSE touched[q]]

NoWrite == UNCHANGED <<row, wrote, touched>>
Fault(r) == faulted' = faulted \cup {r}

Begin(r, u, d, first) ==
    /\ pc[r] = "idle"
    /\ Goto(r, first)
    /\ user' = [user EXCEPT ![r] = u]
    /\ dto' = [dto EXCEPT ![r] = d]
    /\ change' = [change EXCEPT ![r] = Asks(d, "username")]
    /\ late' = IF status[u] = "deleted" THEN late \cup {r} ELSE late
    /\ UNCHANGED <<status, row, returned, wrote, touched, faulted>>

\* GET /user/whoami, GET /user/:id and their GraphQL queries.
FindOneUser(r, u) == Begin(r, u, Nothing, "find")

\* DELETE /user/:id and the GraphQL mutation.
DeleteUser(r, u) == Begin(r, u, Nothing, "exists")

\* PATCH /user/profile, for the user of the session.
UpdateUserProfile(r, u, d) ==
    /\ status[u] # "none"
    /\ Begin(r, u, d, IF Asks(d, "username") THEN "compare" ELSE "auth")

\* The body names a username: is it, letter for letter, a new one?
CompareUsername(r) ==
    /\ pc[r] = "compare"
    /\ IF Found(user[r])
       THEN /\ Goto(r, "auth")
            /\ change' = [change EXCEPT ![r] = row[user[r]]["username"] # dto[r]["username"]]
       ELSE Goto(r, "notFound") /\ UNCHANGED change
    /\ UNCHANGED <<status, row, user, dto, returned, history>>

\* betterAuth.api.updateUser: done, or refused (the username is taken, if only by
\* this row in another case), or failed after the row was written.
AuthUpdate(r) ==
    /\ pc[r] = "auth"
    /\ \/ Write(r, AuthChanges(r)) /\ Goto(r, "names") /\ UNCHANGED faulted
       \/ Write(r, AuthChanges(r)) /\ Goto(r, "failed") /\ Fault(r)
       \/ NoWrite /\ Goto(r, "failed") /\ Fault(r)
    /\ UNCHANGED <<status, user, dto, change, returned, late>>

\* db.update(users).set(...): Drizzle throws when there is nothing to set.
NamesUpdate(r) ==
    /\ pc[r] = "names"
    /\ \/ NameChanges(r) = {} /\ NoWrite /\ Goto(r, "failed") /\ UNCHANGED faulted
       \/ NameChanges(r) # {} /\ Write(r, NameChanges(r)) /\ Goto(r, "find") /\ UNCHANGED faulted
       \/ NameChanges(r) # {} /\ Write(r, NameChanges(r)) /\ Goto(r, "failed") /\ Fault(r)
    /\ UNCHANGED <<status, user, dto, change, returned, late>>

\* The read that a find is, and that an update ends with.
ReadRow(r) ==
    /\ pc[r] = "find"
    /\ IF Found(user[r])
       THEN Goto(r, "ok") /\ returned' = [returned EXCEPT ![r] = row[user[r]]]
       ELSE Goto(r, "notFound") /\ UNCHANGED returned
    /\ UNCHANGED <<status, row, user, dto, change, history>>

\* deleteUser looks the row up, deleted or not ...
CheckExists(r) ==
    /\ pc[r] = "exists"
    /\ Goto(r, IF status[user[r]] # "none" THEN "mark" ELSE "notFound")
    /\ UNCHANGED <<status, row, user, dto, change, returned, history>>

\* ... and sets deletedAt, again if it is set.
MarkDeleted(r) ==
    /\ pc[r] = "mark"
    /\ status' = [status EXCEPT ![user[r]] = "deleted"]
    /\ \/ Goto(r, "ok") /\ UNCHANGED faulted
       \/ Goto(r, "failed") /\ Fault(r)
    /\ UNCHANGED <<row, user, dto, change, returned, wrote, touched, late>>

\* An awaited call fails without an effect, or the process dies.
Fail(r) ==
    /\ pc[r] \in InService
    /\ Goto(r, "failed") /\ Fault(r)
    /\ UNCHANGED <<status, row, user, dto, change, returned, wrote, touched, late>>

Next ==
    \E r \in Requests :
        \/ \E u \in Users : \/ FindOneUser(r, u) \/ DeleteUser(r, u)
                            \/ \E d \in Dtos : UpdateUserProfile(r, u, d)
        \/ CompareUsername(r) \/ AuthUpdate(r) \/ NamesUpdate(r) \/ ReadRow(r)
        \/ CheckExists(r) \/ MarkDeleted(r) \/ Fail(r)

Spec == Init /\ [][Next]_vars
-----------------------------------------------------------------------------
(* An update that is answered with success answers with every field it was *)
(* asked to set, the username in lower case, but for those another request *)
(* wrote in the meantime: also when the username was left alone because it *)
(* was there already.  A username of null asks for nothing and changes     *)
(* nothing; the other fields are set to null when the body says so.        *)
ReturnsWhatWasAsked ==
    \A r \in Requests : pc[r] = "ok" /\ returned[r] # Nothing =>
        \A f \in Fields \ touched[r] :
            Asks(dto[r], f) => returned[r][f] = Stored(f, dto[r][f])

(* Two updates of one user that name different fields do not undo each     *)
(* other: a field changes only to what a request in service asks it to be. *)
ChangesAreAsked ==
    [][\A u \in Users, f \in Fields : row'[u][f] # row[u][f] =>
          \E r \in Requests :
              /\ pc[r] \in {"auth", "names"} /\ user[r] = u
              /\ Asks(dto[r], f) /\ row'[u][f] = Stored(f, dto[r][f])]_vars

(* The half that is missing after an update failed in the middle is the    *)
(* names: they are never written unless image and username were.           *)
NamesComeLast ==
    \A r \in Requests : wrote[r] \cap OwnFields # {} => AuthChanges(r) \subseteq wrote[r]

(* Once a user is deleted nobody who asks afterwards is given the row, not *)
(* even the user's own update, which writes the row and then answers 404.  *)
DeletedIsGone == \A r \in late : returned[r] = Nothing

(* user.service.ts:206: updateUserProfile returns the updated user; so an  *)
(* update none of whose calls failed does not end with an error.           *)
UpdateReturnsUser == \A r \in Requests : pc[r] = "failed" => r \in faulted
=============================================================================
