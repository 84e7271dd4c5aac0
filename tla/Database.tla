------------------------------ MODULE Database -------------------------------
(***************************************************************************)
(* The tables of PostgreSQL and who changes them: the TypeORM migrations   *)
(* and their reverts (src/database/migrations), Drizzle's own migration    *)
(* (src/drizzle/schema.ts), the two seeds, and the users that sign up and  *)
(* are deleted.  The repository keeps both tools; a database gets its      *)
(* tables from one of them, and both kinds of program then run over it.    *)
(* A seed run and a sign-up are several statements of no transaction: look *)
(* the user up, insert it, insert its account; they interleave and fail in *)
(* between.                                                                *)
(*                                                                         *)
(* A schema is a set of objects: tables, columns, enum types, unique       *)
(* indexes and references.  Column types are left out; a column is         *)
(* required, defaulted or optional, which is what an insert can tell.      *)
(***************************************************************************)
EXTENDS Integers, SequencesExt

CONSTANTS Seeds,   \* runs of src/drizzle/seed.ts
          Visitors \* who signs up: records of username and email

Table(t) == <<"table", t, "-", "-">>
Enum(x) == <<"type", x, "-", "-">>
Column(t, c, kind) == <<"column", t, c, kind>>
Columns(t, cs, kind) == {Column(t, c, kind) : c \in cs}
Unique(t, c, scope) == <<"unique", t, c, scope>>
Index(t, c) == <<"index", t, c, "-">>
Reference(t) == <<"reference", t, "userId", "user">>

\* BaseModel: what every table starts with.
BaseColumns(t) == Columns(t, {"id", "createdAt", "updatedAt"}, "defaulted") \cup {Column(t, "deletedAt", "optional")}
CreateTable(t, required, defaulted, optional) ==
    {Table(t)} \cup BaseColumns(t) \cup Columns(t, required, "required")
    \cup Columns(t, defaulted, "defaulted") \cup Columns(t, optional, "optional")
-----------------------------------------------------------------------------
(* The migrations of TypeORM: a statement is the set of objects it creates *)
(* or drops.                                                               *)
Tokens == {"accessToken", "refreshToken", "accessTokenExpiresAt", "refreshTokenExpiresAt", "scope",
           "idToken", "password"}

\* Mutant: names are left to the look-ups of those who insert.
InitUpUnnamed ==
    << CreateTable("verification", {"identifier", "value", "expiresAt"}, {}, {}),
       {Enum("user_role_enum")},
       CreateTable("user", {"username", "email"}, {"isEmailVerified", "role"}, {"image", "bio"}),
       {}, {Unique("user", "email", "live")},
       CreateTable("session", {"userId", "token", "expiresAt"}, {}, {"ipAddress", "userAgent"}),
       CreateTable("account", {"userId", "accountId", "providerId"}, {}, Tokens),
       {Reference("session")}, {Reference("account")} >>

InitUp ==
    << CreateTable("verification", {"identifier", "value", "expiresAt"}, {}, {}),
       {Enum("user_role_enum")},
       CreateTable("user", {"username", "email"}, {"isEmailVerified", "role"}, {"image", "bio"}),
       {Unique("user", "username", "live")}, {Unique("user", "email", "live")},
       CreateTable("session", {"userId", "token", "expiresAt"}, {}, {"ipAddress", "userAgent"}),
       CreateTable("account", {"userId", "accountId", "providerId"}, {}, Tokens),
       {Reference("session")}, {Reference("account")} >>
InitDown ==
    << {Reference("account")}, {Reference("session")}, {Table("account")}, {Table("session")},
       {Unique("user", "email", "live")}, {Unique("user", "username", "live")}, {Table("user")},
       {Enum("user_role_enum")}, {Table("verification")} >>
NamesUp == << Columns("user", {"firstName"}, "optional"), Columns("user", {"lastName"}, "optional") >>
NamesDown == << Columns("user", {"lastName"}, "optional"), Columns("user", {"firstName"}, "optional") >>
DisplayUsernameUp ==
    << {Column("user", "displayUsername", "optional")}, {Index("user", "displayUsername")} >>
DisplayUsernameDown ==
    << {Index("user", "displayUsername")}, {Column("user", "displayUsername", "optional")} >>
TwoFactorUp ==
    << CreateTable("twoFactor", {"userId"}, {}, {"secret", "backupCodes"}),
       {Column("user", "twoFactorEnabled", "defaulted")}, {Reference("twoFactor")} >>
\* Mutant: the reference and the added column are left to the DROP TABLE.
TwoFactorDownShort == << {Table("twoFactor")} >>

TwoFactorDown ==
    << {Reference("twoFactor")}, {Column("user", "twoFactorEnabled", "defaulted")},
       {Table("twoFactor")} >>

PasskeyUp ==
    << CreateTable("passkey", {"userId", "publicKey", "credentialID", "counter", "deviceType",
                               "backedUp", "transports"}, {}, {"name"}),
       {Reference("passkey")} >>
PasskeyDown == << {Reference("passkey")}, {Table("passkey")} >>

Ups == << InitUp, NamesUp, DisplayUsernameUp, TwoFactorUp, PasskeyUp >>
Downs == << InitDown, NamesDown, DisplayUsernameDown, TwoFactorDown, PasskeyDown >>
-----------------------------------------------------------------------------
(* The entities of TypeORM and the tables of Drizzle: what a program names *)
(* in its queries.                                                         *)
UserEntity == [table |-> "user",
    columns |-> {"username", "displayUsername", "email", "isEmailVerified", "role", "firstName",
                 "lastName", "image", "bio", "twoFactorEnabled"}]
AccountEntity == [table |-> "account", columns |-> {"userId", "accountId", "providerId"} \cup Tokens]
SessionEntity == [table |-> "session",
    columns |-> {"userId", "token", "expiresAt", "ipAddress", "userAgent"}]
TwoFactorEntity == [table |-> "twoFactor", columns |-> {"userId", "secret", "backupCodes"}]
PassKeyEntity == [table |-> "passkey",
    columns |-> {"name", "userId", "publicKey", "credentialID", "counter", "deviceType", "backedUp",
                 "transports"}]
VerificationEntity == [table |-> "verification", columns |-> {"identifier", "value", "expiresAt"}]
Entities == {UserEntity, AccountEntity, SessionEntity, TwoFactorEntity, PassKeyEntity,
             VerificationEntity}

\* Mutant: the Drizzle table forgets a column that came with a later migration.
usersStale ==
    CreateTable("user", {"username", "email"}, {"isEmailVerified", "role", "twoFactorEnabled"},
                {"displayUsername", "firstName", "image", "bio"})
    \cup {Enum("Role"), Unique("user", "username", "all"), Unique("user", "email", "all"),
          Index("user", "username"), Index("user", "email"), Index("user", "deletedAt")}

users ==
    CreateTable("user", {"username", "email"}, {"isEmailVerified", "role", "twoFactorEnabled"},
                {"displayUsername", "firstName", "lastName", "image", "bio"})
    \cup {Enum("Role"), Unique("user", "username", "all"), Unique("user", "email", "all"),
          Index("user", "username"), Index("user", "email"), Index("user", "deletedAt")}
accounts ==
    CreateTable("account", {"userId", "accountId"}, {"providerId"}, Tokens)
    \cup {Reference("account"), Index("account", "userId"), Index("account", "accountId")}
sessions ==
    CreateTable("session", {"userId", "token", "expiresAt"}, {}, {"ipAddress", "userAgent"})
    \cup {Reference("session"), Unique("session", "token", "all"), Index("session", "userId"),
          Index("session", "token"), Index("session", "expiresAt")}
verifications ==
    CreateTable("verification", {"identifier", "value", "expiresAt"}, {}, {})
    \cup {Index("verification", "identifier"), Index("verification", "expiresAt")}
twoFactors ==
    CreateTable("twoFactor", {"userId"}, {}, {"secret", "backupCodes"})
    \cup {Reference("twoFactor"), Index("twoFactor", "userId")}
passKeys ==
    CreateTable("passkey", {"userId", "publicKey", "credentialID", "counter", "deviceType",
                            "backedUp", "transports"}, {}, {"name"})
    \cup {Reference("passkey"), Index("passkey", "userId"), Index("passkey", "credentialID")}
DrizzleSchema == users \cup accounts \cup sessions \cup verifications \cup twoFactors \cup passKeys

ColumnsOf(objs, t) == {o[3] : o \in {x \in objs : x[1] = "column" /\ x[2] = t}}
RequiredOf(objs, t) == {o[3] : o \in {x \in objs : x[1] = "column" /\ x[2] = t /\ x[4] = "required"}}
-----------------------------------------------------------------------------
VARIABLES schema,  \* the objects there are
          applied, \* how many migrations TypeORM's table of migrations holds
          people,  \* rows of user: who made it (its id), names, live, and whether it has an account
          tracked, \* TypeORM's table of seeds holds the initial seed
          pc, who, \* Seeds -> the await a run is at, and for which of the two persons
          doing,   \* Visitors -> the await a sign-up is at
          cut      \* history: rows left without an account that nobody has given one since

vars == <<schema, applied, people, tracked, pc, who, doing, cut>>
makers == <<pc, who, doing>>

\* The persons of drizzle/seed.ts, in its order, and the one of InitialSeed.
Persons == << [username |-> "admin", email |-> "admin@nestjs-boilerplate.com"],
              [username |-> "testuser", email |-> "user@nestjs-boilerplate.com"] >>
Admin == [username |-> "admin", email |-> "admin@admin.com"]
InitialSeedRun == <<"initial", "-">>
SeedRun(s) == <<"seed", s>>
Visitor(p) == <<"visitor", p>>
Makers == {InitialSeedRun} \cup {SeedRun(s) : s \in Seeds} \cup {Visitor(p) : p \in Visitors}

Row(by, p, account) ==
    [by |-> by, username |-> p.username, email |-> p.email, live |-> TRUE, account |-> account]
Key(r) == <<r.by, r.email>>
Rows == [by : Makers,
         username : {p.username : p \in Visitors} \cup {"admin", "testuser"},
         email : {p.email : p \in Visitors} \cup {Admin.email, Persons[1].email, Persons[2].email},
         live : BOOLEAN, account : BOOLEAN]

TypeOK ==
    /\ applied \in 0..Len(Ups) /\ people \subseteq Rows /\ tracked \in BOOLEAN
    /\ pc \in [Seeds -> {"idle", "find", "insert", "account", "done", "failed"}]
    /\ who \in [Seeds -> 1..Len(Persons)]
    /\ doing \in [Visitors -> {"idle", "name", "email", "insert", "account"}]
    /\ cut \subseteq {Key(r) : r \in Rows}

Init ==
    /\ schema = {} /\ applied = 0 /\ people = {} /\ tracked = FALSE
    /\ pc = [s \in Seeds |-> "idle"] /\ who = [s \in Seeds |-> 1]
    /\ doing = [p \in Visitors |-> "idle"] /\ cut = {}
-----------------------------------------------------------------------------
(* Statements.  Postgres refuses to create what is there, to refer to or   *)
(* add to a table that is not, to require a new column of rows without it, *)
(* and to drop what is not there or is referred to.  A migration runs in   *)
(* one transaction: each statement over what those before it have left.    *)
Accepts(objs, made) ==
    /\ made \cap objs = {}
    /\ \A o \in made : o[1] \notin {"table", "type"} => Table(o[2]) \in objs \cup made
    /\ \A o \in made : o[1] = "reference" => Table(o[4]) \in objs \cup made
    /\ people # {} => \A o \in made : o[1] = "column" /\ o[4] = "required" => Table(o[2]) \in made

\* DROP TABLE takes the columns, indexes and references of the table with it.
Without(objs, gone) == {o \in objs \ gone : o[1] = "type" \/ Table(o[2]) \notin gone}
Droppable(objs, gone) ==
    /\ gone \subseteq objs
    /\ \A o \in Without(objs, gone) : o[1] = "reference" => Table(o[4]) \notin gone
    /\ Enum("user_role_enum") \in gone => Table("user") \notin objs

All(statements) == UNION ToSet(statements)
Before(statements, n) == UNION {statements[m] : m \in 1..(n - 1)}
Made(i, j) == UNION {All(Ups[k]) : k \in i..j}

\* typeorm migration:run: all that is pending, in one transaction.
MigrateUp ==
    /\ applied < Len(Ups)
    /\ \A i \in (applied + 1)..Len(Ups) : \A n \in DOMAIN Ups[i] :
          Accepts(schema \cup Made(applied + 1, i - 1) \cup Before(Ups[i], n), Ups[i][n])
    /\ schema' = schema \cup Made(applied + 1, Len(Ups))
    /\ applied' = Len(Ups)
    /\ UNCHANGED <<people, tracked, makers, cut>>

\* typeorm migration:revert: the last one.
Revert ==
    /\ applied > 0
    /\ LET down == Downs[applied]
       IN  /\ \A n \in DOMAIN down : Droppable(Without(schema, Before(down, n)), down[n])
           /\ schema' = Without(schema, All(down))
    /\ people' = IF Table("user") \in schema' THEN people ELSE {}
    /\ cut' = IF Table("user") \in schema' THEN cut ELSE {}
    /\ applied' = applied - 1
    /\ UNCHANGED <<tracked, makers>>

\* drizzle-kit migrate: the one migration generated from schema.ts.
DrizzleMigrate ==
    /\ Accepts(schema, DrizzleSchema)
    /\ schema' = schema \cup DrizzleSchema
    /\ UNCHANGED <<applied, people, tracked, makers, cut>>
-----------------------------------------------------------------------------
(* Rows. *)
Fits(t, cs) == cs \subseteq ColumnsOf(schema, t) /\ RequiredOf(schema, t) \subseteq cs

\* A unique index over all rows, or over those with "deletedAt" IS NULL.
Holders(c, value) ==
    {r \in people : /\ r[c] = value
                    /\ \/ Unique("user", c, "all") \in schema
                       \/ Unique("user", c, "live") \in schema /\ r.live}
Free(p) == Holders("username", p.username) = {} /\ Holders("email", p.email) = {}

UserInsert == {"username", "email", "isEmailVerified", "role", "firstName", "lastName"}
SignUpInsert == {"username", "email", "firstName", "displayUsername", "isEmailVerified"}
AccountInsert == {"userId", "accountId", "providerId", "password"}

Insert(by, p) == people' = people \cup {Row(by, p, FALSE)}
Accounted(r) == people' = (people \ {r}) \cup {[r EXCEPT !.account = TRUE]}
HalfMade(by, email) == {Key(r) : r \in {x \in people : Key(x) = <<by, email>> /\ ~x.account}}

Move(s, at, n) == pc' = [pc EXCEPT ![s] = at] /\ who' = [who EXCEPT ![s] = n]
NextPerson(s) == IF who[s] = Len(Persons) THEN Move(s, "done", who[s]) ELSE Move(s, "find", who[s] + 1)
OfSeed == UNCHANGED <<schema, applied, tracked, doing>>

SeedStart(s) == pc[s] \in {"idle", "done", "failed"} /\ Move(s, "find", 1) /\ UNCHANGED <<people, cut>> /\ OfSeed

\* db.query.users.findFirst, by e-mail alone: deleted rows count.
SeedFind(s) ==
    /\ pc[s] = "find" /\ ColumnsOf(DrizzleSchema, "user") \subseteq ColumnsOf(schema, "user")
    /\ IF \E r \in people : r.email = Persons[who[s]].email
       THEN NextPerson(s) ELSE Move(s, "insert", who[s])
    /\ UNCHANGED <<people, cut>> /\ OfSeed

\* Mutant: the account is left to a later run.
SeedInsertOnly(s) ==
    /\ pc[s] = "insert" /\ Fits("user", UserInsert) /\ Free(Persons[who[s]])
    /\ Insert(SeedRun(s), Persons[who[s]])
    /\ NextPerson(s)
    /\ UNCHANGED cut /\ OfSeed

\* db.insert(users) ...
SeedInsert(s) ==
    /\ pc[s] = "insert" /\ Fits("user", UserInsert) /\ Free(Persons[who[s]])
    /\ Insert(SeedRun(s), Persons[who[s]])
    /\ Move(s, "account", who[s])
    /\ UNCHANGED cut /\ OfSeed

\* ... and, in a statement of its own, db.insert(accounts) for the row just made.
SeedAccount(s) ==
    /\ pc[s] = "account" /\ Fits("account", AccountInsert)
    /\ \E r \in people : Key(r) = <<SeedRun(s), Persons[who[s]].email>> /\ Accounted(r)
    /\ NextPerson(s)
    /\ UNCHANGED cut /\ OfSeed

\* A statement is refused, a call fails, or the process dies: process.exit(1).
SeedFails(s) ==
    /\ pc[s] \in {"find", "insert", "account"}
    /\ Move(s, "failed", who[s])
    /\ cut' = IF pc[s] = "account" THEN cut \cup HalfMade(SeedRun(s), Persons[who[s]].email) ELSE cut
    /\ UNCHANGED people /\ OfSeed

Go(p, next) == doing' = [doing EXCEPT ![p] = next]
OfSignUp == UNCHANGED <<schema, applied, tracked, pc, who>>

\* Better Auth, by form or with an account of GitHub, whose names nobody looks up.
SignUpStart(p) ==
    /\ doing[p] = "idle"
    /\ Go(p, "name") \/ Go(p, "email")
    /\ UNCHANGED <<people, cut>> /\ OfSignUp

\* The look-ups of the username plugin and of the sign-up: deleted rows count.
SignUpFind(p, field, here, next) ==
    /\ doing[p] = here /\ SignUpInsert \subseteq ColumnsOf(schema, "user")
    /\ Go(p, IF \E r \in people : r[field] = p[field] THEN "idle" ELSE next)
    /\ UNCHANGED <<people, cut>> /\ OfSignUp
SignUpFindName(p) == SignUpFind(p, "username", "name", "email")
SignUpFindEmail(p) == SignUpFind(p, "email", "email", "insert")

\* createUser ...
SignUpUser(p) ==
    /\ doing[p] = "insert" /\ Fits("user", SignUpInsert) /\ Free(p)
    /\ Insert(Visitor(p), p)
    /\ Go(p, "account")
    /\ UNCHANGED cut /\ OfSignUp

\* ... and, in a statement of its own, linkAccount.
SignUpAccount(p) ==
    /\ doing[p] = "account" /\ Fits("account", AccountInsert)
    /\ \E r \in people : Key(r) = <<Visitor(p), p.email>> /\ Accounted(r)
    /\ Go(p, "idle")
    /\ UNCHANGED cut /\ OfSignUp

\* A statement is refused or a call fails: an error for the visitor.
Abandoned(ps) == cut \cup UNION {HalfMade(Visitor(p), p.email) : p \in {q \in ps : doing[q] = "account"}}
SignUpFails(p) ==
    /\ doing[p] # "idle"
    /\ Go(p, "idle")
    /\ cut' = Abandoned({p})
    /\ UNCHANGED people /\ OfSignUp

\* The server stops in the middle of them.
SignUpsEnd ==
    /\ doing' = [p \in Visitors |-> "idle"]
    /\ cut' = Abandoned(Visitors)
    /\ UNCHANGED people /\ OfSignUp

\* Better Auth gives a user it finds by e-mail an account if there is none: when the
\* password is reset, or its owner comes by GitHub.
LinkAccount(r) ==
    /\ Fits("account", AccountInsert)
    /\ r \in people /\ ~r.account /\ Accounted(r)
    /\ cut' = cut \ {Key(r)}
    /\ UNCHANGED doing /\ OfSignUp

\* UserService.deleteUser sets deletedAt.
DeleteUser(r) ==
    /\ r \in people /\ r.live
    /\ people' = (people \ {r}) \cup {[r EXCEPT !.live = FALSE]}
    /\ UNCHANGED <<doing, cut>> /\ OfSignUp

\* InitialSeed1732461424212: both rows in one transaction, once per database.
InitialSeed ==
    /\ ~tracked
    /\ UserEntity.columns \subseteq ColumnsOf(schema, "user")
    /\ Fits("user", {"username", "email", "isEmailVerified", "role"})
    /\ Fits("account", {"userId", "accountId", "providerId"})
    /\ Free(Admin)
    /\ people' = people \cup {Row(InitialSeedRun, Admin, TRUE)}
    /\ tracked' = TRUE
    /\ UNCHANGED <<schema, applied, makers, cut>>

SeedStep(s) == SeedFind(s) \/ SeedInsert(s) \/ SeedAccount(s)
TypeOrmTool == MigrateUp \/ Revert \/ InitialSeed
DrizzleTool == DrizzleMigrate \/ \E s \in Seeds : SeedStart(s) \/ SeedStep(s) \/ SeedFails(s)
SignUpStep(p) == SignUpStart(p) \/ SignUpFindName(p) \/ SignUpFindEmail(p) \/ SignUpUser(p) \/ SignUpAccount(p)
AuthStep == \/ \E p \in Visitors : SignUpStep(p) \/ SignUpFails(p)
            \/ \E r \in people : LinkAccount(r)
Deletion == \E r \in people : DeleteUser(r)

Next == TypeOrmTool \/ DrizzleTool \/ AuthStep \/ SignUpsEnd \/ Deletion

Spec == Init /\ [][Next]_vars
-----------------------------------------------------------------------------
(* A revert undoes exactly its migration, whatever was applied and reverted*)
(* before, and no half of a migration stays: the schema is the one that the*)
(* recorded migrations make from nothing, or Drizzle's.                    *)
SchemaIsRecorded ==
    \/ schema = Made(1, applied)
    \/ applied = 0 /\ schema = DrizzleSchema

(* Whichever tool made the tables, the programs of both fit them: every    *)
(* column an entity or a Drizzle table names is there, and no insert of a  *)
(* seed leaves out a column that is required.                              *)
ProgramsFit ==
    applied = Len(Ups) \/ schema = DrizzleSchema =>
        /\ \A e \in Entities :
              e.columns \cup {"id", "createdAt", "updatedAt", "deletedAt"} = ColumnsOf(schema, e.table)
        /\ \A o \in DrizzleSchema : o[1] = "column" => o[3] \in ColumnsOf(schema, o[2])
        /\ Fits("user", UserInsert) /\ Fits("account", AccountInsert)

(* The tables are what the record of the migrations says, and the programs *)
(* of both tools fit the tables that either of them has made.              *)
SchemaSound == SchemaIsRecorded /\ ProgramsFit

(* No two users that are not deleted share a name or an address, although  *)
(* seeds and sign-ups look a user up one or two statements before they     *)
(* insert it, and some look up the address alone.                          *)
NamesAreUnique ==
    \A r, q \in people : r.live /\ q.live /\ (r.username = q.username \/ r.email = q.email) => r = q

(* A user without an account is one that a seed run or a sign-up has just  *)
(* made, or left so when it failed or died before its second insert; and   *)
(* such a user stays without one whatever runs later: the seed finds the   *)
(* address and goes on, a sign-up is refused for it, deletion only hides   *)
(* it.  A password reset or GitHub alone helps.                            *)
HalfMadeExplained ==
    /\ \A r \in people : ~r.account =>
          \/ Key(r) \in cut
          \/ \E s \in Seeds : pc[s] = "account" /\ Key(r) = <<SeedRun(s), Persons[who[s]].email>>
          \/ \E p \in Visitors : doing[p] = "account" /\ Key(r) = <<Visitor(p), p.email>>
    /\ \A k \in cut : \E r \in people : Key(r) = k /\ ~r.account
=============================================================================
