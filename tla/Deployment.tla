----------------------------- MODULE Deployment ------------------------------
(***************************************************************************)
(* The processes (Startup) and the database (Database) of one deployment.  *)
(* They meet in the .env file and in the running server: TypeORM's tools   *)
(* and Better Auth's pool connect with DATABASE_HOST and its four          *)
(* companions, Drizzle's tools, its seed and the server's own queries with *)
(* DATABASE_URL alone (src/drizzle/drizzle.module.ts), and users sign up   *)
(* and are deleted only while a server is up; when it stops, it leaves     *)
(* what it was doing.  The model follows the database that the texts "fit" *)
(* name.                                                                   *)
(***************************************************************************)
EXTENDS Integers

CONSTANTS Environments, Builds, Seeds, Visitors

VARIABLES env, build, pc, image,                                     \* Startup
          schema, applied, people, tracked, at, who, doing, cut      \* Database

startupVars == <<env, build, pc, image>>
databaseVars == <<schema, applied, people, tracked, at, who, doing, cut>>
vars == <<startupVars, databaseVars>>

S == INSTANCE Startup
D == INSTANCE Database WITH pc <- at

ASSUME DeploymentAssumption ==
    /\ Environments \subseteq [S!Settings -> S!Texts]
    /\ Builds \subseteq SUBSET {"DataSource"}

Init == S!Init /\ D!Init

\* The five fields of getConfig, which knows no DATABASE_URL.
TypeOrmConnects(e) ==
    /\ \A s \in {"DATABASE_HOST", "DATABASE_PASSWORD", "DATABASE_NAME", "DATABASE_USERNAME"} : e[s] = "fit"
    /\ S!DatabaseConfig(e).port = 8000

\* new Pool({ connectionString }): without a url, node-postgres goes elsewhere.
DrizzleConnects(e) == e["DATABASE_URL"] = "fit"

\* A server that stops leaves its requests, sign-ups among them, where they are.
Alongside ==
    IF pc["server"] = "up" /\ pc'["server"] # "up" THEN D!SignUpsEnd ELSE UNCHANGED databaseVars

Process == S!Next /\ Alongside
TypeOrmTool == TypeOrmConnects(env) /\ D!TypeOrmTool /\ UNCHANGED startupVars
DrizzleTool == DrizzleConnects(env) /\ D!DrizzleTool /\ UNCHANGED startupVars

\* The routes of the server; a running process keeps the settings it started with.
UserStep ==
    /\ pc["server"] = "up"
    /\ \/ TypeOrmConnects(image["server"]) /\ D!AuthStep
       \/ DrizzleConnects(image["server"]) /\ D!Deletion
    /\ UNCHANGED startupVars

Next == Process \/ TypeOrmTool \/ DrizzleTool \/ UserStep

Fairness == S!Fairness

Spec == Init /\ [][Next]_vars /\ Fairness
-----------------------------------------------------------------------------
(* What the parts promise holds in the composition; each is explained, with*)
(* the code it is about, where it is defined.                              *)
StartsExactly == S!StartsExactly
NumbersRead == S!NumbersRead
SchemaSound == D!SchemaSound
NamesAreUnique == D!NamesAreUnique
HalfMadeExplained == D!HalfMadeExplained
ComesUp == S!ComesUp
=============================================================================
