----------------------------- MODULE Migrations -----------------------------
(***************************************************************************)
(* Opening the database: every migration that schema_version does not      *)
(* record is executed, statement by statement and without a transaction,   *)
(* and then recorded. The process may end between any two statements.      *)
(*                                                                         *)
(* internal/store/{migration,sqlite}.go, internal/store/migrations/sqlite  *)
(*                                                                         *)
(* A statement is told by its kind and by the statements whose tables or   *)
(* columns it needs. "create" (IF NOT EXISTS) and "update" may be          *)
(* repeated, "alter" (ADD COLUMN) not; a failure ends the script.          *)
(***************************************************************************)
EXTENDS Integers, Sequences

CONSTANT
    Installed    \* versions of the database there may be at the start: how
                 \* many migrations are recorded

Create == <<"create", {}>>
AlterOf(s) == <<"alter", {s}>>
UpdateOf(S) == <<"update", S>>
IndexOf(s) == <<"create", {s}>>

(* The scripts, in the order of their names. *)
Script ==
    LET chunks == <<1, 1>>          stored_peers == <<1, 2>>
        messages == <<1, 3>>        pending_chunks == <<1, 4>>
        last_check == <<4, 1>>      file_downloads == <<9, 1>>
    IN
    << <<Create, Create, Create, Create>>,
       <<AlterOf(chunks), AlterOf(chunks), AlterOf(pending_chunks)>>,
       <<Create>>,
       <<Create, Create>>,
       <<Create>>,
       <<AlterOf(stored_peers)>>,
       <<IndexOf(messages), IndexOf(messages)>>,
       <<UpdateOf({messages})>>,
       <<Create>>,
       <<Create, AlterOf(messages), UpdateOf({<<10, 2>>}), IndexOf(<<10, 2>>)>>,
       <<AlterOf(pending_chunks), UpdateOf({pending_chunks}), UpdateOf({last_check})>>,
       <<AlterOf(file_downloads), AlterOf(file_downloads), AlterOf(file_downloads),
         UpdateOf({<<12, 2>>, <<12, 3>>})>> >>

Version == 1..Len(Script)

ASSUME MigrationsAssumption == Installed \subseteq 0..Len(Script)

VARIABLES
    db,          \* the store: "down", "migrating", "open", "failed"
    at,          \* the statement to execute: (migration, position)
    done,        \* the statements whose effect is in the database
    recorded     \* schema_version

dbVars == <<db, at, done, recorded>>

Statements(v) == {<<v, i>> : i \in 1..Len(Script[v])}

MigrationsTypeOK ==
    /\ db \in {"down", "migrating", "open", "failed"}
    /\ at \in Version \X (1..5)
    /\ done \subseteq UNION {Statements(v) : v \in Version}
    /\ recorded \subseteq Version

MigrationsInit ==
    /\ db = "down" /\ at = <<1, 1>>
    /\ \E n \in Installed :
          /\ recorded = 1..n
          /\ done = UNION {Statements(v) : v \in 1..n}

Missing == Version \ recorded

(* store.New: begin with the first migration that is not recorded. *)
OpenStore ==
    /\ db = "down"
    /\ IF Missing = {}
       THEN db' = "open" /\ UNCHANGED at
       ELSE /\ db' = "migrating"
            /\ at' = <<CHOOSE v \in Missing : \A u \in Missing : v <= u, 1>>
    /\ UNCHANGED <<done, recorded>>

AtEnd == at[2] > Len(Script[at[1]])

\* The column is already there.
Duplicate == Script[at[1]][at[2]][1] = "alter" /\ at \in done

\* A table or column it needs is not there.
NoSuchColumn == ~(Script[at[1]][at[2]][2] \subseteq done)

Skip == at' = <<at[1], Len(Script[at[1]]) + 1>> /\ UNCHANGED <<db, done>>
FailStart == db' = "failed" /\ UNCHANGED <<at, done>>
Perform == done' = done \cup {at} /\ at' = <<at[1], at[2] + 1>> /\ UNCHANGED db

(* (A variant of Exec: every failure ends the start.)                      *)
ExecStrict ==
    /\ db = "migrating" /\ ~AtEnd
    /\ IF Duplicate \/ NoSuchColumn THEN FailStart ELSE Perform
    /\ UNCHANGED recorded

(* The next statement. A column that is already there ends the script, and *)
(* the migration counts as applied; any other failure ends the start.      *)
Exec ==
    /\ db = "migrating" /\ ~AtEnd
    /\ CASE Duplicate -> Skip
         [] NoSuchColumn -> FailStart
         [] OTHER -> Perform
    /\ UNCHANGED recorded

(* Record it, and go on with the next or end. *)
Record ==
    LET v == at[1] IN
    /\ db = "migrating" /\ AtEnd
    /\ recorded' = recorded \cup {v}
    /\ IF v = Len(Script)
       THEN db' = "open" /\ UNCHANGED at
       ELSE at' = <<v + 1, 1>> /\ UNCHANGED db
    /\ UNCHANGED done

(* Close, or the end of the process: what was executed stays. *)
CloseStore ==
    /\ db' = "down"
    /\ UNCHANGED <<at, done, recorded>>

-----------------------------------------------------------------------------
(* Properties *)

(* No end of the process, at whatever statement, leaves a database that    *)
(* cannot be opened again: a script that has begun can be begun once more, *)
(* and what it then skips is nothing that a later statement needs.         *)
OpensAgain == db # "failed"
=============================================================================
