--------------------------- MODULE SQLiteStatement ---------------------------
(***************************************************************************)
(* The statement wrapper of src/libraries/SQLiteCpp/src/SQLiteC++/         *)
(* SQLiteC++.cpp over one database connection: constructing a Statement    *)
(* prepares and registers it, destroying it finalizes and unregisters it,  *)
(* reset() and executeStep() drive sqlite3_reset / sqlite3_step.  The      *)
(* SQLite engine (3.40, the library the build links) is abstracted to a    *)
(* cursor over NRows result rows: a step yields SQLITE_ROW while rows      *)
(* remain, then SQLITE_DONE.  A step may instead fail with an error that  *)
(* halts it; SQLITE_BUSY changes nothing and is a stuttering step.  A step *)
(* of a halted statement (after SQLITE_DONE or an error) first resets it   *)
(* automatically and runs the query again from its first row, as           *)
(* sqlite3_step does since version 3.6.23.1; sqlite3_reset always rewinds  *)
(* and only reports the error of the last step.                            *)
(***************************************************************************)
EXTENDS Naturals, Sequences, SequencesExt

CONSTANTS
    Stmts,      \* Statement objects (model values)
    NRows       \* rows the query yields

\* What sqlite3_step reports: a result (a row or SQLITE_DONE) or an error.
StepOutcomes == {"result", "error"}

\* rows_read only tells apart "within the result" from "beyond it", so it
\* stops counting one past NRows (a failed query may be re-read forever).
ReadBound == NRows + 1

VARIABLES
    \* implementation
    statement_list,     \* Database::mStatementList
    mbDone,             \* Statement::mbDone
    cursor,             \* engine: rows already produced since the statement started
    halted,             \* engine: the last step reported SQLITE_DONE or an error
    \* observation
    rows_read,          \* rows executeStep delivered since construction or reset()
    threw,              \* a step failed with an error since construction or reset()
    last_step           \* what the last executeStep got and returned

vars == <<statement_list, mbDone, cursor, halted, rows_read, threw, last_step>>

NoStep == [returned |-> FALSE, row |-> FALSE]

Init ==
    /\ statement_list = <<>>
    /\ mbDone = [s \in Stmts |-> FALSE]
    /\ cursor = [s \in Stmts |-> 0]
    /\ halted = [s \in Stmts |-> FALSE]
    /\ rows_read = [s \in Stmts |-> 0]
    /\ threw = [s \in Stmts |-> FALSE]
    /\ last_step = [s \in Stmts |-> NoStep]

Live(s) == s \in Range(statement_list)

\* Database::registerStatement
RegisterStatement(s) == statement_list' = Append(statement_list, s)

\* Database::unregisterStatement: erase the first entry for s, if any.
UnregisterStatement(s) == statement_list' = RemoveFirst(statement_list, s)

\* Statement::Statement: prepare the query (a failure throws before
\* anything is registered) and register the statement.
Construct(s) ==
    /\ ~Live(s)
    /\ mbDone' = [mbDone EXCEPT ![s] = FALSE]
    /\ cursor' = [cursor EXCEPT ![s] = 0]
    /\ halted' = [halted EXCEPT ![s] = FALSE]
    /\ rows_read' = [rows_read EXCEPT ![s] = 0]
    /\ threw' = [threw EXCEPT ![s] = FALSE]
    /\ last_step' = [last_step EXCEPT ![s] = NoStep]
    /\ RegisterStatement(s)

\* Statement::~Statement: finalize (an error is only printed) and unregister.
Destroy(s) ==
    /\ Live(s)
    /\ UnregisterStatement(s)
    /\ UNCHANGED <<mbDone, cursor, halted, rows_read, threw, last_step>>

\* Statement::reset: clear mbDone, then sqlite3_reset, which rewinds the
\* statement even when it reports the error of the last step (and reset()
\* then throws).
Reset(s) ==
    /\ Live(s)
    /\ mbDone' = [mbDone EXCEPT ![s] = FALSE]
    /\ cursor' = [cursor EXCEPT ![s] = 0]
    /\ halted' = [halted EXCEPT ![s] = FALSE]
    /\ rows_read' = [rows_read EXCEPT ![s] = 0]
    /\ threw' = [threw EXCEPT ![s] = FALSE]
    /\ UNCHANGED <<statement_list, last_step>>

\* sqlite3_step on a statement that is not busy: a halted statement is
\* reset first, then it yields the next row or reports SQLITE_DONE (the
\* wrapper sets mbDone and returns true), or fails with an error that
\* halts it (the wrapper throws).
EngineStep(s, outcome) ==
    LET from == IF halted[s] THEN 0 ELSE cursor[s] IN
    \/ /\ outcome = "error"
       /\ cursor' = [cursor EXCEPT ![s] = from]
       /\ halted' = [halted EXCEPT ![s] = TRUE]
       /\ threw' = [threw EXCEPT ![s] = TRUE]
       /\ UNCHANGED <<mbDone, rows_read, last_step>>
    \/ /\ outcome = "result"
       /\ from < NRows
       /\ cursor' = [cursor EXCEPT ![s] = from + 1]
       /\ halted' = [halted EXCEPT ![s] = FALSE]
       /\ rows_read' = [rows_read EXCEPT ![s] = IF @ < ReadBound THEN @ + 1 ELSE @]
       /\ last_step' = [last_step EXCEPT ![s] = [returned |-> TRUE, row |-> TRUE]]
       /\ UNCHANGED <<mbDone, threw>>
    \/ /\ outcome = "result"
       /\ from = NRows
       /\ cursor' = [cursor EXCEPT ![s] = from]
       /\ halted' = [halted EXCEPT ![s] = TRUE]
       /\ mbDone' = [mbDone EXCEPT ![s] = TRUE]
       /\ last_step' = [last_step EXCEPT ![s] = [returned |-> TRUE, row |-> FALSE]]
       /\ UNCHANGED <<rows_read, threw>>

\* Mutant: executeStep steps the engine without testing mbDone first.
ExecuteStep_NoDoneGuard(s, outcome) ==
    /\ Live(s)
    /\ EngineStep(s, outcome)
    /\ UNCHANGED statement_list

(***************************************************************************)
(* Statement::executeStep: a statement with mbDone set returns false       *)
(* without stepping; otherwise sqlite3_step fails (the wrapper throws),    *)
(* yields a row (true) or reports SQLITE_DONE (mbDone set, true returned). *)
(***************************************************************************)
ExecuteStep(s, outcome) ==
    /\ Live(s)
    /\ IF mbDone[s]
         THEN /\ last_step' = [last_step EXCEPT ![s] = NoStep]
              /\ UNCHANGED <<mbDone, cursor, halted, rows_read, threw>>
         ELSE EngineStep(s, outcome)
    /\ UNCHANGED statement_list

Next ==
    \E s \in Stmts :
        \/ Construct(s)
        \/ Destroy(s)
        \/ Reset(s)
        \/ \E o \in StepOutcomes : ExecuteStep(s, o)

Spec == Init /\ [][Next]_vars

-----------------------------------------------------------------------------
(***************************************************************************)
(* Properties                                                              *)
(***************************************************************************)

\* A query is read once: as long as no step has failed, the rows
\* executeStep delivers between construction or reset() and the next reset
\* are at most the rows of the result, however often a caller keeps calling
\* executeStep after SQLITE_DONE and whatever busy retries came between.
\* The engine would re-run a finished query on the next sqlite3_step; only
\* the mbDone test keeps it from doing so.
RowsReadOnce ==
    \A s \in Stmts : Live(s) /\ ~threw[s] => rows_read[s] <= NRows

\* executeStep() returns true only when it fetched a row ("Execute a step
\* of the query to fetch one row of results"), so a caller's
\* while (executeStep()) loop reads exactly the rows of the result.
StepTrueOnlyOnRow ==
    \A s \in Stmts : last_step[s].returned => last_step[s].row
====
