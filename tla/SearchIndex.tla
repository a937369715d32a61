---------------------------- MODULE SearchIndex ----------------------------
(***************************************************************************)
(* The full-text index over agent_runs and conversation_messages, built by *)
(* every process that opens the database (initialize_sqlite_database), and *)
(* kept up to date by triggers afterwards.  Processes share one SQLite     *)
(* file; a process may crash between any two statements and start again.   *)
(*                                                                         *)
(* Transactions are those of Python's sqlite3: a CREATE or ALTER outside a *)
(* transaction commits at once, the INSERT of a rebuild opens a            *)
(* transaction that later statements join, and executescript() of the      *)
(* triggers commits it.  Whoever has one open holds the write lock.        *)
(*                                                                         *)
(* A text is represented by its version.  The schema script that comes     *)
(* first is IF NOT EXISTS throughout and the file may be empty, so it is   *)
(* part of the start; of the columns _ensure_column() adds, one stands for *)
(* all: the script creates learning_entries without learning_lessons, so   *)
(* even a new file lacks it.                                               *)
(*                                                                         *)
(* Definitions directly above another one with the same parameters are     *)
(* faulty variants of it.                                                  *)
(***************************************************************************)
EXTENDS Naturals

CONSTANTS
    Processes,   \* processes that open the database: bot, command line, workers
    Nobody,      \* no transaction is open
    Rows,        \* row ids, of either table
    MaxStarts    \* bound: starts of all processes together

ASSUME SearchAssumption == Processes # {} /\ Nobody \notin Processes /\ MaxStarts \in Nat

Tables == {"runs", "messages"}

\* The order in which initialize_sqlite_database() treats the tables.
FirstTable == "runs"
Following(t) == IF t = "runs" THEN "messages" ELSE "none"

\* "none": no such row, or no such entry; otherwise the version of the text.
Text == {"none", "v1", "v2"}
Content == [Tables -> [Rows -> Text]]
Empty == [t \in Tables |-> [r \in Rows |-> "none"]]

Database == [column: BOOLEAN, fts: SUBSET Tables, triggers: SUBSET Tables,
             row: Content, index: Content]

VARIABLES
    db,        \* what is committed
    draft,     \* what the open transaction sees; db when there is none
    writer,    \* the process with the open transaction
    pc,        \* the next statement of a process
    at,        \* the table it is about
    alone,     \* history: nobody else was initialising since it started to
    cut,       \* history: tables whose index was created, but not filled
    written,   \* history: rows inserted or updated through a running process
    starts

vars == <<db, draft, writer, pc, at, alone, cut, written, starts>>

Initialising == {"column", "alter", "check", "create", "rebuild", "commit", "triggers"}
PC == {"down", "failed", "serving"} \cup Initialising

\* A file without tables, or one an older version has left behind: any rows in
\* their first version, no index.
Init ==
    /\ \E old \in [Tables -> [Rows -> {"none", "v1"}]], column \in BOOLEAN :
           db = [column |-> column, fts |-> {}, triggers |-> {}, row |-> old, index |-> Empty]
    /\ draft = db
    /\ writer = Nobody
    /\ pc = [p \in Processes |-> "down"]
    /\ at = [p \in Processes |-> FirstTable]
    /\ alone = [p \in Processes |-> FALSE]
    /\ cut = {}
    /\ written = {}
    /\ starts = 0

-----------------------------------------------------------------------------

\* The database as a statement of p sees it.
View(p) == IF writer = p THEN draft ELSE db

MayWrite(p) == writer \in {Nobody, p}

\* A statement of p leaves d: in its transaction, or committed at once.
Write(p, d) ==
    /\ MayWrite(p)
    /\ draft' = d
    /\ db' = IF writer = p THEN db ELSE d

\* The connection is closed without a commit.
RollBack(p) ==
    /\ db' = db
    /\ draft' = IF writer = p THEN db ELSE draft
    /\ writer' = IF writer = p THEN Nobody ELSE writer

\* The tables whose index p has created and would leave unfilled.
Unfilled(p) ==
    (IF pc[p] = "rebuild" THEN {at[p]} ELSE {})
        \cup (IF writer = p THEN {t \in Tables : db.index[t] # draft.index[t]} ELSE {})

\* initialize() raised: the process ends.
Raise(p) ==
    /\ RollBack(p)
    /\ cut' = cut \cup {t \in Unfilled(p) : t \in db.fts}
    /\ pc' = [pc EXCEPT ![p] = "failed"]
    /\ UNCHANGED <<at, alone, written, starts>>

Go(p, step) == pc' = [pc EXCEPT ![p] = step]

Start(p) ==
    /\ pc[p] \in {"down", "failed"} /\ starts < MaxStarts
    /\ starts' = starts + 1
    /\ Go(p, "column")
    /\ LET others == {q \in Processes : pc[q] \in Initialising}
       IN  alone' = [q \in Processes |-> IF q = p THEN others = {}
                                         ELSE alone[q] /\ q \notin others]
    /\ UNCHANGED <<db, draft, writer, at, cut, written>>

\* _ensure_column(): look for the column ...
FindColumn(p) ==
    /\ pc[p] = "column"
    /\ at' = [at EXCEPT ![p] = FirstTable]
    /\ Go(p, IF View(p).column THEN "check" ELSE "alter")
    /\ UNCHANGED <<db, draft, writer, alone, cut, written, starts>>

\* ... then add it, unless somebody else has: "duplicate column name".
AddColumn(p) ==
    /\ pc[p] = "alter" /\ ~View(p).column
    /\ Write(p, [View(p) EXCEPT !.column = TRUE])
    /\ Go(p, "check")
    /\ UNCHANGED <<writer, at, alone, cut, written, starts>>

AddColumnRaises(p) ==
    /\ pc[p] = "alter" /\ MayWrite(p) /\ View(p).column
    /\ Raise(p)

\* On to the next table, or to the triggers.
NextTable(p) ==
    IF Following(at[p]) = "none" THEN Go(p, "commit") /\ UNCHANGED at
    ELSE Go(p, "check") /\ at' = [at EXCEPT ![p] = Following(@)]

\* _table_exists(): an index that exists is not looked into.
FindNoIndex(p) ==
    /\ pc[p] = "check"
    /\ Go(p, "create")
    /\ UNCHANGED <<db, draft, writer, at, alone, cut, written, starts>>
FindIndex(p) ==
    /\ pc[p] = "check"
    /\ IF at[p] \in View(p).fts THEN NextTable(p) ELSE Go(p, "create") /\ UNCHANGED at
    /\ UNCHANGED <<db, draft, writer, alone, cut, written, starts>>

\* CREATE VIRTUAL TABLE, without IF NOT EXISTS.
CreateIndex(p) ==
    /\ pc[p] = "create" /\ at[p] \notin View(p).fts
    /\ Write(p, [View(p) EXCEPT !.fts = @ \cup {at[p]}])
    /\ Go(p, "rebuild")
    /\ UNCHANGED <<writer, at, alone, cut, written, starts>>

CreateIndexRaises(p) ==
    /\ pc[p] = "create" /\ MayWrite(p) /\ at[p] \in View(p).fts
    /\ Raise(p)

\* The rows an INSERT ... SELECT would enter a second time.
Clash(p) == \E r \in Rows : /\ View(p).row[at[p]][r] # "none"
                            /\ View(p).index[at[p]][r] # "none"

\* _rebuild_..._search_index(): opens a transaction that stays open.
RebuiltNever(d, t) == d.index
Rebuilt(d, t) == [d.index EXCEPT ![t] = d.row[t]]

Rebuild(p) ==
    /\ pc[p] = "rebuild" /\ MayWrite(p) /\ ~Clash(p)
    /\ writer' = p
    /\ draft' = [View(p) EXCEPT !.index = Rebuilt(View(p), at[p])]
    /\ NextTable(p)
    /\ UNCHANGED <<db, alone, cut, written, starts>>

RebuildRaises(p) ==
    /\ pc[p] = "rebuild" /\ MayWrite(p) /\ Clash(p)
    /\ Raise(p)

\* executescript() of _ensure_search_triggers(): first a commit, ...
Commit(p) ==
    /\ pc[p] = "commit"
    /\ db' = View(p)
    /\ draft' = IF writer = p THEN View(p) ELSE draft
    /\ writer' = IF writer = p THEN Nobody ELSE writer
    /\ at' = [at EXCEPT ![p] = FirstTable]
    /\ Go(p, "triggers")
    /\ UNCHANGED <<alone, cut, written, starts>>

\* ... then the triggers of one table after the other, IF NOT EXISTS.
CreateFirstTriggers(p) ==
    /\ pc[p] = "triggers"
    /\ IF at[p] \in db.triggers THEN UNCHANGED <<db, draft>>
       ELSE Write(p, [db EXCEPT !.triggers = @ \cup {at[p]}])
    /\ Go(p, "serving")
    /\ UNCHANGED <<writer, at, alone, cut, written, starts>>
CreateTriggers(p) ==
    /\ pc[p] = "triggers"
    /\ IF at[p] \in db.triggers THEN UNCHANGED <<db, draft>>
       ELSE Write(p, [db EXCEPT !.triggers = @ \cup {at[p]}])
    /\ IF Following(at[p]) = "none" THEN Go(p, "serving") /\ UNCHANGED at
       ELSE at' = [at EXCEPT ![p] = Following(@)] /\ UNCHANGED pc
    /\ UNCHANGED <<writer, alone, cut, written, starts>>

\* The lock was held for longer than sqlite3's five seconds: "database is locked".
LockTimeout(p) ==
    /\ pc[p] \in {"alter", "create", "rebuild", "triggers"} /\ ~MayWrite(p)
    /\ pc[p] = "triggers" => at[p] \notin db.triggers
    /\ Raise(p)

\* The process ends, in good order or at any statement.
Crash(p) ==
    /\ pc[p] \notin {"down", "failed"}
    /\ RollBack(p)
    /\ cut' = cut \cup {t \in Unfilled(p) : t \in db.fts}
    /\ Go(p, "down")
    /\ UNCHANGED <<at, alone, written, starts>>

-----------------------------------------------------------------------------

\* What the triggers of t do to the index when row r gets a text: agent_runs_ai
\* inserts an entry, agent_runs_au replaces it.
IndexedOnInsert(t, r, text) ==
    IF t \in db.triggers /\ db.row[t][r] = "none"
    THEN [db.index EXCEPT ![t][r] = text] ELSE db.index
Indexed(t, r, text) ==
    IF t \in db.triggers THEN [db.index EXCEPT ![t][r] = text] ELSE db.index

\* A repository of process p writes a row, the triggers in the same transaction.
Put(p, t, r, text) ==
    /\ pc[p] = "serving" /\ writer = Nobody
    /\ Write(p, [db EXCEPT !.row[t][r] = text, !.index = Indexed(t, r, text)])
    /\ written' = written \cup {<<t, r>>}
    /\ UNCHANGED <<writer, pc, at, alone, cut, starts>>

\* create() and append_message()
Insert(p, t, r) == db.row[t][r] = "none" /\ Put(p, t, r, "v1")

\* Every later write of a run; messages are never changed, and nothing is deleted.
Update(p, r) ==
    /\ db.row["runs"][r] # "none"
    /\ Put(p, "runs", r, IF db.row["runs"][r] = "v1" THEN "v2" ELSE "v1")

\* search() and search_messages() without a term that tells rows apart: the rows
\* joined to their entries; a plain scan only when MATCH raises for want of an index.
Found(t) == IF t \in db.fts THEN {r \in Rows : db.row[t][r] # "none" /\ db.index[t][r] # "none"}
            ELSE {r \in Rows : db.row[t][r] # "none"}

-----------------------------------------------------------------------------

Statement(p) ==
    \/ FindColumn(p) \/ AddColumn(p) \/ AddColumnRaises(p)
    \/ FindIndex(p) \/ CreateIndex(p) \/ CreateIndexRaises(p)
    \/ Rebuild(p) \/ RebuildRaises(p)
    \/ Commit(p) \/ CreateTriggers(p) \/ LockTimeout(p)

Next == \E p \in Processes :
    \/ Start(p) \/ Statement(p) \/ Crash(p)
    \/ \E t \in Tables, r \in Rows : Insert(p, t, r)
    \/ \E r \in Rows : Update(p, r)

Spec == Init /\ [][Next]_vars

-----------------------------------------------------------------------------

\* The values of every variable; without an open transaction the draft is what is
\* committed, and a transaction is only ever open in a process that initialises.
TypeOK ==
    /\ db \in Database /\ draft \in Database
    /\ writer \in Processes \cup {Nobody}
    /\ pc \in [Processes -> PC]
    /\ at \in [Processes -> Tables]
    /\ alone \in [Processes -> BOOLEAN]
    /\ cut \in SUBSET Tables
    /\ written \in SUBSET (Tables \X Rows)
    /\ starts \in 0..MaxStarts
    /\ writer = Nobody => draft = db
    /\ writer # Nobody => pc[writer] \in {"check", "create", "rebuild", "commit"}

\* initialize() can be repeated: whatever earlier attempts left behind, at whichever
\* statement they were cut off, a process that initialises without another one
\* initialising beside it comes through, also next to processes that serve.
SoleStarterSucceeds == \A p \in Processes : pc[p] = "failed" => ~alone[p]

\* A run or message written through a process that came through is found, even if
\* the index was never filled with what was there before; and no entry outlives or
\* lags behind its row, whoever rebuilds while others write.
WrittenRowsAreFound ==
    \A t \in Tables, r \in Rows :
        /\ <<t, r>> \in written => r \in Found(t)
        /\ db.index[t][r] \in {"none", db.row[t][r]}

\* The only way to lose older rows from the search: a process that ended after it
\* had created the index and before the rebuild was committed.
SearchIsComplete ==
    \A t \in Tables :
        \/ t \in cut
        \/ \E p \in Processes : t \in Unfilled(p)
        \/ Found(t) = {r \in Rows : db.row[t][r] # "none"}

\* Of processes that open the database together at least one comes through: they
\* get in each other's way, but never all of them.
SomebodyComesThrough == \E p \in Processes : pc[p] # "failed"
=============================================================================
