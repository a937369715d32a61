------------------------- MODULE SearchIndexProofs -------------------------
(***************************************************************************)
(* Theorems about SearchIndex, for any number of processes, starts and     *)
(* rows: a process that initialises alone comes through, of several at     *)
(* least one does, and the search finds what it should.                    *)
(*                                                                         *)
(* The proof has one lemma per part of the invariant and, in it, one case  *)
(* per action.  Most parts rest on three others: a transaction only adds   *)
(* to what is committed, nothing that exists is dropped, and what a        *)
(* process has looked up therefore stays there.                            *)
(***************************************************************************)
EXTENDS SearchIndex, TLAPS

USE SearchAssumption

-----------------------------------------------------------------------------
(* The inductive invariant.                                                *)

Nothing(entries) == \A r \in Rows : entries[r] = "none"

\* What every state of the tables, committed or not, has in common: an index that
\* does not exist has no entries and no triggers, an entry is never out of date, and
\* what serving processes wrote, rows, is indexed.
Sound(d, rows) ==
    /\ d.triggers \subseteq d.fts
    /\ \A t \in Tables : t \notin d.fts => Nothing(d.index[t])
    /\ \A t \in Tables, r \in Rows : d.index[t][r] \in {"none", d.row[t][r]}
    /\ \A t \in Tables, r \in Rows :
           <<t, r>> \in rows => d.row[t][r] # "none" /\ d.index[t][r] # "none"

\* What a process knows to exist, by the statement it has reached.
Passed(p) ==
    /\ pc[p] = "alter" => at[p] = FirstTable
    /\ pc[p] \in {"check", "create", "rebuild"} /\ at[p] = "messages" => "runs" \in View(p).fts
    /\ pc[p] = "rebuild" => at[p] \in View(p).fts
    /\ pc[p] = "commit" => Tables \subseteq View(p).fts
    /\ pc[p] = "triggers" => Tables \subseteq db.fts /\ (at[p] = "messages" => "runs" \in db.triggers)
    /\ pc[p] = "serving" => Tables \subseteq db.triggers

\* An open transaction adds indexes and entries, and nothing else.
DraftExtends ==
    /\ draft.row = db.row /\ draft.triggers = db.triggers /\ draft.column = db.column
    /\ db.fts \subseteq draft.fts

\* Somebody else has done meanwhile what the next statement of p is about: it raises.
Behind(p) ==
    \/ pc[p] = "alter" /\ View(p).column
    \/ pc[p] = "create" /\ at[p] \in View(p).fts
    \/ pc[p] = "rebuild" /\ Clash(p)

\* Nobody gets ahead of a process that holds the write lock ...
WriterIsAhead == writer # Nobody => ~Behind(writer)

\* ... or of one that initialises alone: processes that serve do not touch an index
\* that is still to be filled.
AloneIsAhead ==
    \A p \in Processes : alone[p] /\ pc[p] \in Initialising =>
        /\ \A q \in Processes \ {p} : pc[q] \notin Initialising
        /\ ~Behind(p)
        /\ pc[p] = "rebuild" => Nothing(View(p).index[at[p]]) /\ at[p] \notin View(p).triggers

\* Every row of t has an entry, if t has an index at all.
Complete(d, t) ==
    t \in d.fts => \A r \in Rows : d.row[t][r] # "none" => d.index[t][r] # "none"

\* An incomplete index is being filled by somebody, or whoever created it has ended.
FilledOrCut ==
    \A t \in Tables :
        /\ Complete(draft, t) \/ t \in cut \/ \E p \in Processes : pc[p] = "rebuild" /\ at[p] = t
        /\ Complete(db, t) \/ t \in cut \/ \E p \in Processes : t \in Unfilled(p)

\* Somebody has not failed, and will not fail by what others have done so far.
SomebodyIsAhead == \E p \in Processes : pc[p] # "failed" /\ ~Behind(p)

SearchInv ==
    /\ TypeOK
    /\ Sound(db, written) /\ Sound(draft, written)
    /\ \A p \in Processes : Passed(p)
    /\ DraftExtends
    /\ WriterIsAhead
    /\ AloneIsAhead
    /\ SoleStarterSucceeds
    /\ FilledOrCut
    /\ SomebodyIsAhead

-----------------------------------------------------------------------------
(* Lemmas about the database and the statements.                           *)

\* The end of a process, by an exception or a crash.  A statement raises because the
\* process is behind, or because somebody else holds the write lock.
Ends(p) ==
    /\ RollBack(p)
    /\ pc[p] \notin {"down", "failed"}
    /\ cut' = cut \cup {t \in Unfilled(p) : t \in db.fts}
    /\ \/ Go(p, "down")
       \/ Go(p, "failed") /\ pc[p] \in Initialising /\ (Behind(p) \/ ~MayWrite(p))
    /\ UNCHANGED <<at, alone, written, starts>>

\* A step of p, the ends of it taken together.
Acts(p) ==
    \/ Start(p) \/ FindColumn(p) \/ AddColumn(p) \/ FindIndex(p) \/ CreateIndex(p) \/ Rebuild(p)
    \/ Commit(p) \/ CreateTriggers(p) \/ Ends(p)
    \/ \E t \in Tables, r \in Rows, text \in {"v1", "v2"} : Put(p, t, r, text)

\* These are all the steps there are.
LEMMA StepsOfProcesses == [Next]_vars => UNCHANGED vars \/ \E p \in Processes : Acts(p)
<1>1. ASSUME NEW p \in Processes, Statement(p) \/ Crash(p) PROVE Acts(p)
  <2>1. AddColumnRaises(p) \/ CreateIndexRaises(p) \/ RebuildRaises(p) => Ends(p)
    BY DEF AddColumnRaises, CreateIndexRaises, RebuildRaises, Raise, Ends, Behind, Go, Initialising
  <2>2. LockTimeout(p) \/ Crash(p) => Ends(p)
    BY DEF LockTimeout, Crash, Raise, Ends, Go, Initialising
  <2>3. QED
    BY <1>1, <2>1, <2>2 DEF Statement, Acts
<1>2. "runs" \in Tables
  BY DEF Tables
<1>3. ASSUME NEW p \in Processes, NEW t \in Tables, NEW r \in Rows, Insert(p, t, r) PROVE Acts(p)
  BY <1>3 DEF Insert, Acts
<1>4. ASSUME NEW p \in Processes, NEW r \in Rows, Update(p, r) PROVE Acts(p)
  BY <1>2, <1>4 DEF Update, Acts
<1>5. ASSUME NEW p \in Processes, Start(p) PROVE Acts(p)
  BY <1>5 DEF Acts
<1>6. QED
  BY <1>1, <1>3, <1>4, <1>5 DEF Next

\* What a process sees is a database.
LEMMA Views ==
    ASSUME TypeOK, NEW p \in Processes
    PROVE  /\ View(p) \in Database /\ db \in Database /\ draft \in Database
           /\ writer # p => View(p) = db
           /\ MayWrite(p) => View(p) = draft
BY DEF TypeOK, View, MayWrite

\* Writing a database keeps the types of both, committed at once or not.
LEMMA WriteType ==
    ASSUME TypeOK, NEW p \in Processes, NEW d \in Database, Write(p, d), writer' = writer
    PROVE  db' \in Database /\ draft' \in Database /\ (writer' = Nobody => draft' = db')
BY DEF TypeOK, Write, MayWrite

\* A database with one column more is a database.
LEMMA WithColumn == ASSUME NEW d \in Database PROVE [d EXCEPT !.column = TRUE] \in Database
BY DEF Database

\* So is one with one index or trigger more, or an index that is filled.
LEMMA WithTable ==
    ASSUME NEW d \in Database, NEW t \in Tables
    PROVE  /\ [d EXCEPT !.fts = @ \cup {t}] \in Database
           /\ [d EXCEPT !.triggers = @ \cup {t}] \in Database
           /\ [d EXCEPT !.index = [d.index EXCEPT ![t] = d.row[t]]] \in Database
BY DEF Database, Content

\* So is one with a row that is written and any index entries.
LEMMA WithRow ==
    ASSUME NEW d \in Database, NEW t \in Tables, NEW r \in Rows, NEW text \in Text
    PROVE  /\ [d.index EXCEPT ![t][r] = text] \in Content
           /\ \A index \in Content : [d EXCEPT !.row[t][r] = text, !.index = index] \in Database
BY DEF Database, Content

-----------------------------------------------------------------------------
(* Types.                                                                  *)

\* The first state has values of these types, whatever an older version left.
LEMMA TypeInit == Init => TypeOK
<1> SUFFICES ASSUME Init PROVE TypeOK
  OBVIOUS
<1>1. db \in Database /\ draft = db
  <2>1. Empty \in Content /\ [Tables -> [Rows -> {"none", "v1"}]] \subseteq Content
    BY DEF Empty, Content, Text
  <2>2. QED
    BY <2>1 DEF Init, Database
<1>2. QED
  BY <1>1 DEF Init, TypeOK, PC, FirstTable, Tables

\* Every statement keeps the types; one case per action.
LEMMA TypeStep == TypeOK /\ [Next]_vars => TypeOK'
<1> SUFFICES ASSUME TypeOK, [Next]_vars PROVE TypeOK'
  OBVIOUS
<1>a. /\ pc \in [Processes -> PC] /\ at \in [Processes -> Tables]
      /\ db \in Database /\ draft \in Database
  BY DEF TypeOK
<1>b. "runs" \in Tables /\ "messages" \in Tables /\ FirstTable = "runs"
  BY DEF Tables, FirstTable
<1>1. ASSUME NEW p \in Processes, Start(p) PROVE TypeOK'
  <2>1. alone' \in [Processes -> BOOLEAN]
    BY <1>1 DEF Start, TypeOK
  <2>2. writer # Nobody => pc'[writer] = pc[writer]
    BY <1>1 DEF Start, Go, TypeOK
  <2>3. pc' \in [Processes -> PC] /\ starts' \in 0..MaxStarts
    BY <1>1 DEF Start, Go, TypeOK, PC, Initialising
  <2>4. QED
    BY <1>1, <2>1, <2>2, <2>3 DEF Start, TypeOK
<1>2. ASSUME NEW p \in Processes, FindColumn(p) PROVE TypeOK'
  BY <1>2, <1>a, <1>b DEF FindColumn, Go, TypeOK, PC, Initialising
<1>3. ASSUME NEW p \in Processes, AddColumn(p) PROVE TypeOK'
  <2>1. db' \in Database /\ draft' \in Database /\ (writer' = Nobody => draft' = db')
    BY <1>3, Views, WriteType, WithColumn DEF AddColumn
  <2>2. QED
    BY <1>3, <1>a, <2>1 DEF AddColumn, Go, TypeOK, PC, Initialising
<1>4. ASSUME NEW p \in Processes, FindIndex(p) PROVE TypeOK'
  BY <1>4, <1>a, <1>b DEF FindIndex, NextTable, Following, Go, TypeOK, PC, Initialising
<1>5. ASSUME NEW p \in Processes, CreateIndex(p) PROVE TypeOK'
  <2>1. db' \in Database /\ draft' \in Database /\ (writer' = Nobody => draft' = db')
    BY <1>5, <1>a, Views, WriteType, WithTable DEF CreateIndex
  <2>2. QED
    BY <1>5, <1>a, <2>1 DEF CreateIndex, Go, TypeOK, PC, Initialising
<1>6. ASSUME NEW p \in Processes, Rebuild(p) PROVE TypeOK'
  <2>1. draft' \in Database
    BY <1>6, <1>a, Views, WithTable DEF Rebuild, Rebuilt
  <2>2. QED
    BY <1>6, <1>a, <1>b, <2>1 DEF Rebuild, NextTable, Following, Go, TypeOK, PC, Initialising
<1>7. ASSUME NEW p \in Processes, Commit(p) PROVE TypeOK'
  <2>1. db' \in Database /\ draft' \in Database /\ (writer' = Nobody => draft' = db')
    BY <1>7, <1>a, Views DEF Commit, View, TypeOK
  <2>2. QED
    BY <1>7, <1>a, <1>b, <2>1 DEF Commit, Go, TypeOK, PC, Initialising
<1>8. ASSUME NEW p \in Processes, CreateTriggers(p) PROVE TypeOK'
  <2>1. db' \in Database /\ draft' \in Database /\ (writer' = Nobody => draft' = db')
    BY <1>8, <1>a, WriteType, WithTable DEF CreateTriggers, TypeOK
  <2>2. QED
    BY <1>8, <1>a, <1>b, <2>1 DEF CreateTriggers, Following, Go, TypeOK, PC, Initialising
<1>9. ASSUME NEW p \in Processes, Ends(p) PROVE TypeOK'
  <2>1. pc' \in [Processes -> PC] /\ (writer' # Nobody => writer' = writer /\ writer # p)
    BY <1>9, <1>a DEF Ends, RollBack, Go, TypeOK, PC
  <2>2. writer' # Nobody => pc'[writer] = pc[writer]
    BY <1>9, <1>a, <2>1 DEF Ends, Go, TypeOK
  <2>3. db' \in Database /\ draft' \in Database /\ (writer' = Nobody => draft' = db')
    BY <1>9 DEF Ends, RollBack, TypeOK
  <2>4. writer' # Nobody => pc'[writer'] \in {"check", "create", "rebuild", "commit"}
    BY <2>1, <2>2 DEF TypeOK
  <2>5. cut' \in SUBSET Tables
    BY <1>9, <1>a DEF Ends, TypeOK, Database
  <2>6. writer' \in Processes \cup {Nobody}
    BY <1>9 DEF Ends, RollBack, TypeOK
  <2>7. QED
    BY <1>9, <2>1, <2>3, <2>4, <2>5, <2>6 DEF Ends, TypeOK
<1>10. ASSUME NEW p \in Processes, NEW t \in Tables, NEW r \in Rows, NEW text \in Text, Put(p, t, r, text) PROVE TypeOK'
  <2>1. Indexed(t, r, text) \in Content
    BY <1>a, WithRow DEF Indexed, Database
  <2>2. db' \in Database /\ draft' \in Database /\ (writer' = Nobody => draft' = db')
    BY <1>10, <1>a, <2>1, WriteType, WithRow DEF Put
  <2>3. QED
    BY <1>10, <2>2 DEF Put, TypeOK
<1>11. ASSUME UNCHANGED vars PROVE TypeOK'
  BY <1>11 DEF vars, TypeOK
<1>12. QED
  BY <1>1, <1>2, <1>3, <1>4, <1>5, <1>6, <1>7, <1>8, <1>9, <1>10, <1>11, StepsOfProcesses
     DEF Acts, Text
-----------------------------------------------------------------------------
(* What a step does to the processes it is not a step of.                  *)

\* Nobody moves another process, takes the lock from it, or drops an index or a
\* trigger; while a process has the lock, the tables are its own.
LEMMA Bystander ==
    ASSUME TypeOK, DraftExtends, NEW p \in Processes, NEW q \in Processes, q # p, Acts(p)
    PROVE  /\ pc'[q] = pc[q] /\ at'[q] = at[q] /\ (alone'[q] => alone[q])
           /\ writer = q => writer' = q /\ draft' = draft /\ db' = db
           /\ writer # q => writer' # q
           /\ View(q).fts \subseteq View(q)'.fts
           /\ db.fts \subseteq db'.fts /\ db.triggers \subseteq db'.triggers
<1>a. /\ pc \in [Processes -> PC] /\ at \in [Processes -> Tables] /\ alone \in [Processes -> BOOLEAN]
      /\ db \in Database /\ draft \in Database
  BY DEF TypeOK
<1>1. pc'[q] = pc[q] /\ at'[q] = at[q]
  BY <1>a DEF Acts, Start, FindColumn, AddColumn, FindIndex, CreateIndex, Rebuild, Commit,
              CreateTriggers, Ends, Put, NextTable, Go
<1>2. alone'[q] => alone[q]
  BY <1>a DEF Acts, Start, FindColumn, AddColumn, FindIndex, CreateIndex, Rebuild, Commit,
              CreateTriggers, Ends, Put
<1>3. writer = q => writer' = q /\ draft' = draft /\ db' = db
  BY DEF Acts, Start, FindColumn, AddColumn, FindIndex, CreateIndex, Rebuild, Commit,
              CreateTriggers, Ends, Put, Write, RollBack, MayWrite, View
<1>4. writer # q => writer' # q
  BY DEF Acts, Start, FindColumn, AddColumn, FindIndex, CreateIndex, Rebuild, Commit,
              CreateTriggers, Ends, Put, RollBack
<1>5. db.fts \subseteq db'.fts /\ db.triggers \subseteq db'.triggers
  <2>1. CASE Start(p) \/ FindColumn(p) \/ FindIndex(p) \/ Rebuild(p) \/ Ends(p)
    BY <2>1 DEF Start, FindColumn, FindIndex, Rebuild, Ends, RollBack
  <2>2. CASE AddColumn(p)
    BY <2>2, <1>a DEF AddColumn, Write, View, Database
  <2>3. CASE CreateIndex(p)
    BY <2>3, <1>a DEF CreateIndex, Write, View, Database
  <2>4. CASE Commit(p)
    BY <2>4 DEF Commit, View, DraftExtends
  <2>5. CASE CreateTriggers(p)
    BY <2>5, <1>a DEF CreateTriggers, Write, Database
  <2>6. CASE \E t \in Tables, r \in Rows, text \in {"v1", "v2"} : Put(p, t, r, text)
    <3>1. PICK t \in Tables, r \in Rows, text \in {"v1", "v2"} : Put(p, t, r, text)
      BY <2>6
    <3>2. db' = [db EXCEPT !.row[t][r] = text, !.index = Indexed(t, r, text)] \/ db' = db
      BY <3>1 DEF Put, Write
    <3>3. QED
      BY <3>2, <1>a DEF Database
  <2>7. QED
    BY <2>1, <2>2, <2>3, <2>4, <2>5, <2>6 DEF Acts
<1>6. View(q).fts \subseteq View(q)'.fts
  BY <1>3, <1>4, <1>5 DEF View
<1>7. QED
  BY <1>1, <1>2, <1>3, <1>4, <1>5, <1>6

\* What a process has not filled yet stays so while others move.
LEMMA OthersStayUnfilled ==
    ASSUME TypeOK, DraftExtends, NEW p \in Processes, NEW q \in Processes, q # p, Acts(p)
    PROVE  Unfilled(q) \subseteq Unfilled(q)'
BY Bystander DEF Unfilled

\* Whoever has just moved is not behind: it has looked, or created an empty index.
LEMMA ActorIsAhead ==
    ASSUME TypeOK, Sound(db, written), Sound(draft, written), NEW p \in Processes, Acts(p)
    PROVE  ~Behind(p)'
<1>a. /\ pc \in [Processes -> PC] /\ at \in [Processes -> Tables]
      /\ db \in Database /\ draft \in Database
  BY DEF TypeOK
<1>1. CASE Start(p) \/ AddColumn(p) \/ Rebuild(p) \/ Commit(p) \/ CreateTriggers(p) \/ Ends(p)
  BY <1>1, <1>a DEF Start, AddColumn, Rebuild, NextTable, Commit, CreateTriggers, Ends, Go, Behind
<1>2. CASE FindColumn(p)
  <2>1. View(p)' = View(p)
    BY <1>2 DEF FindColumn, View
  <2>2. QED
    BY <1>2, <2>1, <1>a DEF FindColumn, Go, Behind
<1>3. CASE FindIndex(p)
  <2>1. View(p)' = View(p)
    BY <1>3 DEF FindIndex, View
  <2>2. QED
    BY <1>3, <2>1, <1>a DEF FindIndex, NextTable, Go, Behind
<1>4. CASE CreateIndex(p)
  <2>1. View(p)' = [View(p) EXCEPT !.fts = @ \cup {at[p]}]
    BY <1>4 DEF CreateIndex, Write, View
  <2>2. View(p)'.index = View(p).index
    BY <1>a, <2>1 DEF Database, View
  <2>3. Nothing(View(p).index[at[p]])
    BY <1>4, <1>a DEF CreateIndex, View, Sound
  <2>4. pc'[p] = "rebuild" /\ at'[p] = at[p]
    BY <1>4, <1>a DEF CreateIndex, Go
  <2>5. QED
    BY <2>2, <2>3, <2>4 DEF Behind, Clash, Nothing
<1>5. CASE \E t \in Tables, r \in Rows, text \in {"v1", "v2"} : Put(p, t, r, text)
  BY <1>5, <1>a DEF Put, Behind
<1>6. QED
  BY <1>1, <1>2, <1>3, <1>4, <1>5 DEF Acts

-----------------------------------------------------------------------------
(* The tables: index entries match their rows, whoever writes.              *)

\* One column more.
LEMMA SoundColumn ==
    ASSUME NEW d \in Database, NEW rows, Sound(d, rows)
    PROVE  Sound([d EXCEPT !.column = TRUE], rows)
BY DEF Database, Sound

\* The index or the triggers of one table more, or an index that is filled.
LEMMA SoundTable ==
    ASSUME NEW d \in Database, NEW rows, Sound(d, rows), NEW t \in Tables
    PROVE  /\ Sound([d EXCEPT !.fts = @ \cup {t}], rows)
           /\ t \in d.fts => Sound([d EXCEPT !.triggers = @ \cup {t}], rows)
           /\ t \in d.fts => Sound([d EXCEPT !.index = [d.index EXCEPT ![t] = d.row[t]]], rows)
<1>1. Sound([d EXCEPT !.fts = @ \cup {t}], rows)
  BY DEF Database, Sound
<1>2. ASSUME t \in d.fts PROVE Sound([d EXCEPT !.triggers = @ \cup {t}], rows)
  BY <1>2 DEF Database, Sound
<1>3. ASSUME t \in d.fts PROVE Sound([d EXCEPT !.index = [d.index EXCEPT ![t] = d.row[t]]], rows)
  <2> DEFINE e == [d EXCEPT !.index = [d.index EXCEPT ![t] = d.row[t]]]
  <2>1. /\ e.fts = d.fts /\ e.triggers = d.triggers /\ e.row = d.row
        /\ \A u \in Tables : e.index[u] = IF u = t THEN d.row[u] ELSE d.index[u]
    BY DEF Database, Content
  <2> HIDE DEF e
  <2>2. QED
    BY <1>3, <2>1 DEF Sound, Nothing, e
<1>4. QED
  BY <1>1, <1>2, <1>3

\* A row that a serving process writes gets its entry from the trigger.
LEMMA SoundRow ==
    ASSUME NEW d \in Database, NEW rows, Sound(d, rows), Tables \subseteq d.triggers,
           NEW t \in Tables, NEW r \in Rows, NEW text \in {"v1", "v2"}
    PROVE  Sound([d EXCEPT !.row[t][r] = text, !.index = [d.index EXCEPT ![t][r] = text]],
                 rows \cup {<<t, r>>})
<1> DEFINE e == [d EXCEPT !.row[t][r] = text, !.index = [d.index EXCEPT ![t][r] = text]]
<1>1. /\ e.fts = d.fts /\ e.triggers = d.triggers
      /\ \A u \in Tables, q \in Rows :
             /\ e.row[u][q] = IF u = t /\ q = r THEN text ELSE d.row[u][q]
             /\ e.index[u][q] = IF u = t /\ q = r THEN text ELSE d.index[u][q]
  BY DEF Database, Content
<1>2. Tables \subseteq d.fts /\ text # "none"
  BY DEF Sound
<1> HIDE DEF e
<1>3. \A u \in Tables, q \in Rows : e.index[u][q] \in {"none", e.row[u][q]}
  BY <1>1 DEF Sound
<1>4. \A u \in Tables, q \in Rows :
          <<u, q>> \in rows \cup {<<t, r>>} => e.row[u][q] # "none" /\ e.index[u][q] # "none"
  BY <1>1, <1>2 DEF Sound
<1>5. QED
  BY <1>1, <1>2, <1>3, <1>4 DEF Sound, e

\* The committed tables and those of the transaction stay sound; one case per action.
LEMMA SoundStep ==
    ASSUME TypeOK, Sound(db, written), Sound(draft, written), NEW p \in Processes, Passed(p), Acts(p)
    PROVE  Sound(db', written') /\ Sound(draft', written')
<1>a. at[p] \in Tables /\ db \in Database /\ draft \in Database /\ View(p) \in Database
  BY Views DEF TypeOK
<1>b. Sound(View(p), written)
  BY DEF View
<1>1. ASSUME NEW d, Write(p, d), Sound(d, written), written' = written
      PROVE  Sound(db', written') /\ Sound(draft', written')
  BY <1>1 DEF Write
<1>2. CASE Start(p) \/ FindColumn(p) \/ FindIndex(p)
  BY <1>2 DEF Start, FindColumn, FindIndex
<1>3. CASE AddColumn(p)
  BY <1>3, <1>a, <1>b, <1>1, SoundColumn DEF AddColumn
<1>4. CASE CreateIndex(p)
  BY <1>4, <1>a, <1>b, <1>1, SoundTable DEF CreateIndex
<1>5. CASE Rebuild(p)
  <2>1. at[p] \in View(p).fts
    BY <1>5 DEF Rebuild, Passed
  <2>2. QED
    BY <1>5, <1>a, <1>b, <2>1, SoundTable DEF Rebuild, Rebuilt
<1>6. CASE Commit(p)
  BY <1>6 DEF Commit, View
<1>7. CASE CreateTriggers(p)
  <2>1. at[p] \in db.fts
    BY <1>7, <1>a DEF CreateTriggers, Passed
  <2>2. QED
    BY <1>7, <1>a, <2>1, <1>1, SoundTable DEF CreateTriggers
<1>8. CASE Ends(p)
  BY <1>8 DEF Ends, RollBack
<1>9. CASE \E t \in Tables, r \in Rows, text \in {"v1", "v2"} : Put(p, t, r, text)
  <2>1. PICK t \in Tables, r \in Rows, text \in {"v1", "v2"} : Put(p, t, r, text)
    BY <1>9
  <2>2. Tables \subseteq db.triggers
    BY <2>1 DEF Put, Passed
  <2>3. Indexed(t, r, text) = [db.index EXCEPT ![t][r] = text]
    BY <2>2 DEF Indexed
  <2>4. Sound([db EXCEPT !.row[t][r] = text, !.index = Indexed(t, r, text)], written')
    BY <2>1, <2>2, <2>3, <1>a, SoundRow DEF Put
  <2>5. writer = Nobody /\ writer # p
    BY <2>1 DEF Put
  <2>6. QED
    BY <2>1, <2>4, <2>5 DEF Put, Write
<1>10. QED
  BY <1>2, <1>3, <1>4, <1>5, <1>6, <1>7, <1>8, <1>9 DEF Acts

-----------------------------------------------------------------------------
(* The processes.                                                          *)

\* What a process has found or created stays there; one case per action of its own.
LEMMA PassedStep ==
    ASSUME TypeOK, DraftExtends, NEW p \in Processes, Acts(p), \A q \in Processes : Passed(q)
    PROVE  \A q \in Processes : Passed(q)'
<1>a. /\ pc \in [Processes -> PC] /\ at \in [Processes -> Tables]
      /\ db \in Database /\ draft \in Database /\ View(p) \in Database
  BY Views DEF TypeOK
<1>b. Tables = {"runs", "messages"} /\ FirstTable = "runs" /\ Passed(p)
  BY DEF Tables, FirstTable
<1>c. writer = p => pc[p] \in {"check", "create", "rebuild", "commit"}
  BY DEF TypeOK
<1>1. ASSUME NEW q \in Processes, q # p PROVE Passed(q)'
  <2>1. /\ pc'[q] = pc[q] /\ at'[q] = at[q] /\ View(q).fts \subseteq View(q)'.fts
        /\ db.fts \subseteq db'.fts /\ db.triggers \subseteq db'.triggers
    BY <1>1, Bystander
  <2>2. QED
    BY <2>1 DEF Passed
<1>2. ASSUME Start(p) \/ Ends(p) PROVE Passed(p)'
  BY <1>2, <1>a DEF Start, Ends, Go, Passed
<1>3. ASSUME FindColumn(p) PROVE Passed(p)'
  BY <1>3, <1>a, <1>b DEF FindColumn, Go, Passed
<1>4. ASSUME AddColumn(p) PROVE Passed(p)'
  BY <1>4, <1>a, <1>b DEF AddColumn, Go, Passed
<1>5. ASSUME FindIndex(p) PROVE Passed(p)'
  <2>1. View(p)' = View(p)
    BY <1>5 DEF FindIndex, View
  <2>2. CASE at[p] \notin View(p).fts
    BY <1>5, <2>1, <2>2, <1>a, <1>b DEF FindIndex, Go, Passed
  <2>3. CASE at[p] \in View(p).fts
    BY <1>5, <2>1, <2>3, <1>a, <1>b DEF FindIndex, NextTable, Following, Go, Passed
  <2>4. QED
    BY <2>2, <2>3
<1>6. ASSUME CreateIndex(p) PROVE Passed(p)'
  <2>1. View(p)' = [View(p) EXCEPT !.fts = @ \cup {at[p]}]
    BY <1>6 DEF CreateIndex, Write, View
  <2>2. View(p)'.fts = View(p).fts \cup {at[p]}
    BY <1>a, <2>1 DEF Database
  <2>3. QED
    BY <1>6, <2>2, <1>a, <1>b DEF CreateIndex, Go, Passed
<1>7. ASSUME Rebuild(p) PROVE Passed(p)'
  <2>1. View(p)'.fts = View(p).fts
    BY <1>7, <1>a DEF Rebuild, View, Database
  <2>2. QED
    BY <1>7, <2>1, <1>a, <1>b DEF Rebuild, NextTable, Following, Go, Passed
<1>8. ASSUME Commit(p) PROVE Passed(p)'
  BY <1>8, <1>a, <1>b DEF Commit, Go, Passed
<1>9. ASSUME CreateTriggers(p) PROVE Passed(p)'
  <2>1. db'.fts = db.fts /\ db'.triggers = db.triggers \cup {at[p]}
    BY <1>9, <1>a, <1>c DEF CreateTriggers, Write, Database
  <2>2. QED
    BY <1>9, <2>1, <1>a, <1>b DEF CreateTriggers, Following, Go, Passed
<1>10. ASSUME \E t \in Tables, r \in Rows, text \in {"v1", "v2"} : Put(p, t, r, text) PROVE Passed(p)'
  <2>1. PICK t \in Tables, r \in Rows, text \in {"v1", "v2"} : Put(p, t, r, text)
    BY <1>10
  <2>2. db' = [db EXCEPT !.row[t][r] = text, !.index = Indexed(t, r, text)] \/ db' = db
    BY <2>1 DEF Put, Write
  <2>3. db'.triggers = db.triggers
    BY <2>2, <1>a DEF Database
  <2>4. QED
    BY <2>1, <2>3, <1>b DEF Put, Passed
<1>11. Passed(p)'
  BY <1>2, <1>3, <1>4, <1>5, <1>6, <1>7, <1>8, <1>9, <1>10 DEF Acts
<1>12. QED
  BY <1>1, <1>11

\* A transaction only adds to what is committed; one case per action.
LEMMA DraftStep ==
    ASSUME TypeOK, DraftExtends, NEW p \in Processes, Acts(p)
    PROVE  DraftExtends'
<1>a. /\ db \in Database /\ draft \in Database /\ View(p) \in Database
      /\ MayWrite(p) => View(p) = draft
      /\ writer = p => pc[p] \in {"check", "create", "rebuild", "commit"}
  BY Views DEF TypeOK
<1>1. ASSUME NEW d, Write(p, d), writer # p PROVE DraftExtends'
  BY <1>1 DEF Write, DraftExtends
<1>2. CASE Start(p) \/ FindColumn(p) \/ FindIndex(p)
  BY <1>2 DEF Start, FindColumn, FindIndex, DraftExtends
<1>3. CASE AddColumn(p)
  BY <1>3, <1>a, <1>1 DEF AddColumn
<1>4. CASE CreateIndex(p)
  <2>1. CASE writer = p
    <3>1. db' = db /\ draft' = [draft EXCEPT !.fts = @ \cup {at[p]}]
      BY <1>4, <2>1 DEF CreateIndex, Write, View
    <3>2. QED
      BY <3>1, <1>a DEF DraftExtends, Database
  <2>2. CASE writer # p
    BY <1>4, <1>1, <2>2 DEF CreateIndex
  <2>3. QED
    BY <2>1, <2>2
<1>5. CASE Rebuild(p)
  <2>1. db' = db /\ draft' = [draft EXCEPT !.index = Rebuilt(draft, at[p])]
    BY <1>5, <1>a DEF Rebuild
  <2>2. QED
    BY <2>1, <1>a DEF DraftExtends, Database
<1>6. CASE Commit(p)
  BY <1>6 DEF Commit, View, DraftExtends
<1>7. CASE CreateTriggers(p)
  BY <1>7, <1>a, <1>1 DEF CreateTriggers, DraftExtends
<1>8. CASE Ends(p)
  BY <1>8 DEF Ends, RollBack, DraftExtends
<1>9. CASE \E t \in Tables, r \in Rows, text \in {"v1", "v2"} : Put(p, t, r, text)
  BY <1>9, <1>1 DEF Put
<1>10. QED
  BY <1>2, <1>3, <1>4, <1>5, <1>6, <1>7, <1>8, <1>9 DEF Acts

\* What a process is about to do is not spoilt while it holds the lock, nor by the end
\* of another one.
LEMMA NobodyInterferes ==
    ASSUME TypeOK, DraftExtends, NEW p \in Processes, NEW q \in Processes, q # p, Acts(p),
           writer = q \/ Ends(p), ~Behind(q)
    PROVE  ~Behind(q)'
<1>1. /\ pc'[q] = pc[q] /\ at'[q] = at[q]
      /\ writer = q => writer' = q /\ draft' = draft /\ db' = db
      /\ writer # q => writer' # q
  BY Bystander
<1>2. View(q)' = View(q)
  BY <1>1 DEF View, Ends, RollBack
<1>3. QED
  BY <1>1, <1>2 DEF Behind, Clash

\* The process with the lock stays ahead.
LEMMA WriterStep ==
    ASSUME TypeOK, Sound(db, written), Sound(draft, written), DraftExtends, WriterIsAhead,
           NEW p \in Processes, Acts(p), TypeOK'
    PROVE  WriterIsAhead'
<1>1. SUFFICES ASSUME writer' # Nobody PROVE ~Behind(writer)'
  BY DEF WriterIsAhead
<1>2. PICK q \in Processes : q = writer'
  BY <1>1 DEF TypeOK
<1>3. CASE q = p
  <2>1. ~Behind(q)'
    BY <1>3, ActorIsAhead
  <2>2. QED
    BY <1>2, <2>1 DEF Behind, Clash, View
<1>4. CASE q # p
  <2>1. writer = q
    BY <1>2, <1>4, Bystander
  <2>2. ~Behind(q)
    BY <2>1 DEF WriterIsAhead
  <2>3. ~Behind(q)'
    BY <1>4, <2>1, <2>2, NobodyInterferes
  <2>4. QED
    BY <1>2, <2>3 DEF Behind, Clash, View
<1>5. QED
  BY <1>3, <1>4

\* A process that initialises alone stays ahead: only serving processes move beside it,
\* and they need triggers that do not exist while it fills an index.
LEMMA AloneStep ==
    ASSUME TypeOK, Sound(db, written), Sound(draft, written), DraftExtends, AloneIsAhead,
           NEW p \in Processes, Passed(p), Acts(p)
    PROVE  AloneIsAhead'
<1>a. /\ pc \in [Processes -> PC] /\ at \in [Processes -> Tables] /\ alone \in [Processes -> BOOLEAN]
      /\ db \in Database /\ draft \in Database /\ View(p) \in Database
      /\ writer # Nobody => pc[writer] \in Initialising
  BY Views DEF TypeOK, Initialising
<1>b. \A q \in Processes : q # p => pc'[q] = pc[q] /\ at'[q] = at[q] /\ (alone'[q] => alone[q])
  BY Bystander
<1>1. SUFFICES ASSUME NEW q \in Processes, alone'[q], pc'[q] \in Initialising
               PROVE  /\ \A o \in Processes \ {q} : pc'[o] \notin Initialising
                      /\ ~Behind(q)'
                      /\ pc'[q] = "rebuild" =>
                             Nothing(View(q)'.index[at'[q]]) /\ at'[q] \notin View(q)'.triggers
  BY DEF AloneIsAhead
<1>2. CASE q = p
  <2>1. \A o \in Processes \ {p} : pc'[o] \notin Initialising
    <3>1. CASE Start(p)
      <4>1. {o \in Processes : pc[o] \in Initialising} = {}
        BY <1>1, <1>2, <1>a, <3>1 DEF Start
      <4>2. QED
        BY <4>1, <1>b
    <3>2. CASE ~Start(p)
      <4>1. alone[p] /\ pc[p] \in Initialising
        BY <1>1, <1>2, <1>a, <3>2
           DEF Acts, FindColumn, AddColumn, FindIndex, CreateIndex, Rebuild, Commit, CreateTriggers,
               Ends, Put, Go, Initialising
      <4>2. QED
        BY <4>1, <1>b DEF AloneIsAhead
    <3>3. QED
      BY <3>1, <3>2
  <2>2. ~Behind(p)'
    BY ActorIsAhead
  <2>3. ASSUME pc'[p] = "rebuild"
        PROVE  Nothing(View(p)'.index[at'[p]]) /\ at'[p] \notin View(p)'.triggers
    <3>1. CreateIndex(p)
      BY <2>3, <1>a DEF Acts, Start, FindColumn, AddColumn, FindIndex, CreateIndex, Rebuild, Commit,
                        CreateTriggers, Ends, Put, NextTable, Go
    <3>2. View(p)' = [View(p) EXCEPT !.fts = @ \cup {at[p]}] /\ at' = at /\ at[p] \notin View(p).fts
      BY <3>1 DEF CreateIndex, Write, View
    <3>3. View(p)'.index = View(p).index /\ View(p)'.triggers = View(p).triggers
      BY <1>a, <3>2 DEF Database
    <3>4. Sound(View(p), written)
      BY DEF View
    <3>5. Nothing(View(p).index[at[p]]) /\ at[p] \notin View(p).triggers
      BY <1>a, <3>2, <3>4 DEF Sound
    <3>6. QED
      BY <3>2, <3>3, <3>5
  <2>4. QED
    BY <1>2, <2>1, <2>2, <2>3
<1>3. CASE q # p
  <2>1. alone[q] /\ pc[q] \in Initialising /\ pc'[q] = pc[q] /\ at'[q] = at[q]
    BY <1>1, <1>3, <1>b
  <2>2. /\ \A o \in Processes \ {q} : pc[o] \notin Initialising
        /\ ~Behind(q)
        /\ pc[q] = "rebuild" => Nothing(View(q).index[at[q]]) /\ at[q] \notin View(q).triggers
    BY <2>1 DEF AloneIsAhead
  <2>3. ~Start(p)
    BY <1>1, <1>3, <1>a, <2>1 DEF Start
  <2>4. pc[p] \notin Initialising /\ writer # p
    BY <1>3, <1>a, <2>2
  <2>5. CASE Ends(p)
    <3>1. writer' = writer /\ draft' = draft /\ db' = db /\ pc'[p] \in {"down", "failed"}
      BY <2>4, <2>5, <1>a DEF Ends, RollBack, Go
    <3>2. View(q)' = View(q)
      BY <3>1 DEF View
    <3>3. \A o \in Processes \ {q} : pc'[o] \notin Initialising
      BY <3>1, <2>2, <1>b DEF Initialising
    <3>4. ~Behind(q)'
      BY <1>3, <2>2, <2>5, NobodyInterferes
    <3>5. QED
      BY <2>1, <2>2, <3>2, <3>3, <3>4
  <2>6. CASE \E t \in Tables, r \in Rows, text \in {"v1", "v2"} : Put(p, t, r, text)
    <3>1. PICK t \in Tables, r \in Rows, text \in {"v1", "v2"} : Put(p, t, r, text)
      BY <2>6
    <3>2. /\ writer = Nobody /\ writer' = Nobody /\ pc' = pc /\ pc[p] = "serving"
          /\ db' = [db EXCEPT !.row[t][r] = text, !.index = Indexed(t, r, text)]
      BY <3>1 DEF Put, Write
    <3>3. db'.fts = db.fts /\ db'.column = db.column
      BY <3>2, <1>a DEF Database
    <3>4. View(q) = db /\ View(q)' = db' /\ at[q] \in Tables
      BY <3>2, <1>a DEF View
    <3>5. Tables \subseteq db.triggers
      BY <3>2 DEF Passed
    <3>6. pc[q] # "rebuild"
      BY <2>2, <3>4, <3>5
    <3>7. ~Behind(q)'
      BY <2>1, <2>2, <3>3, <3>4, <3>6 DEF Behind
    <3>8. QED
      BY <2>1, <2>2, <3>2, <3>6, <3>7
  <2>7. Ends(p) \/ \E t \in Tables, r \in Rows, text \in {"v1", "v2"} : Put(p, t, r, text)
    BY <2>3, <2>4 DEF Acts, FindColumn, AddColumn, FindIndex, CreateIndex, Rebuild, Commit,
                      CreateTriggers, Initialising
  <2>8. QED
    BY <2>5, <2>6, <2>7
<1>4. QED
  BY <1>2, <1>3

\* So it does not fail.
LEMMA SoleStep ==
    ASSUME TypeOK, DraftExtends, AloneIsAhead, SoleStarterSucceeds, NEW p \in Processes, Acts(p)
    PROVE  SoleStarterSucceeds'
<1>a. /\ pc \in [Processes -> PC] /\ writer \in Processes \cup {Nobody}
      /\ writer # Nobody => pc[writer] \in Initialising
  BY DEF TypeOK, Initialising
<1>1. SUFFICES ASSUME NEW q \in Processes, pc'[q] = "failed" PROVE ~alone'[q]
  BY DEF SoleStarterSucceeds
<1>2. CASE q # p
  BY <1>1, <1>2, Bystander DEF SoleStarterSucceeds
<1>3. CASE q = p
  <2>1. Ends(p) /\ Go(p, "failed")
    BY <1>1, <1>3, <1>a
       DEF Acts, Start, FindColumn, AddColumn, FindIndex, CreateIndex, Rebuild, Commit, CreateTriggers,
           Ends, Put, NextTable, Go
  <2>2. pc[p] \in Initialising /\ (Behind(p) \/ ~MayWrite(p)) /\ alone' = alone
    BY <1>a, <2>1 DEF Ends, Go
  <2>3. ~MayWrite(p) => writer \in Processes \ {p} /\ pc[writer] \in Initialising
    BY <1>a DEF MayWrite
  <2>4. ~alone[p]
    BY <2>2, <2>3 DEF AloneIsAhead
  <2>5. QED
    BY <1>3, <2>2, <2>4
<1>4. QED
  BY <1>2, <1>3

\* Whoever fails was behind or found the lock held: the one ahead of it is another one.
LEMMA SomebodyStep ==
    ASSUME TypeOK, Sound(db, written), Sound(draft, written), DraftExtends, WriterIsAhead,
           SomebodyIsAhead, NEW p \in Processes, Acts(p)
    PROVE  SomebodyIsAhead'
<1>a. /\ pc \in [Processes -> PC] /\ writer \in Processes \cup {Nobody}
      /\ writer # Nobody => pc[writer] # "failed"
  BY DEF TypeOK
<1>1. CASE pc'[p] # "failed"
  BY <1>1, ActorIsAhead DEF SomebodyIsAhead
<1>2. CASE pc'[p] = "failed"
  <2>1. Ends(p) /\ (Behind(p) \/ ~MayWrite(p))
    BY <1>2, <1>a
       DEF Acts, Start, FindColumn, AddColumn, FindIndex, CreateIndex, Rebuild, Commit, CreateTriggers,
           Ends, Put, NextTable, Go
  <2>2. PICK q \in Processes : q # p /\ pc[q] # "failed" /\ ~Behind(q)
    <3>1. CASE Behind(p)
      BY <3>1 DEF SomebodyIsAhead
    <3>2. CASE ~MayWrite(p)
      BY <3>2, <1>a DEF MayWrite, WriterIsAhead
    <3>3. QED
      BY <2>1, <3>1, <3>2
  <2>3. pc'[q] # "failed" /\ ~Behind(q)'
    BY <2>1, <2>2, Bystander, NobodyInterferes
  <2>4. QED
    BY <2>3 DEF SomebodyIsAhead
<1>3. QED
  BY <1>1, <1>2

-----------------------------------------------------------------------------
(* An index that lacks entries is being filled, or has been cut off.        *)

\* A statement that does not touch an index leaves it as complete as it was.
LEMMA SameIndex ==
    ASSUME NEW d, NEW e, NEW t, t \in e.fts => t \in d.fts, e.row = d.row, e.index = d.index, Complete(d, t)
    PROVE  Complete(e, t)
BY DEF Complete

\* Completeness is kept, or somebody is at work on it; one case per action.
LEMMA FilledStep ==
    ASSUME TypeOK, Sound(db, written), DraftExtends, FilledOrCut, NEW p \in Processes, Passed(p), Acts(p)
    PROVE  FilledOrCut'
<1>a. /\ pc \in [Processes -> PC] /\ at \in [Processes -> Tables]
      /\ db \in Database /\ draft \in Database /\ View(p) \in Database
      /\ MayWrite(p) => View(p) = draft
      /\ writer # p => View(p) = db
      /\ writer = p => pc[p] \in {"check", "create", "rebuild", "commit"}
  BY Views DEF TypeOK
<1>b. MayWrite(p) /\ writer # p => draft = db /\ writer = Nobody
  BY DEF MayWrite, TypeOK
<1>c. \A q \in Processes : q # p => pc'[q] = pc[q] /\ at'[q] = at[q] /\ Unfilled(q) \subseteq Unfilled(q)'
  BY Bystander, OthersStayUnfilled
<1>d. cut \subseteq cut'
  BY DEF Acts, Start, FindColumn, AddColumn, FindIndex, CreateIndex, Rebuild, Commit, CreateTriggers, Ends, Put
<1> SUFFICES ASSUME NEW t \in Tables, t \notin cut'
             PROVE  /\ Complete(draft', t) \/ \E q \in Processes : pc'[q] = "rebuild" /\ at'[q] = t
                    /\ Complete(db', t) \/ \E q \in Processes : t \in Unfilled(q)'
  BY DEF FilledOrCut, Complete
<1>1. /\ Complete(draft, t) \/ \E q \in Processes : pc[q] = "rebuild" /\ at[q] = t
      /\ Complete(db, t) \/ \E q \in Processes : t \in Unfilled(q)
  BY <1>d DEF FilledOrCut
  \* The step is p's own, so only what p itself was filling may change hands.
<1>2. ASSUME Complete(draft, t) => Complete(draft', t), Complete(db, t) => Complete(db', t),
             pc[p] # "rebuild", t \in Unfilled(p) => t \in Unfilled(p)' \/ Complete(db', t)
      PROVE  /\ Complete(draft', t) \/ \E q \in Processes : pc'[q] = "rebuild" /\ at'[q] = t
             /\ Complete(db', t) \/ \E q \in Processes : t \in Unfilled(q)'
  BY <1>1, <1>2, <1>c
<1>3. CASE Start(p) \/ FindColumn(p) \/ FindIndex(p)
  <2>1. pc[p] # "rebuild" /\ db' = db /\ draft' = draft /\ writer' = writer
    BY <1>3 DEF Start, FindColumn, FindIndex
  <2>2. Unfilled(p) \subseteq Unfilled(p)'
    BY <2>1 DEF Unfilled
  <2>3. QED
    BY <1>2, <2>1, <2>2
<1>4. CASE AddColumn(p)
  <2>1. pc[p] = "alter" /\ writer = Nobody /\ draft = db /\ View(p) = db
    BY <1>4, <1>a, <1>b DEF AddColumn, Write
  <2>2. draft' = [db EXCEPT !.column = TRUE] /\ db' = draft'
    BY <1>4, <1>a, <2>1 DEF AddColumn, Write
  <2>3. db'.fts = db.fts /\ db'.row = db.row /\ db'.index = db.index
    BY <2>2, <1>a DEF Database
  <2>4. t \notin Unfilled(p)
    BY <1>a, <2>1 DEF Unfilled
  <2>5. QED
    BY <1>2, <2>1, <2>2, <2>3, <2>4, SameIndex
<1>5. CASE CreateIndex(p)
  <2>1. /\ MayWrite(p) /\ pc[p] = "create" /\ pc'[p] = "rebuild" /\ at'[p] = at[p] /\ writer' = writer
        /\ draft' = [draft EXCEPT !.fts = @ \cup {at[p]}]
        /\ db' = IF writer = p THEN db ELSE draft'
    BY <1>5, <1>a DEF CreateIndex, Write, Go
  <2>2. CASE t = at[p]
    <3>1. t \in Unfilled(p)'
      BY <2>1, <2>2 DEF Unfilled
    <3>2. QED
      BY <2>1, <2>2, <3>1
  <2>3. CASE t # at[p]
    <3>1. draft'.fts = draft.fts \cup {at[p]} /\ draft'.row = draft.row /\ draft'.index = draft.index
      BY <2>1, <1>a DEF Database
    <3>2. Complete(draft, t) => Complete(draft', t)
      BY <2>3, <3>1, SameIndex
    <3>3. Complete(db, t) => Complete(db', t)
      BY <2>1, <3>2, <1>b
    <3>4. t \in Unfilled(p) => t \in Unfilled(p)'
      BY <2>1, <3>1 DEF Unfilled
    <3>5. QED
      BY <1>2, <2>1, <3>2, <3>3, <3>4
  <2>4. QED
    BY <2>2, <2>3
<1>6. CASE Rebuild(p)
  <2>1. /\ pc[p] = "rebuild" /\ writer' = p /\ db' = db /\ writer \in {Nobody, p}
        /\ draft' = [draft EXCEPT !.index = [draft.index EXCEPT ![at[p]] = draft.row[at[p]]]]
    BY <1>6, <1>a DEF Rebuild, Rebuilt, MayWrite
  <2>2. /\ draft'.fts = draft.fts /\ draft'.row = draft.row
        /\ draft'.index[t] = IF t = at[p] THEN draft.row[t] ELSE draft.index[t]
    BY <2>1, <1>a DEF Database, Content
  <2>3. CASE t = at[p]
    <3>1. Complete(draft', t)
      BY <2>2, <2>3 DEF Complete
    <3>2. ASSUME ~Complete(db, t) PROVE db.index[t] # draft'.index[t]
      BY <2>2, <2>3, <3>2 DEF Complete, DraftExtends
    <3>3. QED
      BY <2>1, <3>1, <3>2 DEF Unfilled
  <2>4. CASE t # at[p]
    <3>1. Complete(draft, t) => Complete(draft', t)
      BY <2>2, <2>4 DEF Complete
    <3>2. t \in Unfilled(p) => t \in Unfilled(p)'
      BY <2>1, <2>2, <2>4 DEF Unfilled
    <3>3. QED
      BY <1>1, <1>c, <2>1, <2>4, <3>1, <3>2
  <2>5. QED
    BY <2>3, <2>4
<1>7. CASE Commit(p)
  <2>1. pc[p] = "commit" /\ db' = View(p) /\ draft' = draft
    BY <1>7 DEF Commit, View
  <2>2. CASE writer = p
    <3>1. db' = draft
      BY <2>1, <2>2 DEF View
    <3>2. \A q \in Processes : pc'[q] = "rebuild" /\ at'[q] = t => t \in Unfilled(q)'
      BY DEF Unfilled
    <3>3. QED
      BY <1>1, <1>c, <2>1, <3>1, <3>2
  <2>3. CASE writer # p
    <3>1. t \notin Unfilled(p)
      BY <2>1, <2>3 DEF Unfilled
    <3>2. QED
      BY <1>2, <1>a, <2>1, <2>3, <3>1
  <2>4. QED
    BY <2>2, <2>3
<1>8. CASE CreateTriggers(p)
  <2>1. pc[p] = "triggers" /\ writer # p
    BY <1>8, <1>a DEF CreateTriggers
  <2>2. t \notin Unfilled(p)
    BY <2>1 DEF Unfilled
  <2>3. CASE db' = db /\ draft' = draft
    BY <1>2, <2>1, <2>2, <2>3
  <2>4. CASE Write(p, [db EXCEPT !.triggers = @ \cup {at[p]}])
    <3>1. draft = db /\ db' = [db EXCEPT !.triggers = @ \cup {at[p]}] /\ draft' = db'
      BY <2>1, <2>4, <1>b DEF Write
    <3>2. db'.fts = db.fts /\ db'.row = db.row /\ db'.index = db.index
      BY <3>1, <1>a DEF Database
    <3>3. QED
      BY <1>2, <2>1, <2>2, <3>1, <3>2, SameIndex
  <2>5. QED
    BY <1>8, <2>3, <2>4 DEF CreateTriggers
<1>9. CASE Ends(p)
  <2>1. db' = db /\ draft' = (IF writer = p THEN db ELSE draft)
    BY <1>9 DEF Ends, RollBack
  <2>2. t \in Unfilled(p) => t \notin db.fts
    BY <1>9 DEF Ends
  <2>3. t \in Unfilled(p) => Complete(db, t)
    BY <2>2 DEF Complete
  <2>4. Complete(db', t) \/ \E q \in Processes : t \in Unfilled(q)'
    BY <1>1, <1>c, <2>1, <2>3
  <2>5. CASE writer = p
    <3>1. \A q \in Processes : q # p /\ t \in Unfilled(q) => pc[q] = "rebuild" /\ at[q] = t
      BY <2>5 DEF Unfilled
    <3>2. QED
      BY <1>1, <1>c, <2>1, <2>3, <2>4, <2>5, <3>1
  <2>6. CASE writer # p
    <3>1. ~(pc[p] = "rebuild" /\ at[p] = t)
      BY <1>a, <2>2, <2>6 DEF Unfilled, Passed
    <3>2. QED
      BY <1>1, <1>c, <2>1, <2>4, <2>6, <3>1
  <2>7. QED
    BY <2>5, <2>6
<1>10. CASE \E u \in Tables, r \in Rows, text \in {"v1", "v2"} : Put(p, u, r, text)
  <2>1. PICK u \in Tables, r \in Rows, text \in {"v1", "v2"} : Put(p, u, r, text)
    BY <1>10
  <2>2. /\ pc[p] = "serving" /\ writer = Nobody /\ draft = db
        /\ db' = [db EXCEPT !.row[u][r] = text, !.index = Indexed(u, r, text)] /\ draft' = db'
    BY <2>1, <1>b DEF Put, Write, TypeOK
  <2>3. Indexed(u, r, text) = [db.index EXCEPT ![u][r] = text]
    BY <2>2 DEF Passed, Indexed
  <2>4. /\ db'.fts = db.fts
        /\ \A q \in Rows :
               /\ db'.row[t][q] = IF t = u /\ q = r THEN text ELSE db.row[t][q]
               /\ db'.index[t][q] = IF t = u /\ q = r THEN text ELSE db.index[t][q]
    BY <2>2, <2>3, <1>a DEF Database, Content
  <2>5. Complete(db, t) => Complete(db', t)
    BY <2>4 DEF Complete
  <2>6. t \notin Unfilled(p)
    BY <2>2, <1>a DEF Unfilled
  <2>7. QED
    BY <1>2, <2>2, <2>5, <2>6
<1>11. QED
  BY <1>3, <1>4, <1>5, <1>6, <1>7, <1>8, <1>9, <1>10 DEF Acts

-----------------------------------------------------------------------------
(* The theorems.                                                           *)

\* The first state satisfies every part of the invariant: all processes are down.
LEMMA SearchInvInit == Init => SearchInv
<1> SUFFICES ASSUME Init PROVE SearchInv
  OBVIOUS
<1>1. TypeOK
  BY TypeInit
<1>2. /\ writer = Nobody /\ cut = {} /\ written = {} /\ draft = db
      /\ db.fts = {} /\ db.triggers = {} /\ db.index = Empty
      /\ \A p \in Processes : pc[p] = "down" /\ ~alone[p]
  BY DEF Init
<1>3. \A t \in Tables, r \in Rows : db.index[t][r] = "none"
  BY <1>2 DEF Empty
<1>4. Sound(db, written)
  BY <1>2, <1>3 DEF Sound, Nothing
<1>5. \A p \in Processes : Passed(p) /\ ~Behind(p)
  BY <1>2 DEF Passed, Behind
<1>6. FilledOrCut
  BY <1>2 DEF FilledOrCut, Complete
<1>7. DraftExtends /\ WriterIsAhead /\ AloneIsAhead /\ SoleStarterSucceeds /\ SomebodyIsAhead
  BY <1>2, <1>5 DEF DraftExtends, WriterIsAhead, AloneIsAhead, SoleStarterSucceeds, SomebodyIsAhead
<1>8. QED
  BY <1>1, <1>2, <1>4, <1>5, <1>6, <1>7 DEF SearchInv

\* Every step of a process preserves it.
LEMMA SearchInvStep == SearchInv /\ [Next]_vars => SearchInv'
<1> SUFFICES ASSUME SearchInv, [Next]_vars PROVE SearchInv'
  OBVIOUS
<1>0. /\ TypeOK /\ Sound(db, written) /\ Sound(draft, written) /\ \A p \in Processes : Passed(p)
      /\ DraftExtends /\ WriterIsAhead /\ AloneIsAhead /\ SoleStarterSucceeds /\ FilledOrCut
      /\ SomebodyIsAhead
  BY DEF SearchInv
<1>1. TypeOK'
  BY <1>0, TypeStep
<1>2. CASE UNCHANGED vars
  <2>1. /\ db' = db /\ draft' = draft /\ writer' = writer /\ pc' = pc /\ at' = at
        /\ alone' = alone /\ cut' = cut /\ written' = written
    BY <1>2 DEF vars
  <2>2. \A p \in Processes : Passed(p)'
    BY <1>0, <2>1 DEF Passed, View
  <2>3. WriterIsAhead' /\ AloneIsAhead' /\ SomebodyIsAhead'
    BY <1>0, <2>1 DEF WriterIsAhead, AloneIsAhead, SomebodyIsAhead, Behind, Clash, View
  <2>4. DraftExtends' /\ SoleStarterSucceeds' /\ FilledOrCut'
    BY <1>0, <2>1 DEF DraftExtends, SoleStarterSucceeds, FilledOrCut, Complete, Unfilled
  <2>5. QED
    BY <1>0, <1>1, <2>1, <2>2, <2>3, <2>4 DEF SearchInv
<1>3. ASSUME NEW p \in Processes, Acts(p) PROVE SearchInv'
  <2>1. Passed(p)
    BY <1>0
  <2>2. Sound(db', written') /\ Sound(draft', written')
    BY <1>0, <1>3, <2>1, SoundStep
  <2>3. \A q \in Processes : Passed(q)'
    BY <1>0, <1>3, PassedStep
  <2>4. DraftExtends'
    BY <1>0, <1>3, DraftStep
  <2>5. WriterIsAhead'
    BY <1>0, <1>1, <1>3, WriterStep
  <2>6. AloneIsAhead'
    BY <1>0, <1>3, <2>1, AloneStep
  <2>7. SoleStarterSucceeds'
    BY <1>0, <1>3, SoleStep
  <2>8. FilledOrCut'
    BY <1>0, <1>3, <2>1, FilledStep
  <2>9. SomebodyIsAhead'
    BY <1>0, <1>3, SomebodyStep
  <2>10. QED
    BY <1>1, <2>2, <2>3, <2>4, <2>5, <2>6, <2>7, <2>8, <2>9 DEF SearchInv
<1>4. QED
  BY <1>2, <1>3, StepsOfProcesses

\* The inductive invariant of initialize_sqlite_database() and the search triggers.
THEOREM SearchInvariant == Spec => []SearchInv
<1> QED
  BY SearchInvInit, SearchInvStep, PTL DEF Spec

\* initialize_sqlite_database() can be repeated: a process that opens the database
\* without another one initialising beside it never raises, whatever crashes left behind.
THEOREM SoleStartersSucceed == Spec => []SoleStarterSucceeds
<1>1. SearchInv => SoleStarterSucceeds
  BY DEF SearchInv
<1> QED
  BY <1>1, SearchInvariant, PTL

\* What a serving process writes is found by search(), and no index entry differs from
\* its row, whoever rebuilds meanwhile.
THEOREM WritesAreFound == Spec => []WrittenRowsAreFound
<1>1. SearchInv => WrittenRowsAreFound
  BY DEF SearchInv, Sound, WrittenRowsAreFound, Found
<1> QED
  BY <1>1, SearchInvariant, PTL

\* search() misses a row only if some process ended between the CREATE of an index and
\* the commit of its rebuild, or is still on its way there.
THEOREM SearchesAreComplete == Spec => []SearchIsComplete
<1>1. SearchInv => SearchIsComplete
  <2>1. ASSUME NEW t \in Tables, Complete(db, t) PROVE Found(t) = {r \in Rows : db.row[t][r] # "none"}
    BY <2>1 DEF Complete, Found
  <2>2. QED
    BY <2>1 DEF SearchInv, FilledOrCut, SearchIsComplete
<1> QED
  BY <1>1, SearchInvariant, PTL

\* However many processes open the database together, they never all fail.
THEOREM SomebodyAlwaysComesThrough == Spec => []SomebodyComesThrough
<1>1. SearchInv => SomebodyComesThrough
  BY DEF SearchInv, SomebodyIsAhead, SomebodyComesThrough
<1> QED
  BY <1>1, SearchInvariant, PTL
=============================================================================
