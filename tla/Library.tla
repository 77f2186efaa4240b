------------------------------ MODULE Library ------------------------------
(***************************************************************************)
(* The query library over the local SQLite file: the migrations that every *)
(* start runs, the query history that each accepted statement joins, and   *)
(* the saved queries (persistence/repository.rs, productivity/service.rs). *)
(* Every call opens a connection of its own and commits each statement by  *)
(* itself, so that calls interleave between statements and a crash stops   *)
(* between any two.                                                        *)
(***************************************************************************)
EXTENDS Naturals, Sequences, FiniteSets

CONSTANTS Writers,    \* history entries being recorded
          Calls,      \* save_saved_query and delete_saved_query calls
          Queries,    \* ids that saved queries get
          Ids,        \* bound: ids that history entries get, any order
          Retained,   \* HISTORY_RETENTION_LIMIT
          LastSecond  \* bound: the clock stops here

ASSUME HistoryAssumption == Ids \subseteq Nat /\ Retained \in Nat

VARIABLES stage,      \* of the program: down, migrating, seeding, up, broken
          at,         \* apply_migrations: migration and statement it is at
          recorded,   \* table migration_state
          ran,        \* statements of each migration that have run
          clock,
          history,    \* table query_history
          since,      \* ids inserted since the last prune (history variable)
          writer,     \* record_history_entry: "idle" or "prune"
          saved,      \* table saved_queries: created_at, 0 for no row
          used,       \* ids that saved queries have had
          call        \* calls in progress

migration == <<stage, at, recorded, ran>>
log == <<history, since, writer>>
library == <<saved, used, call>>
vars == <<migration, clock, log, library>>

(* The scripts, statements of one kind in a row shortened: "any" may run   *)
(* again, "column" fails on a column that is there, "next" fails while     *)
(* query_result_rows_next is there, from its creation to its renaming by   *)
(* the script's last statement.                                            *)
Scripts == << <<"any">>,
              <<"column", "column", "column">>,
              <<"column", "any">>,
              <<"any">>,
              <<"next", "any", "any", "any">>,
              <<"any">>,
              <<"column", "column", "any">> >>
Versions == DOMAIN Scripts

MayRun(k, i) ==
    CASE Scripts[k][i] = "any"    -> TRUE
      [] Scripts[k][i] = "column" -> ran[k] < i
      [] Scripts[k][i] = "next"   -> ran[k] < i \/ ran[k] = Len(Scripts[k])

NoCall == [at |-> "idle", op |-> "none", q |-> 0, created |-> 0]

LibInit ==
    /\ stage = "down" /\ at = <<1, 0>> /\ recorded = {} /\ ran = [k \in Versions |-> 0]
    /\ clock = 1
    /\ history = {} /\ since = {} /\ writer = [w \in Writers |-> "idle"]
    /\ saved = [q \in Queries |-> 0] /\ used = {} /\ call = [c \in Calls |-> NoCall]

Tick ==
    /\ clock < LastSecond
    /\ clock' = clock + 1
    /\ UNCHANGED <<migration, log, library>>

---------------------------------------------------------------------------
(* Repository::new and apply_migrations *)

StartUp ==
    /\ stage = "down"
    /\ stage' = "migrating" /\ at' = <<1, 0>>
    /\ UNCHANGED <<recorded, ran, clock, log, library>>

SkipApplied ==
    /\ stage = "migrating" /\ at[1] \in recorded /\ at[2] = 0
    /\ at' = <<at[1] + 1, 0>>
    /\ UNCHANGED <<stage, recorded, ran, clock, log, library>>

\* execute_batch commits statement by statement; one that fails ends the
\* start of the program.
RunStatement ==
    /\ stage = "migrating" /\ at[1] \in Versions \ recorded /\ at[2] < Len(Scripts[at[1]])
    /\ LET k == at[1]
           i == at[2] + 1
       IN IF MayRun(k, i)
          THEN /\ at' = <<k, i>>
               /\ ran' = [ran EXCEPT ![k] = IF i > @ \/ Scripts[k][i] = "next" THEN i ELSE @]
               /\ UNCHANGED stage
          ELSE stage' = "broken" /\ UNCHANGED <<at, ran>>
    /\ UNCHANGED <<recorded, clock, log, library>>

(* Mutant: the version is recorded when its script starts.                  *)
RecordMigrationFirst ==
    /\ stage = "migrating" /\ at[1] \in Versions \ recorded
    /\ recorded' = recorded \cup {at[1]}
    /\ UNCHANGED <<stage, at, ran, clock, log, library>>

RecordMigration ==
    /\ stage = "migrating" /\ at[1] \in Versions \ recorded /\ at[2] = Len(Scripts[at[1]])
    /\ recorded' = recorded \cup {at[1]}
    /\ at' = <<at[1] + 1, 0>>
    /\ UNCHANGED <<stage, ran, clock, log, library>>

EndMigrations ==
    /\ stage = "migrating" /\ at[1] \notin Versions
    /\ stage' = "seeding"
    /\ UNCHANGED <<at, recorded, ran, clock, log, library>>

\* The process ends, at any point; calls go with it, tables stay.
Crash ==
    /\ stage # "down"
    /\ stage' = "down"
    /\ writer' = [w \in Writers |-> "idle"]
    /\ call' = [c \in Calls |-> NoCall]
    /\ UNCHANGED <<at, recorded, ran, clock, history, since, saved, used>>

---------------------------------------------------------------------------
(* Query history *)

Insert(id) ==
    /\ id \notin {e.id : e \in history}
    /\ history' = history \cup {[id |-> id, second |-> clock]}
    /\ since' = since \cup {id}

\* seed_phase_one; the prune of the one entry finds nothing to delete.
SeedPhaseOne ==
    /\ stage = "seeding" /\ stage' = "up"
    /\ IF history = {} THEN \E id \in Ids : Insert(id) ELSE UNCHANGED <<history, since>>
    /\ UNCHANGED <<at, recorded, ran, clock, writer, library>>

RecordHistoryEntry(w, id) ==
    /\ stage = "up" /\ writer[w] = "idle"
    /\ Insert(id)
    /\ writer' = [writer EXCEPT ![w] = "prune"]
    /\ UNCHANGED <<migration, clock, library>>

\* datetime() drops what is below a second; random ids order the rest.
Newer(e, f) == e.second > f.second \/ (e.second = f.second /\ e.id > f.id)
Position(e) == Cardinality({f \in history : Newer(f, e)})

(* Mutant: one entry more is kept.                                          *)
NewestAndOne == {e \in history : Position(e) <= Retained}

Newest == {e \in history : Position(e) < Retained}

PruneQueryHistory(w) ==
    /\ writer[w] = "prune"
    /\ history' = Newest /\ since' = {}
    /\ writer' = [writer EXCEPT ![w] = "idle"]
    /\ UNCHANGED <<migration, clock, library>>

\* A prune that fails is reported, and the entry stays.
PruneFails(w) ==
    /\ writer[w] = "prune"
    /\ writer' = [writer EXCEPT ![w] = "idle"]
    /\ UNCHANGED <<migration, clock, history, since, library>>

(* list_query_history: the repository gives limit rows from offset, the    *)
(* service asks for one more and cuts it off.                              *)
Rows(limit, offset) == {e \in history : Position(e) >= offset /\ Position(e) < offset + limit}
HasMore(limit, offset) == Cardinality(Rows(limit + 1, offset)) > limit
Page(limit, offset) == {e \in Rows(limit + 1, offset) : Position(e) < offset + limit}

---------------------------------------------------------------------------
(* Saved queries *)

Step(c, next) == call' = [call EXCEPT ![c].at = next]
Return(c) == call' = [call EXCEPT ![c] = NoCall]

\* A new query gets an id of its own; an old one is saved or deleted under
\* an id that the library has shown.
StartSave(c, q) ==
    /\ stage = "up" /\ call[c] = NoCall
    /\ call' = [call EXCEPT ![c] = [NoCall EXCEPT !.at = "connection", !.op = "save",
                                       !.q = IF q \in used THEN q ELSE 0]]
    /\ UNCHANGED <<migration, clock, log, saved, used>>

StartDelete(c, q) ==
    /\ stage = "up" /\ call[c] = NoCall /\ q \in used
    /\ call' = [call EXCEPT ![c] = [NoCall EXCEPT !.at = "exists", !.op = "delete", !.q = q]]
    /\ UNCHANGED <<migration, clock, log, saved, used>>

\* ensure_connection_exists: the profile named is there, or the save fails.
CheckConnection(c) ==
    /\ call[c].at = "connection"
    /\ Step(c, IF call[c].q = 0 THEN "upsert" ELSE "exists") \/ Return(c)
    /\ UNCHANGED <<migration, clock, log, saved, used>>

\* get_saved_query
Exists(q) == saved[q] # 0

\* ensure_saved_query_exists
CheckSavedQuery(c) ==
    /\ call[c].at = "exists"
    /\ IF Exists(call[c].q) THEN Step(c, IF call[c].op = "save" THEN "read" ELSE "delete")
       ELSE Return(c)
    /\ UNCHANGED <<migration, clock, log, saved, used>>

ReadCreatedAt(c) ==
    /\ call[c].at = "read"
    /\ call' = [call EXCEPT ![c].at = "upsert", ![c].created = saved[call[c].q]]
    /\ UNCHANGED <<migration, clock, log, saved, used>>

CreatedAt(c) == IF call[c].created = 0 THEN clock ELSE call[c].created

(* Mutant: the upsert writes created_at of a row that is there.             *)
StoredCreatedAtOverwritten(q, created) == created

\* On a conflict created_at is not among the columns that are set.
StoredCreatedAt(q, created) == IF Exists(q) THEN saved[q] ELSE created

UpsertSavedQuery(c) ==
    /\ call[c].at = "upsert"
    /\ \E q \in IF call[c].q = 0 THEN Queries \ used ELSE {call[c].q} :
         /\ saved' = [saved EXCEPT ![q] = StoredCreatedAt(q, CreatedAt(c))]
         /\ used' = used \cup {q}
    /\ Return(c)
    /\ UNCHANGED <<migration, clock, log>>

\* A row that another call took meanwhile is an error, after the fact.
DeleteSavedQuery(c) ==
    /\ call[c].at = "delete"
    /\ saved' = [saved EXCEPT ![call[c].q] = 0]
    /\ Return(c)
    /\ UNCHANGED <<migration, clock, log, used>>

---------------------------------------------------------------------------
LibNext ==
    \/ Tick \/ Crash
    \/ StartUp \/ SkipApplied \/ RunStatement \/ RecordMigration \/ EndMigrations \/ SeedPhaseOne
    \/ \E w \in Writers : PruneQueryHistory(w) \/ PruneFails(w)
                          \/ \E id \in Ids : RecordHistoryEntry(w, id)
    \/ \E c \in Calls : \/ \E q \in Queries : StartSave(c, q) \/ StartDelete(c, q)
                        \/ CheckConnection(c) \/ CheckSavedQuery(c) \/ ReadCreatedAt(c)
                        \/ UpsertSavedQuery(c) \/ DeleteSavedQuery(c)

LibSpec == LibInit /\ [][LibNext]_vars

---------------------------------------------------------------------------
\* Whatever starts were cut short, versions are recorded in order, each with
\* its whole script in the file; a program that is up has them all.
RecordedIsApplied ==
    /\ \A k \in recorded : ran[k] = Len(Scripts[k])
    /\ \A k \in recorded, j \in Versions : j < k => j \in recorded
    /\ stage \in {"seeding", "up"} => recorded = Versions

\* What a reader of pages sees: the next page as long as there is more.
Listed(limit) ==
    LET From[offset \in Nat] == Page(limit, offset) \cup
            IF HasMore(limit, offset) THEN From[offset + limit] ELSE {}
    IN From[0]

\* The pages of a listing show every entry, and no more entries than are
\* retained but for those whose insert no prune has followed yet, because
\* the writer is between the two, crashed there or saw its prune fail.
HistoryIsBounded ==
    \A limit \in 1..2 :
        /\ Listed(limit) = history
        /\ Cardinality(Listed(limit)) <= Retained + Cardinality(since)

\* No save changes when a saved query was created, though saves and deletes
\* of it come between its own statements.
CreationIsKept ==
    [][\A q \in Queries : saved[q] # 0 /\ saved'[q] # 0 => saved'[q] = saved[q]]_vars
=============================================================================
