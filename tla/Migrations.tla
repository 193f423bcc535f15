----------------------------- MODULE Migrations -----------------------------
(***************************************************************************)
(* The migrations: Apply, Plan and Check of internal/sqlstore/migrator.go, *)
(* which run the statements one by one and record each in a statement of   *)
(* its own, with no transaction and no lock, so that deploys race and a    *)
(* process may end between the two; and the exported files, which the tool *)
(* of the host applies and reverts whole, with the check of the catalog.   *)
(*                                                                         *)
(* A statement fails as Postgres fails it: a foreign key, an index and a   *)
(* column name a table that is there, and a table that is referenced is    *)
(* not dropped.  As SQLite does, an indexed column is not dropped either.  *)
(***************************************************************************)
EXTENDS Schema, FiniteSets

CONSTANTS
    Instances,      \* the processes that deploy
    Releases,       \* the sets of plugins that an instance is built with
    Cuts,           \* the newest unit of the release the database is from
    MaxFaults       \* crashes and failed reads in a behaviour

ASSUME MigrationsAssumption == Releases \subseteq SUBSET AllPlugins /\ MaxFaults \in Nat

VARIABLES
    mode,       \* who migrates: Migrate ("record") or the tool of the host ("catalog")
    objects,    \* the tables, columns and indexes that are in the database
    recorded,   \* the record table: the identifiers of the applied statements
    inst,       \* inst[i]: an instance, its plugins and its statements to run
    files,      \* the versions of the exported files that the tool has applied
    faults,
    misplaced   \* history: a statement named a table that is not there, or
                \* dropped one that is still referenced

vars == <<mode, objects, recorded, inst, files, faults, misplaced>>

-----------------------------------------------------------------------------
SchemaOf(ps, exported) ==
    [units |-> exported, render |-> Render(exported),
     catalog |-> CatalogOf(ps), objects |-> ObjectsOf(ps)]

\* Evaluated once.
Schemas == [ps \in Releases \cup {AllPlugins} |-> SchemaOf(ps, Files(ps))]

AllFiles == ToSet(Schemas[AllPlugins].units)

\* StatementOf[n]: the statement that creates n.
StatementOf == FoldLeft(LAMBDA f, s : f @@ (s.name :> s), <<>>, Schemas[AllPlugins].render)
NamesOf(statements) == {s.name : s \in ToSet(statements)}

\* The objects that name n: the tables that reference it, or what is part of it.
Referencing(n, there) == {o \in there : StatementOf[o].kind = "table" /\ n \in StatementOf[o].needs}
Inside(n) == {o \in objects : StatementOf[o].kind # "table" /\ n \in StatementOf[o].needs}

\* AddUnit: no two units have one version.
Valid(ps) ==
    \A j, k \in DOMAIN Schemas[ps].units :
        j # k => Schemas[ps].units[j].version # Schemas[ps].units[k].version

UpTo(ps, cut) == {u \in ToSet(Schemas[ps].units) : ~Before(cut, u.version)}

Init ==
    /\ mode \in {"record", "catalog"}
    /\ inst \in [Instances -> [plugins : {ps \in Releases : Valid(ps)}, pc : {"off"},
                               todo : {{}}, serving : {FALSE}]]
    /\ \E cut \in Cuts, i \in Instances :
         LET old == UpTo(inst[i].plugins, cut)
             ups == UNION {NamesOf(u.up) : u \in old}
         IN  /\ objects = ups
             /\ recorded = IF mode = "record" THEN ups ELSE {}
             /\ files = IF mode = "catalog" THEN {u.version : u \in old} ELSE {}
    /\ faults = 0 /\ misplaced = FALSE

-----------------------------------------------------------------------------
(* Apply.                                                                  *)

Fails(i) == inst' = [inst EXCEPT ![i].pc = "off", ![i].todo = {}]

\* The first statement makes the record table, IF NOT EXISTS.
Begin(i) ==
    /\ mode = "record" /\ inst[i].pc = "off"
    /\ inst' = [inst EXCEPT ![i].pc = "plan"]
    /\ UNCHANGED <<mode, objects, recorded, files, faults, misplaced>>

\* Pending(ps, applied): the statements that applied does not hold, by their places
\* in the order of Render, in which they run.
Pending(ps, applied) == {k \in 1 .. Len(Schemas[ps].render) : Schemas[ps].render[k].name \notin applied}

\* The statement that instance i runs next: the first of those pending.
First(i) == {k \in inst[i].todo : \A j \in inst[i].todo : k <= j}
NameAt(i, k) == Schemas[inst[i].plugins].render[k].name

Planned(i, todo) ==
    inst' = [inst EXCEPT ![i].pc = IF todo = {} THEN "done" ELSE "exec", ![i].todo = todo]

\* Plan: the record table is read.
Plan(i) ==
    /\ inst[i].pc = "plan"
    /\ Planned(i, Pending(inst[i].plugins, recorded))
    /\ UNCHANGED <<mode, objects, recorded, files, faults, misplaced>>

\* applied: a read that fails counts as a record table that is not there.
PlanBlind(i) ==
    /\ inst[i].pc = "plan" /\ faults < MaxFaults
    /\ Planned(i, Pending(inst[i].plugins, {}))
    /\ faults' = faults + 1
    /\ UNCHANGED <<mode, objects, recorded, files, misplaced>>

\* CREATE TABLE and CREATE INDEX say IF NOT EXISTS, ADD COLUMN does not.
Conflicts(n) == StatementOf[n].kind = "column" /\ n \in objects
Missing(n) == n \notin objects /\ ~(StatementOf[n].needs \subseteq objects)

\* One statement of Apply, with the error that ends it.
RunStatement(i, n, refused) ==
    /\ IF refused \/ Missing(n)
         THEN Fails(i) /\ UNCHANGED objects
         ELSE /\ objects' = objects \cup {n}
              /\ inst' = [inst EXCEPT ![i].pc = "record"]
    /\ misplaced' = (misplaced \/ Missing(n))
    /\ UNCHANGED <<mode, recorded, files, faults>>

\* Mutant: the statement is recorded before it has run.
ExecRecorded(i) ==
    /\ inst[i].pc = "exec"
    /\ inst' = [inst EXCEPT ![i].pc = "record"]
    /\ \E k \in First(i) : recorded' = recorded \cup {NameAt(i, k)}
    /\ UNCHANGED <<mode, objects, files, faults, misplaced>>

\* Mutant: CREATE TABLE without IF NOT EXISTS.
ExecCreate(i) ==
    /\ inst[i].pc = "exec"
    /\ \E k \in First(i) : RunStatement(i, NameAt(i, k), NameAt(i, k) \in objects)

\* Apply: the next statement runs, or Apply returns its error.
Exec(i) ==
    /\ inst[i].pc = "exec"
    /\ \E k \in First(i) : RunStatement(i, NameAt(i, k), Conflicts(NameAt(i, k)))

\* INSERT of its identifier, the primary key of the record table.
Record(i) ==
    /\ inst[i].pc = "record"
    /\ \E k \in First(i) :
         LET id == NameAt(i, k) IN
         IF id \in recorded
           THEN Fails(i) /\ UNCHANGED recorded
           ELSE recorded' = recorded \cup {id} /\ Planned(i, inst[i].todo \ {k})
    /\ UNCHANGED <<mode, objects, files, faults, misplaced>>

\* The process ends.
Crash(i) ==
    /\ inst[i].pc \in {"plan", "exec", "record"} /\ faults < MaxFaults
    /\ faults' = faults + 1
    /\ Fails(i)
    /\ UNCHANGED <<mode, objects, recorded, files, misplaced>>

-----------------------------------------------------------------------------
(* The exported files, and the check at the start of an instance.          *)

\* The objects that the statements of a file name, up to the k-th.
Created(u, k) == {u.up[j].name : j \in 1..k}
Dropped(u, k) ==
    UNION {{u.down[j].name} \cup IF u.down[j].kind = "table" THEN Inside(u.down[j].name) ELSE {} : j \in 1..k}

\* One file in one transaction: its statements in order, or none of them.
Ran(u) ==
    [there |-> objects \cup Created(u, Len(u.up)),
     bad |-> \E k \in DOMAIN u.up : LET there == objects \cup Created(u, k - 1) IN
                \/ u.up[k].kind = "column" /\ u.up[k].name \in there
                \/ u.up[k].name \notin there /\ ~(u.up[k].needs \subseteq there)]

Reverted(u) ==
    [there |-> objects \ Dropped(u, Len(u.down)),
     bad |-> \E k \in DOMAIN u.down : LET there == objects \ Dropped(u, k - 1) IN
                \/ u.down[k].kind = "table" /\ Referencing(u.down[k].name, there) # {}
                \/ u.down[k].kind = "column" /\ u.down[k].needs \cap there # {}]

\* applied: the files the tool has recorded if all went well.
Applies(end, applied) ==
    /\ objects' = IF end.bad THEN objects ELSE end.there
    /\ files' = IF end.bad THEN files ELSE applied
    /\ misplaced' = (misplaced \/ end.bad)

\* The tool of the host applies the first file it has not applied.
Up(i) ==
    LET units == Schemas[inst[i].plugins].units IN
    /\ mode = "catalog"
    /\ \E u \in ToSet(units) :
         /\ u.version \notin files
         /\ \A v \in ToSet(units) : Before(v.version, u.version) => v.version \in files
         /\ Applies(Ran(u), files \cup {u.version})
    /\ UNCHANGED <<mode, recorded, inst, faults>>

\* It reverts the last one, which is a file of this instance.
Down(i) ==
    /\ mode = "catalog"
    /\ \E u \in ToSet(Schemas[inst[i].plugins].units) :
         /\ u.version \in files
         /\ \A v \in files : ~Before(u.version, v)
         /\ Applies(Reverted(u), files \ {u.version})
    /\ UNCHANGED <<mode, recorded, inst, faults>>

\* Mutant: the catalog is asked for the tables only.
ChecksTables(ps) ==
    IF mode = "record" THEN Pending(ps, recorded) = {}
    ELSE {t.name : t \in ToSet(Tables(ps))} \subseteq objects

\* CheckSchema: the record table, or the catalog.
CheckSchema(ps) ==
    IF mode = "record" THEN Pending(ps, recorded) = {} ELSE Schemas[ps].catalog \subseteq objects

\* The host starts an instance, which serves when the check passes.
Serve(i) ==
    /\ inst[i].pc \in {"off", "done"} /\ ~inst[i].serving
    /\ CheckSchema(inst[i].plugins)
    /\ inst' = [inst EXCEPT ![i].serving = TRUE]
    /\ UNCHANGED <<mode, objects, recorded, files, faults, misplaced>>

Step(i) == Begin(i) \/ Plan(i) \/ Exec(i) \/ Record(i)

Next ==
    \E i \in Instances :
        \/ Step(i) \/ PlanBlind(i) \/ Crash(i)
        \/ Up(i) \/ Down(i) \/ Serve(i)

\* A step of a process that runs happens, and a deploy that failed is started
\* again: the error of Check says so ("Run: auth-all migrate").
Spec == Init /\ [][Next]_vars /\ \A i \in Instances : WF_vars(Step(i))

-----------------------------------------------------------------------------
(* Properties.                                                             *)

TypeOK ==
    /\ mode \in {"record", "catalog"}
    /\ objects \subseteq DOMAIN StatementOf /\ recorded \subseteq DOMAIN StatementOf
    /\ faults \in 0..MaxFaults /\ misplaced \in BOOLEAN
    /\ files \subseteq {u.version : u \in ToSet(Schemas[AllPlugins].units)}
    /\ \A i \in Instances :
         /\ inst[i].plugins \in Releases /\ inst[i].serving \in BOOLEAN
         /\ inst[i].pc \in {"off", "plan", "exec", "record", "done"}
         /\ inst[i].todo \subseteq 1 .. Len(Schemas[inst[i].plugins].render)
         /\ (inst[i].todo # {}) <=> (inst[i].pc \in {"exec", "record"})

\* Apply of migrator.go: what the record table names is in the database, although
\* deploys race and end anywhere, so Check never passes over a missing object.
RecordedExists == recorded \subseteq objects

\* What the renderer gives for a set of plugins: each statement after those of the
\* tables it names, within Render and within the files in the order of versions, and
\* a statement for every object; where a file makes an index, CheckCatalog asks for
\* another object of the file.
RenderSound(ps) ==
    LET units == ToSet(Files(ps))
        render == Render(Files(ps))
        Earlier(u) == UNION {NamesOf(v.up) : v \in {w \in units : Before(w.version, u.version)}}
    IN  /\ units \subseteq AllFiles
        /\ \A k \in 1 .. Len(render) :
             /\ render[k].name \in DOMAIN StatementOf
             /\ StatementOf[render[k].name].needs \subseteq {render[j].name : j \in 1 .. k - 1}
        /\ \A u \in units : \A k \in DOMAIN u.up :
             u.up[k].needs \subseteq Earlier(u) \cup Created(u, k - 1)
        /\ ObjectsOf(ps) \subseteq {render[k].name : k \in 1 .. Len(render)}
        /\ \A n \in ObjectsOf(ps) : \E u \in units :
             n \in NamesOf(u.up) /\ NamesOf(u.up) \cap CatalogOf(ps) # {}

\* Files of all plugins: a version is one file and an object is made in one place; a
\* down file drops what its up file made, a table after those that reference it and
\* a column after its indexes.
FilesSound ==
    /\ \A u, v \in AllFiles :
         /\ u.version = v.version => u = v
         /\ \A j \in DOMAIN u.up, k \in DOMAIN v.up : u.up[j].name = v.up[k].name => u = v /\ j = k
    /\ \A u \in AllFiles :
         /\ u.up \in Seq(ToSet(u.up)) /\ u.down \in Seq(ToSet(u.down))
         /\ \A k \in DOMAIN u.up : u.up[k].name \in DOMAIN StatementOf /\ StatementOf[u.up[k].name] = u.up[k]
         /\ NamesOf(u.down) \subseteq NamesOf(u.up)
         /\ \A s \in ToSet(u.up) :
              \/ s.name \in NamesOf(u.down)
              \/ s.kind # "table" /\ \E t \in ToSet(u.down) : t.kind = "table" /\ t.name \in s.needs
         /\ \A k \in DOMAIN u.down :
              LET gone == {u.down[j].name : j \in 1 .. k - 1}
                  s == u.down[k]
              IN  /\ s.kind = "table" => \A t \in ToSet(u.up) : t.kind = "table" /\ s.name \in t.needs => t.name \in gone
                  /\ s.kind = "column" => s.needs \subseteq gone

RendererSound == FilesSound /\ \A ps \in SUBSET AllPlugins : RenderSound(ps)

\* docs/guides/migrations-cli.md: a rendered statement "creates a referenced table
\* before the table that references it", for every set of plugins and every older
\* database; the down files drop in the reverse order.
InOrder == TypeOK /\ RendererSound /\ ~misplaced

\* CheckSchema at startup: an instance that starts to serve has every table, every
\* column and every index of its effective schema, whichever way it checks.
ServesComplete ==
    [][\A i \in Instances :
          inst'[i].serving /\ ~inst[i].serving => Schemas[inst[i].plugins].objects \subseteq objects]_vars

\* A column that is there, not recorded, and that nobody is about to record.
Stuck ==
    \E n \in objects \ recorded :
        /\ StatementOf[n].kind = "column"
        /\ \A i \in Instances : inst[i].pc = "record" => \A k \in First(i) : NameAt(i, k) # n

\* Apply again after any failure: deploys that race, fail and crash end with the
\* complete schema, unless one ended between an ADD COLUMN and its record.
Progress ==
    mode = "record" ~> (Stuck \/ \A i \in Instances : Pending(inst[i].plugins, recorded) = {})
=============================================================================
