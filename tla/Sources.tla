------------------------------- MODULE Sources -------------------------------
(***************************************************************************)
(* The knowledge base of one tenant: its vectors, the archive of canonical *)
(* documents with its deletion tombstones, the registry of current         *)
(* versions and the source catalog.  No transaction spans these stores.    *)
(* Each operation writes them one after another, operations of several     *)
(* threads and processes interleave at every write, and an operation may   *)
(* fail (or its process die) between any two writes.                       *)
(*                                                                         *)
(* A document has one part; <<d, v>> is version v of document d.  Archive  *)
(* and tombstones are files that are read and then written as a whole,     *)
(* under OBJECT_STORE_INDEX_LOCK, which belongs to one process.            *)
(***************************************************************************)
EXTENDS Naturals, FiniteSets

CONSTANTS
  Docs,       \* documents of the tenant
  Processes,  \* API servers, workers, command-line tools
  Jobs,       \* what there is to do, each at most once, see JobsAssumption
  NoJob,      \* the job of an operation that has not started
  Ops,        \* bound: the operations of one behaviour
  NoOp,       \* the holder of a free lock
  MaxFailures \* bound on the operations that fail

(* A file rewrite that lost another one, a late copy of the old registry file, *)
(* that file made void before anyone copied it, a rebuild that dropped vectors *)
(* and does not restore them, a version published after its vectors were lost  *)
(* to a deletion or a rebuild.                                                 *)
Mishaps == {"torn", "rewound", "skipped", "dropped", "hollow"}

Kinds == {"ingest", "delete", "list", "search", "cli", "rebuild"}

(* version: of an ingestion the doc_version the upload names, of a deletion *)
(* the version it is restricted to; 0 when none is named.                   *)
ASSUME JobsAssumption ==
  /\ Jobs \subseteq [kind : Kinds, doc : Docs, version : Nat, process : Processes]
  /\ NoJob \notin Jobs
  /\ NoOp \notin Ops
  /\ MaxFailures \in Nat

VARIABLES
  vectors,    \* versions with chunks in the vector store
  archive,    \* rows of source_documents.jsonl
  tombs,      \* rows of deleted_documents.jsonl; <<d, 0>> stands for all versions
  published,  \* current_source_versions: document -> version, 0 for no row
  migrated,   \* the tenant's current_versions_migrated mark
  legacy,     \* current_versions.json: document -> version, 0 for no entry
  catalog,    \* rows of source_catalog
  lock,       \* process -> operation that holds OBJECT_STORE_INDEX_LOCK
  job,        \* operation -> its job
  phase,      \* operation -> its next step
  ver,        \* operation -> version it writes, 0 before it has one
  buf,        \* operation -> rows it has read and not used yet, or its hits
  pending,    \* operation -> the file's versions it is about to migrate, or Nothing
  base,       \* history: operation -> versions its promise starts from
  clean,      \* history: operation -> no other operation voids its promise
  faults      \* history: of Mishaps, those that have happened

stores == <<vectors, archive, tombs, catalog>>
registry == <<published, migrated, legacy>>
local == <<ver, buf, pending>>
history == <<base, clean, faults>>
vars == <<stores, registry, lock, job, phase, local, history>>

Pairs == Docs \X Nat
Phases == {"idle", "new", "numbering", "indexing", "archiving", "merging", "restoring",
           "clearing", "publishing", "cataloging", "resolving", "recataloging",
           "erasing", "unregistering", "unpublishing", "marking", "entombing",
           "purging", "dropping", "unmarking", "sweeping", "uncataloging",
           "searching", "delisting", "resetting", "upserting", "relisting",
           "done", "failed"}

Active(o) == phase[o] \notin {"idle", "done", "failed"}
At(o, kind, step) == phase[o] = step /\ job[o].kind = kind
Deletion(j) == j.kind \in {"delete", "cli"}
Maximum(m, n) == IF m > n THEN m ELSE n

(* row_matches_source: the rows a deletion or a purge of j applies to; a row *)
(* without a version, which only a tombstone is, matches every version.      *)
Covers(j, p) == p[1] = j.doc /\ (j.version = 0 \/ p[2] = 0 \/ p[2] = j.version)

(* tombstone_deletes_row and row_restores_tombstone *)
Restores(p, t) == t[1] = p[1] /\ t[2] \in {0, p[2]}
Live == {p \in archive : ~\E t \in tombs : Restores(p, t)}

Nothing == [d \in Docs |-> 0]
Rows(versions) == {p \in {<<d, versions[d]>> : d \in Docs} : p[2] > 0}
Highest(m, rows, d) ==   \* m is the last version of d in rows, 0 if there is none
  (m = 0 \/ <<d, m>> \in rows) /\ \A p \in rows : p[1] = d => p[2] <= m
Target(o) == <<job[o].doc, ver[o]>>

(* The registry as the next reader sees it: the file until it was copied. *)
Known == IF published = Nothing /\ ~migrated THEN legacy ELSE published

Go(o, step) == phase' = [phase EXCEPT ![o] = step]

-----------------------------------------------------------------------------
(* The deployment before the operations: empty, of a release that kept the  *)
(* registry in a file, or of this one.                                      *)
Init ==
  \E present \in SUBSET Docs, old \in BOOLEAN :
    LET One(b) == [d \in Docs |-> IF b /\ d \in present THEN 1 ELSE 0] IN
    /\ vectors = present \X {1}
    /\ archive = present \X {1}
    /\ tombs = {}
    /\ catalog = IF old THEN {} ELSE present \X {1}
    /\ published = One(~old)
    /\ legacy = One(old)
    /\ migrated = (~old /\ present # {})
    /\ lock = [p \in Processes |-> NoOp]
    /\ job = [o \in Ops |-> NoJob]
    /\ phase = [o \in Ops |-> "idle"]
    /\ ver = [o \in Ops |-> 0]
    /\ buf = [o \in Ops |-> {}]
    /\ pending = [o \in Ops |-> Nothing]
    /\ base = [o \in Ops |-> {}]
    /\ clean = [o \in Ops |-> FALSE]
    /\ faults = {}

(* k, started during j or after it, voids what j promised: a deletion what *)
(* was ingested, an ingestion what was deleted, a purge a tombstone.       *)
Voids(k, j) ==
  k.doc = j.doc /\ \/ j.kind = "ingest" /\ Deletion(k)
                   \/ Deletion(j) /\ k.kind = "ingest"
                   \/ j.kind = "cli" /\ k.kind = "delete"

(* j and k at once: also what reads a snapshot that the other outdates. *)
Disturbs(k, j) ==
  \/ Voids(k, j) \/ Voids(j, k)
  \/ Deletion(j) /\ k.kind \in {"list", "delete", "rebuild"}
  \/ j.kind = "search" /\ (Deletion(k) \/ k.kind = "rebuild")

(* A request, a claimed task or a tool starts. *)
Start(o) ==
  /\ phase[o] = "idle"
  /\ \E j \in Jobs \ {job[r] : r \in Ops} :
       LET running == {r \in Ops : Active(r)} IN
       /\ job' = [job EXCEPT ![o] = j]
       /\ base' = [base EXCEPT ![o] =
            IF j.kind = "ingest" THEN {p \in archive \cup Rows(published) : p[1] = j.doc}
            ELSE IF j.kind = "search" THEN Rows(Known) \cap vectors
            ELSE {}]
       /\ clean' = [r \in Ops |->
            IF r = o THEN /\ j.kind \notin {"list", "rebuild"}
                          /\ \A q \in running : ~Disturbs(job[q], j)
            ELSE /\ clean[r] /\ ~Voids(j, job[r])
                 /\ r \in running => ~Disturbs(j, job[r])]
       /\ Go(o, "new")
  /\ UNCHANGED <<stores, registry, lock, ver, buf, pending, faults>>

-----------------------------------------------------------------------------
(* load_current_versions_db.  What the operation does with the registry.   *)
Loading(o) == phase[o] \in {"numbering", "resolving", "unregistering"} \/ At(o, "search", "new")

Loaded(o, versions) ==
  \/ /\ phase[o] = "numbering"
     /\ ver' = [ver EXCEPT ![o] = 1 + Maximum(ver[o], versions[job[o].doc])]
     /\ Go(o, "indexing") /\ UNCHANGED buf
  \/ /\ phase[o] = "resolving"
     /\ Go(o, IF buf[o] # {} THEN "recataloging"
              ELSE IF job[o].kind = "delete" THEN "erasing" ELSE "done")
     /\ UNCHANGED <<ver, buf>>
  \/ /\ phase[o] = "unregistering"
     /\ Go(o, "unpublishing") /\ UNCHANGED <<ver, buf>>
  \/ /\ At(o, "search", "new")
     /\ buf' = [buf EXCEPT ![o] = Rows(versions)]
     /\ Go(o, "searching") /\ UNCHANGED ver

(* Its first transaction, and the file when the tenant has no rows and no mark. *)
Load(o) ==
  /\ Loading(o) /\ pending[o] = Nothing
  /\ \/ /\ published # Nothing \/ migrated \/ legacy = Nothing
        /\ Loaded(o, published)
        /\ UNCHANGED pending
     \/ /\ published = Nothing /\ ~migrated /\ legacy # Nothing
        /\ pending' = [pending EXCEPT ![o] = legacy]
        /\ UNCHANGED <<phase, ver, buf>>
  /\ UNCHANGED <<job, stores, registry, lock, history>>

(* Its second transaction writes the file's rows over whatever is there now. *)
Migrate(o) ==
  /\ pending[o] # Nothing
  /\ published' = [d \in Docs |-> IF pending[o][d] > 0 THEN pending[o][d] ELSE published[d]]
  /\ faults' = IF (migrated \/ pending[o] # legacy) /\ published' # published
                 THEN faults \cup {"rewound"} ELSE faults
  /\ migrated' = TRUE
  /\ pending' = [pending EXCEPT ![o] = Nothing]
  /\ Loaded(o, pending[o])
  /\ UNCHANGED <<job, stores, legacy, lock, base, clean>>

-----------------------------------------------------------------------------
(* OBJECT_STORE_INDEX_LOCK: a file is read when it is taken or held, written *)
(* in a later step; what another process wrote in between is lost.           *)
Acquire(o) == /\ lock[job[o].process] = NoOp
              /\ lock' = [lock EXCEPT ![job[o].process] = o]
Release(o) == lock' = [lock EXCEPT ![job[o].process] = NoOp]

Read(o, file) == buf' = [buf EXCEPT ![o] = file]
Forget(o) == buf' = [buf EXCEPT ![o] = {}]
Overwrite(o, file) == faults' = IF buf[o] # file THEN faults \cup {"torn"} ELSE faults

(* Mutant: the version is computed from the rows that are not deleted. *)
NumberLive(o) ==
  /\ At(o, "ingest", "new")
  /\ \E m \in {0} \cup {p[2] : p \in Live} :
       /\ Highest(m, Live, job[o].doc)
       /\ ver' = [ver EXCEPT ![o] = m]
  /\ Go(o, "numbering")
  /\ UNCHANGED <<job, stores, registry, lock, buf, pending, history>>

(* next_source_doc_version reads the archive, deleted rows included, before *)
(* the registry; an upload with a doc_version does neither.                 *)
Number(o) ==
  /\ At(o, "ingest", "new")
  /\ \/ /\ job[o].version = 0
        /\ \E m \in {0} \cup {p[2] : p \in archive} :
             /\ Highest(m, archive, job[o].doc)
             /\ ver' = [ver EXCEPT ![o] = m]
        /\ Go(o, "numbering")
     \/ /\ job[o].version > 0
        /\ ver' = [ver EXCEPT ![o] = job[o].version]
        /\ Go(o, "indexing")
  /\ UNCHANGED <<job, stores, registry, lock, buf, pending, history>>

(* Mutant: the chunks of older versions are removed at once. *)
IndexReplacing(o) ==
  /\ phase[o] = "indexing"
  /\ vectors' = {p \in vectors : p[1] # job[o].doc} \cup {Target(o)}
  /\ Go(o, "archiving")
  /\ UNCHANGED <<job, archive, tombs, catalog, registry, lock, local, history>>

(* upsert_entities *)
Index(o) ==
  /\ phase[o] = "indexing"
  /\ vectors' = vectors \cup {Target(o)}
  /\ Go(o, "archiving")
  /\ UNCHANGED <<job, archive, tombs, catalog, registry, lock, local, history>>

(* Mutant: the archive is read before the lock is there. *)
ReadArchiveUnlocked(o) ==
  /\ phase[o] = "archiving" /\ Read(o, archive)
  /\ Go(o, "merging")
  /\ UNCHANGED <<job, stores, registry, lock, ver, pending, history>>

(* archive_source_documents: read and write the archive, then drop the *)
(* tombstones of the rows (remove_delete_tombstones_for_rows).         *)
ReadArchive(o) ==
  /\ phase[o] = "archiving" /\ Acquire(o) /\ Read(o, archive)
  /\ Go(o, "merging")
  /\ UNCHANGED <<job, stores, registry, ver, pending, history>>

Merge(o) ==
  /\ phase[o] = "merging"
  /\ archive' = buf[o] \cup {Target(o)} /\ Overwrite(o, archive) /\ Forget(o)
  /\ Go(o, "restoring")
  /\ UNCHANGED <<job, vectors, tombs, catalog, registry, lock, ver, pending, base, clean>>

ReadTombs(o) ==
  /\ phase[o] = "restoring" /\ Read(o, tombs)
  /\ Go(o, "clearing")
  /\ UNCHANGED <<job, stores, registry, lock, ver, pending, history>>

(* Mutant: the tombstones are left alone. *)
ClearNothing(o) ==
  /\ phase[o] = "clearing" /\ Release(o) /\ Forget(o)
  /\ Go(o, "publishing")
  /\ UNCHANGED <<job, stores, registry, ver, pending, history>>

Clear(o) ==
  LET restored == {t \in buf[o] : Restores(Target(o), t)} IN
  /\ phase[o] = "clearing" /\ Release(o) /\ Forget(o)
  /\ \/ restored # {} /\ tombs' = buf[o] \ restored /\ Overwrite(o, tombs)
     \/ restored = {} /\ UNCHANGED <<tombs, faults>>
  /\ Go(o, "publishing")
  /\ UNCHANGED <<job, vectors, archive, catalog, registry, ver, pending, base, clean>>

(* publish_current_versions_db keeps the larger version and marks the tenant *)
(* migrated, also when nobody has copied its file yet.                       *)
Publish(o) ==
  /\ phase[o] = "publishing"
  /\ published' = [published EXCEPT ![job[o].doc] = Maximum(@, ver[o])]
  /\ migrated' = TRUE
  /\ faults' = faults
       \cup (IF ~migrated /\ \E d \in Docs : legacy[d] > published'[d] THEN {"skipped"} ELSE {})
       \cup (IF Target(o) \notin vectors THEN {"hollow"} ELSE {})
  /\ Go(o, "cataloging")
  /\ UNCHANGED <<job, stores, legacy, lock, local, base, clean>>

(* save_source_catalog_for_tenant *)
Catalog(o) ==
  /\ phase[o] = "cataloging"
  /\ catalog' = catalog \cup {Target(o)}
  /\ Go(o, "done")
  /\ UNCHANGED <<job, vectors, archive, tombs, registry, lock, local, history>>

-----------------------------------------------------------------------------
(* list_sources: an empty catalog is rebuilt from the vector store. *)
List(o) ==
  /\ At(o, "list", "new")
  /\ \/ catalog = {} /\ Read(o, vectors)
     \/ catalog # {} /\ UNCHANGED buf
  /\ Go(o, "resolving")
  /\ UNCHANGED <<job, stores, registry, lock, ver, pending, history>>

(* get_source and source_delete_scope: delete_source lists the sources, from *)
(* the list cache if that has them, and reads the catalog again.             *)
FindSource(o) ==
  /\ At(o, "delete", "new")
  /\ \/ catalog = {} /\ Read(o, vectors)
     \/ UNCHANGED buf
  /\ Go(o, "resolving")
  /\ UNCHANGED <<job, stores, registry, lock, ver, pending, history>>

Recatalog(o) ==
  /\ phase[o] = "recataloging"
  /\ catalog' = catalog \cup buf[o] /\ Forget(o)
  /\ Go(o, IF job[o].kind = "delete" THEN "erasing" ELSE "done")
  /\ UNCHANGED <<job, vectors, archive, tombs, registry, lock, ver, pending, history>>

(* The search of a question without a version: build_filter_expr adds no    *)
(* version clause when the registry it read is empty.                       *)
Search(o) ==
  /\ phase[o] = "searching"
  /\ Read(o, IF buf[o] = {} THEN vectors ELSE vectors \cap buf[o])
  /\ Go(o, "done")
  /\ UNCHANGED <<job, stores, registry, lock, ver, pending, history>>

-----------------------------------------------------------------------------
(* delete_source, the chunks. *)
Erase(o) ==
  /\ phase[o] = "erasing"
  /\ vectors' = {p \in vectors : ~Covers(job[o], p)}
  /\ Go(o, "unregistering")
  /\ UNCHANGED <<job, archive, tombs, catalog, registry, lock, local, history>>

(* Mutant: the current version goes, whichever version is deleted. *)
UnpublishAny(o) ==
  /\ phase[o] = "unpublishing"
  /\ published' = [published EXCEPT ![job[o].doc] = 0]
  /\ Go(o, "marking")
  /\ UNCHANGED <<job, stores, migrated, legacy, lock, local, history>>

Unpublish(o) ==
  /\ phase[o] = "unpublishing"
  /\ published' = [published EXCEPT ![job[o].doc] =
       IF job[o].version \in {0, @} THEN 0 ELSE @]
  /\ Go(o, "marking")
  /\ UNCHANGED <<job, stores, migrated, legacy, lock, local, history>>

(* delete_document.py: the chunks, the entry of the old registry file (unless *)
(* --keep-current-version), and a tombstone.                                  *)
EraseByTool(o) ==
  /\ At(o, "cli", "new")
  /\ vectors' = {p \in vectors : ~Covers(job[o], p)}
  /\ Go(o, "delisting")
  /\ UNCHANGED <<job, archive, tombs, catalog, registry, lock, local, history>>

Delist(o) ==
  /\ phase[o] = "delisting"
  /\ \/ legacy' = [legacy EXCEPT ![job[o].doc] =
          IF job[o].version \in {0, @} THEN 0 ELSE @]
     \/ UNCHANGED legacy
  /\ Go(o, "marking")
  /\ UNCHANGED <<job, stores, published, migrated, lock, local, history>>

(* archive_delete_tombstone *)
Mark(o) ==
  /\ phase[o] = "marking" /\ Acquire(o) /\ Read(o, tombs)
  /\ Go(o, "entombing")
  /\ UNCHANGED <<job, stores, registry, ver, pending, history>>

Entomb(o) ==
  /\ phase[o] = "entombing"
  /\ tombs' = buf[o] \cup {<<job[o].doc, job[o].version>>}
  /\ Overwrite(o, tombs) /\ Forget(o) /\ Release(o)
  /\ Go(o, IF job[o].kind = "delete" THEN "purging" ELSE "done")
  /\ UNCHANGED <<job, vectors, archive, catalog, registry, ver, pending, base, clean>>

(* purge_source_documents: the rows, then the tombstones; each file is *)
(* written only when something was removed from it.                    *)
Purge(o) ==
  /\ phase[o] = "purging" /\ Acquire(o) /\ Read(o, archive)
  /\ Go(o, "dropping")
  /\ UNCHANGED <<job, stores, registry, ver, pending, history>>

Drop(o) ==
  LET removed == {p \in buf[o] : Covers(job[o], p)} IN
  /\ phase[o] = "dropping" /\ Forget(o)
  /\ \/ removed # {} /\ archive' = buf[o] \ removed /\ Overwrite(o, archive)
     \/ removed = {} /\ UNCHANGED <<archive, faults>>
  /\ Go(o, "unmarking")
  /\ UNCHANGED <<job, vectors, tombs, catalog, registry, lock, ver, pending, base, clean>>

Unmark(o) ==
  /\ phase[o] = "unmarking" /\ Read(o, tombs)
  /\ Go(o, "sweeping")
  /\ UNCHANGED <<job, stores, registry, lock, ver, pending, history>>

Sweep(o) ==
  LET removed == {t \in buf[o] : Covers(job[o], t)} IN
  /\ phase[o] = "sweeping" /\ Forget(o) /\ Release(o)
  /\ \/ removed # {} /\ tombs' = buf[o] \ removed /\ Overwrite(o, tombs)
     \/ removed = {} /\ UNCHANGED <<tombs, faults>>
  /\ Go(o, "uncataloging")
  /\ UNCHANGED <<job, vectors, archive, catalog, registry, ver, pending, base, clean>>

(* delete_source_catalog *)
Uncatalog(o) ==
  /\ phase[o] = "uncataloging"
  /\ catalog' = {p \in catalog : ~Covers(job[o], p)}
  /\ Go(o, "done")
  /\ UNCHANGED <<job, vectors, archive, tombs, registry, lock, local, history>>

-----------------------------------------------------------------------------
(* Mutant: rows with a tombstone are rebuilt too. *)
CollectDeleted(o) ==
  /\ At(o, "rebuild", "new") /\ Read(o, archive)
  /\ Go(o, IF archive = {} THEN "done" ELSE "resetting")
  /\ UNCHANGED <<job, stores, registry, lock, ver, pending, history>>

(* rebuild_from_object_store.py: the rows without a tombstone, a new       *)
(* collection (--reset), their vectors, their versions in the file.        *)
Collect(o) ==
  /\ At(o, "rebuild", "new") /\ Read(o, Live)
  /\ Go(o, IF Live = {} THEN "done" ELSE "resetting")
  /\ UNCHANGED <<job, stores, registry, lock, ver, pending, history>>

Reset(o) ==
  /\ phase[o] = "resetting"
  /\ \/ /\ vectors' = {}
        /\ faults' = IF vectors \subseteq buf[o] THEN faults ELSE faults \cup {"dropped"}
     \/ UNCHANGED <<vectors, faults>>
  /\ Go(o, "upserting")
  /\ UNCHANGED <<job, archive, tombs, catalog, registry, lock, local, base, clean>>

Upsert(o) ==
  /\ phase[o] = "upserting"
  /\ vectors' = vectors \cup buf[o]
  /\ Go(o, "relisting")
  /\ UNCHANGED <<job, archive, tombs, catalog, registry, lock, local, history>>

Relist(o) ==
  /\ phase[o] = "relisting"
  /\ LET all == buf[o] \cup Rows(legacy) IN
     \E new \in [Docs -> {0} \cup {p[2] : p \in all}] :
       /\ \A d \in Docs : Highest(new[d], all, d)
       /\ legacy' = new
  /\ Forget(o) /\ Go(o, "done")
  /\ UNCHANGED <<job, stores, published, migrated, lock, ver, pending, history>>

(* An exception or the end of the process between two steps. *)
Fail(o) ==
  /\ Active(o) /\ Cardinality({q \in Ops : phase[q] = "failed"}) < MaxFailures
  /\ Go(o, "failed") /\ Forget(o)
  /\ lock' = [p \in Processes |-> IF lock[p] = o THEN NoOp ELSE lock[p]]
  /\ pending' = [pending EXCEPT ![o] = Nothing]
  /\ base' = [base EXCEPT ![o] = {}] /\ clean' = [clean EXCEPT ![o] = FALSE]
  /\ faults' = IF phase[o] = "upserting" /\ ~(buf[o] \subseteq vectors)
                 THEN faults \cup {"dropped"} ELSE faults
  /\ UNCHANGED <<job, stores, registry, ver>>

Terminated == \A o \in Ops : ~Active(o)
Idle == Terminated /\ UNCHANGED vars

Step(o) ==
  \/ Start(o) \/ Load(o) \/ Migrate(o)
  \/ Number(o) \/ Index(o) \/ ReadArchive(o) \/ Merge(o) \/ ReadTombs(o)
  \/ Clear(o) \/ Publish(o) \/ Catalog(o)
  \/ List(o) \/ FindSource(o) \/ Recatalog(o) \/ Search(o)
  \/ Erase(o) \/ EraseByTool(o) \/ Unpublish(o) \/ Delist(o) \/ Mark(o) \/ Entomb(o)
  \/ Purge(o) \/ Drop(o) \/ Unmark(o) \/ Sweep(o) \/ Uncatalog(o)
  \/ Collect(o) \/ Reset(o) \/ Upsert(o) \/ Relist(o)
  \/ Fail(o)

Next == Idle \/ \E o \in Ops : Step(o)
Spec == Init /\ [][Next]_vars

-----------------------------------------------------------------------------
Versions == [Docs -> Nat]

(* Every variable holds a value of its kind; what has started has a job. *)
TypeOK ==
  /\ vectors \in SUBSET Pairs /\ archive \in SUBSET Pairs
  /\ tombs \in SUBSET Pairs /\ catalog \in SUBSET Pairs
  /\ published \in Versions /\ legacy \in Versions /\ migrated \in BOOLEAN
  /\ lock \in [Processes -> Ops \cup {NoOp}]
  /\ job \in [Ops -> Jobs \cup {NoJob}] /\ phase \in [Ops -> Phases]
  /\ ver \in [Ops -> Nat] /\ buf \in [Ops -> SUBSET Pairs] /\ pending \in [Ops -> Versions]
  /\ base \in [Ops -> SUBSET Pairs] /\ clean \in [Ops -> BOOLEAN]
  /\ faults \in SUBSET Mishaps
  /\ \A o \in Ops : phase[o] = "idle" <=> job[o] = NoJob

StepsOf(kind) ==
  CASE kind = "ingest"  -> {"numbering", "indexing", "archiving", "merging", "restoring",
                            "clearing", "publishing", "cataloging"}
    [] kind = "delete"  -> {"resolving", "recataloging", "erasing", "unregistering",
                            "unpublishing", "marking", "entombing", "purging", "dropping",
                            "unmarking", "sweeping", "uncataloging"}
    [] kind = "list"    -> {"resolving", "recataloging"}
    [] kind = "search"  -> {"searching"}
    [] kind = "cli"     -> {"delisting", "marking", "entombing"}
    [] kind = "rebuild" -> {"resetting", "upserting", "relisting"}

(* An operation is at a step of its kind. *)
StepsFit ==
  \A o \in Ops : phase[o] \notin {"idle", "new", "done", "failed"} =>
                  phase[o] \in StepsOf(job[o].kind)

Locked == {"merging", "restoring", "clearing", "entombing", "dropping", "unmarking", "sweeping"}

(* OBJECT_STORE_INDEX_LOCK: an operation between its read and its last write *)
(* of the files holds the lock of its process, and nobody else does.         *)
LockHeld ==
  /\ \A o \in Ops : phase[o] \in Locked => lock[job[o].process] = o
  /\ \A p \in Processes : lock[p] # NoOp =>
       phase[lock[p]] \in Locked /\ job[lock[p]].process = p

Writers == {o \in Ops : phase[o] # "idle" /\ job[o].kind \in {"ingest", "delete", "cli"}}
OneProcess == \A o, q \in Writers : job[o].process = job[q].process

(* As long as the files have been written from one process only, what an *)
(* operation has read of them is what they hold when it writes.          *)
ReadsAreCurrent ==
  OneProcess => \A o \in Ops :
    /\ phase[o] \in {"merging", "dropping"} => buf[o] = archive
    /\ phase[o] \in {"clearing", "entombing", "sweeping"} => buf[o] = tombs

(* OBJECT_STORE_INDEX_LOCK is enough inside one process: no rewrite of the   *)
(* archive or of the tombstones loses another, unless operations of two      *)
(* processes write them.                                                     *)
TornOnlyAcrossProcesses == "torn" \in faults => ~OneProcess

(* A row of the registry is only there once the old file counts no more. *)
Marked == published # Nothing => migrated

Numbered == {"indexing", "archiving", "merging", "restoring", "clearing", "publishing",
             "cataloging"}

(* Versions count from 1; 0 is for a tombstone of all versions. *)
Positive ==
  /\ \A p \in vectors \cup archive \cup catalog : p[2] > 0
  /\ \A o \in Ops :
       /\ \A p \in base[o] : p[2] > 0
       /\ phase[o] \notin {"clearing", "entombing", "sweeping"} => \A p \in buf[o] : p[2] > 0
       /\ phase[o] \in Numbered \/ At(o, "ingest", "done") => ver[o] > 0

(* Before its first step an operation has read nothing; the old file's versions *)
(* are with those only that are loading the registry.                           *)
Unread ==
  \A o \in Ops : /\ phase[o] \in {"idle", "new"} => buf[o] = {}
                 /\ pending[o] # Nothing => Loading(o)

(* No operation runs that would void the promise of one that is clean. *)
Apart ==
  /\ \A o \in Ops : clean[o] => /\ phase[o] \notin {"idle", "failed"}
                                /\ job[o].kind \notin {"list", "rebuild"}
  /\ \A o, q \in Ops : clean[o] /\ Active(q) /\ q # o =>
       ~Voids(job[q], job[o]) /\ (Active(o) => ~Disturbs(job[q], job[o]))

(* What an ingestion has done stays done. *)
Ingested(o) ==
  /\ phase[o] \in (Numbered \ {"indexing"}) \cup {"done"} /\ "dropped" \notin faults =>
       \/ Target(o) \in vectors
       \/ \E q \in Ops : phase[q] = "upserting" /\ Target(o) \in buf[q]
  /\ phase[o] \in {"restoring", "clearing", "publishing", "cataloging", "done"}
       /\ "torn" \notin faults => Target(o) \in archive
  /\ phase[o] = "clearing" /\ "torn" \notin faults =>
       \A t \in tombs : Restores(Target(o), t) => t \in buf[o]
  /\ phase[o] \in {"publishing", "cataloging", "done"} /\ "torn" \notin faults =>
       \A t \in tombs : ~Restores(Target(o), t)
  /\ phase[o] \in {"cataloging", "done"} /\ "rewound" \notin faults =>
       published[job[o].doc] >= ver[o]
  /\ phase[o] = "done" => Target(o) \in catalog

IngestionKept == \A o \in Ops : clean[o] /\ job[o].kind = "ingest" => Ingested(o)

Erased == {"unregistering", "unpublishing", "marking", "entombing", "purging", "dropping",
           "unmarking", "sweeping", "uncataloging", "delisting", "done"}
Unlisted == {"marking", "entombing", "purging", "dropping", "unmarking", "sweeping",
             "uncataloging", "done"}
Readers == {"resolving", "recataloging", "resetting", "upserting", "relisting"}

(* What a deletion has removed stays away, also from what others have read. *)
Removed(o) ==
  /\ \A p \in vectors : ~Covers(job[o], p)
  /\ \A q \in Ops \ {o} : phase[q] \in Readers => \A p \in buf[q] : ~Covers(job[o], p)
  /\ At(o, "cli", "done") => <<job[o].doc, job[o].version>> \in tombs
  /\ phase[o] = "dropping" => \A p \in archive : Covers(job[o], p) => p \in buf[o]
  /\ phase[o] \in {"unmarking", "sweeping", "uncataloging"} \/ At(o, "delete", "done") =>
       \A p \in archive : ~Covers(job[o], p)
  /\ At(o, "delete", "done") => \A p \in catalog : ~Covers(job[o], p)
  /\ job[o].kind = "delete" /\ phase[o] # "unregistering" =>
       migrated \/ \A p \in Rows(legacy) : ~Covers(job[o], p)
  /\ job[o].kind = "delete" /\ phase[o] \in Unlisted /\ "rewound" \notin faults =>
       \A p \in Rows(published) : ~Covers(job[o], p)

DeletionKept ==
  \A o \in Ops : clean[o] /\ Deletion(job[o]) /\ phase[o] \in Erased /\ "torn" \notin faults =>
    Removed(o)

(* What a search is to find can still be found. *)
Findable(o) ==
  \A p \in base[o] :
    /\ phase[o] = "new" =>
         /\ <<p[1], Known[p[1]]>> \in vectors
         /\ pending[o] # Nothing => <<p[1], pending[o][p[1]]>> \in vectors
    /\ phase[o] = "searching" => \E q \in buf[o] \cap vectors : q[1] = p[1]
    /\ phase[o] = "done" => \E q \in buf[o] : q[1] = p[1]

SearchKept ==
  \A o \in Ops : clean[o] /\ job[o].kind = "search"
                 /\ faults \cap {"rewound", "skipped", "hollow"} = {} => Findable(o)

(* What an ingestion numbers its version after is not lost meanwhile. *)
Unused(o) ==
  \A p \in base[o] :
    /\ p[1] = job[o].doc
    /\ phase[o] = "new" => p \in archive \/ p[2] <= published[job[o].doc]
    /\ phase[o] = "numbering" =>
         \/ p[2] <= ver[o]
         \/ pending[o] = Nothing /\ p[2] <= published[job[o].doc]
    /\ phase[o] \in Numbered => p[2] < ver[o]

NumberKept ==
  \A o \in Ops : clean[o] /\ job[o].kind = "ingest" /\ job[o].version = 0
                 /\ faults \cap {"torn", "rewound"} = {} => Unused(o)

IInv == /\ TypeOK /\ StepsFit /\ LockHeld /\ ReadsAreCurrent /\ TornOnlyAcrossProcesses
        /\ Marked /\ Positive /\ Unread /\ Apart
        /\ IngestionKept /\ DeletionKept /\ SearchKept /\ NumberKept

(* A finished ingestion that nothing was asked to undo stays complete: its   *)
(* version is in the vector store, in the archive without a tombstone and in *)
(* the catalog, and the registry has it or a later one.  Lost file updates,  *)
(* the late copy of an old registry file and dropped vectors are told apart. *)
CompletedStaysWhole ==
  \A o \in Ops : At(o, "ingest", "done") /\ clean[o] =>
    /\ Target(o) \in catalog
    /\ "dropped" \notin faults /\ (\A q \in Ops : phase[q] # "upserting") => Target(o) \in vectors
    /\ "torn" \notin faults => Target(o) \in Live
    /\ "rewound" \notin faults => published[job[o].doc] >= ver[o]

(* A finished deletion that no later upload undoes stays in force in every   *)
(* store, also when the catalog is rebuilt, the old registry file is copied  *)
(* or the index is rebuilt afterwards (delete_document.py: in the vectors).  *)
DeletedStaysGone ==
  \A o \in Ops : phase[o] = "done" /\ Deletion(job[o]) /\ clean[o] /\ "torn" \notin faults =>
    /\ \A p \in vectors : ~Covers(job[o], p)
    /\ job[o].kind = "delete" =>
         /\ \A p \in catalog \cup archive : ~Covers(job[o], p)
         /\ "rewound" \notin faults => \A p \in Rows(published) : ~Covers(job[o], p)

(* A search finds every document whose published version had its vectors when *)
(* it began and that nobody deletes meanwhile, also while the next version is *)
(* ingested: the vectors come before the version, and the old ones stay.      *)
SearchFindsPublished ==
  \A o \in Ops : At(o, "search", "done") /\ clean[o]
                 /\ faults \cap {"rewound", "skipped", "hollow"} = {} =>
    \A p \in base[o] : \E q \in buf[o] : q[1] = p[1]

(* An upload without a doc_version gets one that no archived (also deleted)  *)
(* and no published version of its document had when it began, so it writes  *)
(* over none of them.                                                        *)
VersionIsFresh ==
  \A o \in Ops : phase[o] \in Numbered /\ job[o].version = 0 /\ clean[o]
                 /\ faults \cap {"torn", "rewound"} = {} =>
    \A p \in base[o] : p[2] < ver[o]

(* The current version of a document only grows, but for a deletion that    *)
(* takes it away and a late copy of the old registry file.                  *)
VersionsOnlyGrow ==
  [][\A d \in Docs :
       \/ published'[d] >= published[d]
       \/ /\ published'[d] = 0
          /\ \E o \in Ops : phase[o] = "unpublishing" /\ Covers(job[o], <<d, published[d]>>)
       \/ "rewound" \in faults']_vars

(* docs/RELEASE_CHECKLIST.md:130: "By default, without an explicit           *)
(* doc_version, only the published versions of the current-version registry  *)
(* are searched" - the hits are of versions in the registry as it was read.  *)
OnlyPublishedAreFound ==
  [][\A o \in Ops : phase[o] = "searching" /\ phase'[o] = "done" => buf'[o] \subseteq buf[o]]_vars

=============================================================================
