---------------------------- MODULE Sources_proofs ----------------------------
(***************************************************************************)
(* Proofs about Sources, for any documents, processes, jobs and number of  *)
(* operations.                                                             *)
(***************************************************************************)
EXTENDS Sources, TLAPS

-----------------------------------------------------------------------------
(* Operators *)

\* The rows of a registry.
LEMMA RowsAre ==
  ASSUME NEW versions \in Versions
  PROVE  /\ Rows(versions) \subseteq Pairs
         /\ \A p \in Rows(versions) : p[2] > 0 /\ p = <<p[1], versions[p[1]]>>
         /\ \A d \in Docs : versions[d] > 0 => <<d, versions[d]>> \in Rows(versions)
BY DEF Rows, Versions, Pairs

\* A registry without rows.
LEMMA NothingIs == Nothing \in Versions /\ \A d \in Docs : Nothing[d] = 0
BY DEF Nothing, Versions

LEMMA MaximumIs ==
  ASSUME NEW m \in Nat, NEW n \in Nat
  PROVE  Maximum(m, n) \in Nat /\ Maximum(m, n) >= m /\ Maximum(m, n) >= n
BY DEF Maximum

\* Jobs have a kind, a document, a version and a process.
LEMMA JobsAre ==
  ASSUME NEW j \in Jobs
  PROVE  /\ j.kind \in Kinds /\ j.doc \in Docs /\ j.version \in Nat
         /\ j.process \in Processes /\ j # NoJob
BY JobsAssumption

-----------------------------------------------------------------------------
(* Types *)

LEMMA InitTypes == Init => TypeOK
<1> SUFFICES ASSUME NEW present \in SUBSET Docs, NEW old \in BOOLEAN,
                    /\ vectors = present \X {1}
                    /\ archive = present \X {1}
                    /\ tombs = {}
                    /\ catalog = IF old THEN {} ELSE present \X {1}
                    /\ published = [d \in Docs |-> IF ~old /\ d \in present THEN 1 ELSE 0]
                    /\ legacy = [d \in Docs |-> IF old /\ d \in present THEN 1 ELSE 0]
                    /\ migrated = (~old /\ present # {})
                    /\ lock = [p \in Processes |-> NoOp]
                    /\ job = [o \in Ops |-> NoJob]
                    /\ phase = [o \in Ops |-> "idle"]
                    /\ ver = [o \in Ops |-> 0]
                    /\ buf = [o \in Ops |-> {}]
                    /\ pending = [o \in Ops |-> Nothing]
                    /\ base = [o \in Ops |-> {}]
                    /\ clean = [o \in Ops |-> FALSE]
                    /\ faults = {}
             PROVE  TypeOK
  BY DEF Init
<1>1. /\ vectors \in SUBSET Pairs /\ archive \in SUBSET Pairs
      /\ tombs \in SUBSET Pairs /\ catalog \in SUBSET Pairs
  BY DEF Pairs
<1>2. published \in Versions /\ legacy \in Versions /\ migrated \in BOOLEAN
  BY DEF Versions
<1>3. /\ lock \in [Processes -> Ops \cup {NoOp}]
      /\ job \in [Ops -> Jobs \cup {NoJob}] /\ phase \in [Ops -> Phases]
      /\ ver \in [Ops -> Nat] /\ buf \in [Ops -> SUBSET Pairs]
      /\ base \in [Ops -> SUBSET Pairs] /\ clean \in [Ops -> BOOLEAN]
      /\ faults \in SUBSET Mishaps
      /\ \A o \in Ops : phase[o] = "idle" <=> job[o] = NoJob
  BY DEF Phases
<1>4. pending \in [Ops -> Versions]
  BY NothingIs
<1> QED
  BY <1>1, <1>2, <1>3, <1>4 DEF TypeOK

\* What a step with the registry does to the variables that follow its reader.
LEMMA LoadedTypes ==
  ASSUME TypeOK, NEW o \in Ops, NEW versions \in Versions, Loaded(o, versions)
  PROVE  /\ phase[o] # "idle" /\ phase' \in [Ops -> Phases] /\ phase'[o] # "idle"
         /\ \A q \in Ops \ {o} : phase'[q] = phase[q]
         /\ ver' \in [Ops -> Nat] /\ buf' \in [Ops -> SUBSET Pairs]
<1>1. CASE phase[o] = "numbering" /\ Loaded(o, versions)
  <2>1. versions[job[o].doc] \in Nat /\ ver[o] \in Nat
    BY <1>1, JobsAre DEF TypeOK, Versions
  <2>2. 1 + Maximum(ver[o], versions[job[o].doc]) \in Nat
    BY <2>1 DEF Maximum
  <2>3. /\ ver' = [ver EXCEPT ![o] = 1 + Maximum(ver[o], versions[job[o].doc])]
        /\ phase' = [phase EXCEPT ![o] = "indexing"] /\ buf' = buf
    BY <1>1 DEF Loaded, At, Go
  <2> QED
    BY <1>1, <2>2, <2>3 DEF TypeOK, Phases
<1>2. CASE phase[o] # "numbering" /\ Loaded(o, versions)
  BY <1>2, RowsAre DEF Loaded, At, Go, TypeOK, Phases
<1> QED
  BY <1>1, <1>2

LEMMA StepTypes ==
  ASSUME TypeOK, NEW o \in Ops, Step(o)
  PROVE  TypeOK'
<1> USE DEF TypeOK, Go, Read, Forget
<1>1. CASE Start(o)
  <2> PICK j \in Jobs : /\ job' = [job EXCEPT ![o] = j]
                        /\ base' = [base EXCEPT ![o] =
                             IF j.kind = "ingest"
                               THEN {p \in archive \cup Rows(published) : p[1] = j.doc}
                             ELSE IF j.kind = "search" THEN Rows(Known) \cap vectors
                             ELSE {}]
    BY <1>1 DEF Start
  <2>1. base' \in [Ops -> SUBSET Pairs]
    BY RowsAre
  <2>2. clean' \in [Ops -> BOOLEAN]
    BY <1>1 DEF Start
  <2>3. \A q \in Ops : phase'[q] = "idle" <=> job'[q] = NoJob
    BY <1>1, JobsAre DEF Start, Phases
  <2> QED
    BY <1>1, <2>1, <2>2, <2>3 DEF Start, Phases, stores, registry
<1>2. CASE Load(o)
  <2>1. CASE Loaded(o, published) /\ UNCHANGED pending
    BY <1>2, <2>1, LoadedTypes DEF Load, stores, registry, history
  <2>2. CASE pending' = [pending EXCEPT ![o] = legacy] /\ UNCHANGED <<phase, ver, buf>>
    BY <1>2, <2>2 DEF Load, stores, registry, history
  <2> QED
    BY <1>2, <2>1, <2>2 DEF Load
<1>3. CASE Migrate(o)
  <2>1. pending[o] \in Versions /\ Loaded(o, pending[o])
    BY <1>3 DEF Migrate
  <2>2. published' \in Versions
    BY <1>3, <2>1 DEF Migrate, Versions
  <2> QED
    BY <1>3, <2>1, <2>2, LoadedTypes, NothingIs DEF Migrate, stores, Mishaps
<1>4. CASE Number(o)
  <2>1. ver' \in [Ops -> Nat]
    BY <1>4, JobsAre DEF Number, At, Pairs
  <2> QED
    BY <1>4, <2>1 DEF Number, At, Phases, stores, registry, history
<1>5. CASE Index(o) \/ Upsert(o) \/ Catalog(o) \/ Recatalog(o)
  <2>1. Target(o) \in Pairs \/ phase[o] \notin {"indexing", "cataloging"}
    BY JobsAre DEF Target, Pairs
  <2> QED
    BY <1>5, <2>1 DEF Index, Upsert, Catalog, Recatalog, Phases, registry, local, history
<1>6. CASE Merge(o) \/ Entomb(o)
  <2>1. job[o] \in Jobs
    BY <1>6 DEF Merge, Entomb
  <2>2. Target(o) \in Pairs /\ <<job[o].doc, job[o].version>> \in Pairs
    BY <2>1, JobsAre DEF Target, Pairs
  <2> QED
    BY <1>6, <2>1, <2>2 DEF Merge, Entomb, Phases, Overwrite, Release, Mishaps, registry
<1>7. CASE ReadArchive(o) \/ Mark(o) \/ Purge(o)
  BY <1>7, JobsAre DEF ReadArchive, Mark, Purge, Acquire, Phases, stores, registry, history
<1>8. CASE ReadTombs(o) \/ Unmark(o)
  BY <1>8 DEF ReadTombs, Unmark, Phases, stores, registry, history
<1>9. CASE Clear(o) \/ Sweep(o)
  BY <1>9, JobsAre DEF Clear, Sweep, Overwrite, Release, Mishaps, Phases, registry
<1>10. CASE Publish(o)
  <2>1. published' \in Versions
    BY <1>10, JobsAre, MaximumIs DEF Publish, Versions
  <2> QED
    BY <1>10, <2>1 DEF Publish, Phases, stores, local, Mishaps
<1>11. CASE List(o) \/ FindSource(o) \/ Search(o) \/ Collect(o)
  BY <1>11 DEF List, FindSource, Search, Collect, At, Live, Phases, stores, registry, history
<1>12. CASE Erase(o) \/ EraseByTool(o) \/ Uncatalog(o)
  BY <1>12 DEF Erase, EraseByTool, Uncatalog, At, Phases, registry, local, history
<1>13. CASE Unpublish(o) \/ Delist(o)
  <2>1. job[o].doc \in Docs
    BY <1>13, JobsAre DEF Unpublish, Delist
  <2>2. CASE Unpublish(o)
    <3>1. published' = [published EXCEPT ![job[o].doc] =
             IF job[o].version \in {0, published[job[o].doc]} THEN 0 ELSE @]
      BY <2>2 DEF Unpublish
    <3>2. published' \in Versions
      BY <2>1, <3>1 DEF Versions
    <3> QED
      BY <2>2, <3>2 DEF Unpublish, Phases, stores, local, history
  <2>3. CASE Delist(o)
    <3>1. legacy' \in Versions
      BY <2>1, <2>3 DEF Delist, Versions
    <3> QED
      BY <2>3, <3>1 DEF Delist, Phases, stores, local, history
  <2> QED
    BY <1>13, <2>2, <2>3
<1>14. CASE Drop(o) \/ Reset(o)
  BY <1>14 DEF Drop, Reset, Overwrite, Mishaps, Phases, registry, local
<1>15. CASE Relist(o)
  <2>1. legacy' \in Versions
    BY <1>15, RowsAre DEF Relist, Versions, Pairs
  <2> QED
    BY <1>15, <2>1 DEF Relist, Phases, stores, history
<1>16. CASE Fail(o)
  BY <1>16, NothingIs DEF Fail, Active, Mishaps, Phases, stores, registry
<1> QED
  BY <1>1, <1>2, <1>3, <1>4, <1>5, <1>6, <1>7, <1>8, <1>9, <1>10, <1>11, <1>12,
     <1>13, <1>14, <1>15, <1>16 DEF Step

-----------------------------------------------------------------------------
(* What a step may change *)

\* A step of o leaves what the other operations are doing alone, keeps its job
\* once it has one, and forgets no mishap; only a start makes a promise.
LEMMA OthersKeep ==
  ASSUME TypeOK, NEW o \in Ops, Step(o)
  PROVE  /\ \A q \in Ops \ {o} :
              /\ phase'[q] = phase[q] /\ job'[q] = job[q] /\ ver'[q] = ver[q]
              /\ buf'[q] = buf[q] /\ pending'[q] = pending[q] /\ base'[q] = base[q]
              /\ clean'[q] => clean[q]
         /\ \/ Start(o)
            \/ /\ job' = job /\ phase[o] # "idle" /\ (clean'[o] => clean[o])
               /\ \A q \in Ops : base'[q] # {} => base'[q] = base[q]
               /\ clean' = clean \/ Fail(o)
         /\ faults \subseteq faults'
<1> USE DEF TypeOK, Go, Read, Forget, stores, registry, local, history
<1>1. CASE Start(o)
  BY <1>1 DEF Start
<1>2. CASE Load(o)
  BY <1>2 DEF Load, Loaded, Loading, At
<1>3. CASE Migrate(o)
  BY <1>3 DEF Migrate, Loaded, At
<1>4. CASE Number(o) \/ Index(o) \/ ReadArchive(o) \/ Merge(o) \/ ReadTombs(o)
  BY <1>4 DEF Number, Index, ReadArchive, Merge, ReadTombs, At, Overwrite
<1>5. CASE Clear(o) \/ Publish(o) \/ Catalog(o)
  BY <1>5 DEF Clear, Publish, Catalog, Overwrite
<1>6. CASE List(o) \/ FindSource(o) \/ Recatalog(o) \/ Search(o)
  BY <1>6 DEF List, FindSource, Recatalog, Search, At
<1>7. CASE Erase(o) \/ EraseByTool(o) \/ Unpublish(o) \/ Delist(o) \/ Mark(o) \/ Entomb(o)
  BY <1>7 DEF Erase, EraseByTool, Unpublish, Delist, Mark, Entomb, At, Overwrite
<1>8. CASE Purge(o) \/ Drop(o) \/ Unmark(o) \/ Sweep(o) \/ Uncatalog(o)
  BY <1>8 DEF Purge, Drop, Unmark, Sweep, Uncatalog, Overwrite
<1>9. CASE Collect(o) \/ Reset(o) \/ Upsert(o) \/ Relist(o)
  BY <1>9 DEF Collect, Reset, Upsert, Relist, At
<1>10. CASE Fail(o)
  BY <1>10 DEF Fail, Active
<1> QED
  BY <1>1, <1>2, <1>3, <1>4, <1>5, <1>6, <1>7, <1>8, <1>9, <1>10 DEF Step

\* Who writes which store, and what.
LEMMA Writes ==
  ASSUME NEW o \in Ops, Step(o)
  PROVE  /\ \/ UNCHANGED vectors
            \/ Index(o) \/ Erase(o) \/ EraseByTool(o) \/ Reset(o) \/ Upsert(o)
         /\ UNCHANGED archive \/ Merge(o) \/ Drop(o)
         /\ UNCHANGED tombs \/ Clear(o) \/ Entomb(o) \/ Sweep(o)
         /\ UNCHANGED <<published, migrated>> \/ Publish(o) \/ Migrate(o) \/ Unpublish(o)
         /\ UNCHANGED legacy \/ Delist(o) \/ Relist(o)
         /\ UNCHANGED catalog \/ Catalog(o) \/ Recatalog(o) \/ Uncatalog(o)
<1> USE DEF stores, registry
<1>1. CASE Start(o) \/ Load(o) \/ Migrate(o) \/ Fail(o)
  BY <1>1 DEF Start, Load, Migrate, Fail
<1>2. CASE Number(o) \/ Index(o) \/ ReadArchive(o) \/ Merge(o) \/ ReadTombs(o)
           \/ Clear(o) \/ Publish(o) \/ Catalog(o)
  BY <1>2 DEF Number, Index, ReadArchive, Merge, ReadTombs, Clear, Publish, Catalog
<1>3. CASE List(o) \/ FindSource(o) \/ Recatalog(o) \/ Search(o)
  BY <1>3 DEF List, FindSource, Recatalog, Search
<1>4. CASE Erase(o) \/ EraseByTool(o) \/ Unpublish(o) \/ Delist(o) \/ Mark(o) \/ Entomb(o)
  BY <1>4 DEF Erase, EraseByTool, Unpublish, Delist, Mark, Entomb
<1>5. CASE Purge(o) \/ Drop(o) \/ Unmark(o) \/ Sweep(o) \/ Uncatalog(o)
  BY <1>5 DEF Purge, Drop, Unmark, Sweep, Uncatalog
<1>6. CASE Collect(o) \/ Reset(o) \/ Upsert(o) \/ Relist(o)
  BY <1>6 DEF Collect, Reset, Upsert, Relist
<1> QED
  BY <1>1, <1>2, <1>3, <1>4, <1>5, <1>6 DEF Step

-----------------------------------------------------------------------------
(* Steps *)

\* The step an operation is at tells the kind of its job.
LEMMA KindsAt ==
  ASSUME TypeOK, StepsFit, NEW o \in Ops
  PROVE  /\ phase[o] # "idle" => job[o] \in Jobs
         /\ phase[o] \in {"numbering", "indexing", "archiving", "merging", "restoring",
                         "clearing", "publishing", "cataloging"} => job[o].kind = "ingest"
         /\ phase[o] \in {"erasing", "unregistering", "unpublishing", "purging",
                         "dropping", "unmarking", "sweeping", "uncataloging"} =>
              job[o].kind = "delete"
         /\ phase[o] \in {"marking", "entombing"} => job[o].kind \in {"delete", "cli"}
         /\ phase[o] \in {"resolving", "recataloging"} => job[o].kind \in {"delete", "list"}
         /\ phase[o] = "searching" => job[o].kind = "search"
         /\ phase[o] = "delisting" => job[o].kind = "cli"
         /\ phase[o] \in {"resetting", "upserting", "relisting"} => job[o].kind = "rebuild"
<1>1. phase[o] # "idle" => job[o] \in Jobs
  BY DEF TypeOK
<1>2. CASE phase[o] \in {"idle", "new", "done", "failed"}
  BY <1>1, <1>2
<1>3. CASE phase[o] \notin {"idle", "new", "done", "failed"}
  <2>1. phase[o] \in StepsOf(job[o].kind) /\ job[o].kind \in Kinds
    BY <1>1, <1>3, JobsAre DEF StepsFit
  <2> QED
    BY <1>1, <2>1 DEF StepsOf, Kinds
<1> QED
  BY <1>2, <1>3

LEMMA StepSteps ==
  ASSUME TypeOK, StepsFit, NEW o \in Ops, Step(o)
  PROVE  StepsFit'
<1> SUFFICES phase'[o] \in {"new", "done", "failed"} \/ phase'[o] \in StepsOf(job'[o].kind)
  BY OthersKeep DEF StepsFit
<1> USE KindsAt DEF TypeOK, Go
<1>1. CASE Start(o) \/ Fail(o)
  BY <1>1 DEF Start, Fail
<1>2. CASE Load(o) \/ Migrate(o)
  <2>1. \/ UNCHANGED phase /\ phase[o] \notin {"idle", "new", "done", "failed"}
        \/ UNCHANGED phase /\ phase[o] = "new"
        \/ \E versions : Loaded(o, versions)
    BY <1>2 DEF Load, Migrate, Loading, At
  <2>2. UNCHANGED job
    BY <1>2 DEF Load, Migrate
  <2> QED
    BY <2>1, <2>2 DEF Loaded, At, StepsOf, StepsFit
<1>3. CASE Number(o) \/ Index(o) \/ ReadArchive(o) \/ Merge(o) \/ ReadTombs(o)
           \/ Clear(o) \/ Publish(o) \/ Catalog(o)
  BY <1>3 DEF Number, Index, ReadArchive, Merge, ReadTombs, Clear, Publish, Catalog, At, StepsOf
<1>4. CASE List(o) \/ FindSource(o) \/ Recatalog(o) \/ Search(o)
  BY <1>4 DEF List, FindSource, Recatalog, Search, At, StepsOf
<1>5. CASE Erase(o) \/ EraseByTool(o) \/ Unpublish(o) \/ Delist(o) \/ Mark(o) \/ Entomb(o)
  BY <1>5 DEF Erase, EraseByTool, Unpublish, Delist, Mark, Entomb, At, StepsOf
<1>6. CASE Purge(o) \/ Drop(o) \/ Unmark(o) \/ Sweep(o) \/ Uncatalog(o)
  BY <1>6 DEF Purge, Drop, Unmark, Sweep, Uncatalog, StepsOf
<1>7. CASE Collect(o) \/ Reset(o) \/ Upsert(o) \/ Relist(o)
  BY <1>7 DEF Collect, Reset, Upsert, Relist, At, StepsOf
<1> QED
  BY <1>1, <1>2, <1>3, <1>4, <1>5, <1>6, <1>7 DEF Step

-----------------------------------------------------------------------------
(* The lock of a process and what is read under it *)

LEMMA StepLock ==
  ASSUME TypeOK, StepsFit, LockHeld, NEW o \in Ops, Step(o)
  PROVE  LockHeld'
<1> USE DEF TypeOK, Go, LockHeld, Locked
<1>0. \A q \in Ops : phase[q] # "idle" => job[q].process \in Processes
  BY JobsAre
<1>1. CASE Start(o)
  <2>1. \A q \in Ops : phase[q] # "idle" => job'[q] = job[q]
    BY <1>1 DEF Start
  <2> QED
    BY <1>1, <2>1, JobsAssumption DEF Start
<1>2. CASE Load(o) \/ Migrate(o)
  BY <1>2, JobsAssumption DEF Load, Migrate, Loaded, Loading, At
<1>3. CASE ReadArchive(o) \/ Mark(o) \/ Purge(o)
  BY <1>0, <1>3, JobsAssumption DEF ReadArchive, Mark, Purge, Acquire
<1>4. CASE Clear(o) \/ Entomb(o) \/ Sweep(o)
  BY <1>0, <1>4, JobsAssumption DEF Clear, Entomb, Sweep, Release
<1>5. CASE Merge(o) \/ ReadTombs(o) \/ Drop(o) \/ Unmark(o)
  BY <1>0, <1>5, JobsAssumption DEF Merge, ReadTombs, Drop, Unmark
<1>6. CASE Number(o) \/ Index(o) \/ Publish(o) \/ Catalog(o)
  BY <1>6, JobsAssumption DEF Number, Index, Publish, Catalog, At
<1>7. CASE List(o) \/ FindSource(o) \/ Recatalog(o) \/ Search(o)
  BY <1>7, JobsAssumption DEF List, FindSource, Recatalog, Search, At
<1>8. CASE Erase(o) \/ EraseByTool(o) \/ Unpublish(o) \/ Delist(o) \/ Uncatalog(o)
  BY <1>8, JobsAssumption DEF Erase, EraseByTool, Unpublish, Delist, Uncatalog, At
<1>9. CASE Collect(o) \/ Reset(o) \/ Upsert(o) \/ Relist(o)
  BY <1>9, JobsAssumption DEF Collect, Reset, Upsert, Relist, At
<1>10. CASE Fail(o)
  BY <1>0, <1>10, JobsAssumption DEF Fail, Active
<1> QED
  BY <1>1, <1>2, <1>3, <1>4, <1>5, <1>6, <1>7, <1>8, <1>9, <1>10 DEF Step

\* One process now means one process before: who has written stays.
LEMMA OneProcessBefore ==
  ASSUME TypeOK, StepsFit, NEW o \in Ops, Step(o), OneProcess'
  PROVE  OneProcess
<1>1. \A q \in Ops : phase[q] # "idle" => phase'[q] # "idle" /\ job'[q] = job[q]
  <2>1. phase[o] # "idle" => phase'[o] # "idle" /\ job'[o] = job[o]
    <3>1. TypeOK' /\ (Start(o) \/ job' = job)
      BY StepTypes, OthersKeep
    <3>2. Start(o) => phase[o] = "idle"
      BY DEF Start
    <3> QED
      BY <3>1, <3>2 DEF TypeOK
  <2> QED
    BY <2>1, OthersKeep
<1> QED
  BY <1>1 DEF OneProcess, Writers

\* Two writers between read and write are of two processes.
LEMMA OneInside ==
  ASSUME TypeOK, StepsFit, LockHeld, OneProcess, NEW o \in Ops, NEW q \in Ops,
         phase[o] \in Locked, phase[q] \in Locked
  PROVE  o = q
<1>1. o \in Writers /\ q \in Writers
  BY KindsAt DEF Writers, Locked
<1>2. job[o].process = job[q].process
  BY <1>1 DEF OneProcess
<1> QED
  BY <1>2 DEF LockHeld

LEMMA StepReads ==
  ASSUME TypeOK, StepsFit, LockHeld, ReadsAreCurrent, TornOnlyAcrossProcesses,
         NEW o \in Ops, Step(o)
  PROVE  ReadsAreCurrent' /\ TornOnlyAcrossProcesses'
<1> SUFFICES ASSUME OneProcess'
             PROVE  /\ \A q \in Ops :
                         /\ phase'[q] \in {"merging", "dropping"} => buf'[q] = archive'
                         /\ phase'[q] \in {"clearing", "entombing", "sweeping"} =>
                              buf'[q] = tombs'
                    /\ "torn" \notin faults'
  BY DEF ReadsAreCurrent, TornOnlyAcrossProcesses
<1>1. OneProcess
  BY OneProcessBefore
<1>2. /\ "torn" \notin faults
      /\ phase[o] \in {"merging", "dropping"} => buf[o] = archive
      /\ phase[o] \in {"clearing", "entombing", "sweeping"} => buf[o] = tombs
  BY <1>1 DEF ReadsAreCurrent, TornOnlyAcrossProcesses
<1>3. "torn" \notin faults'
  <2>1. CASE Merge(o) \/ Drop(o)
    BY <1>2, <2>1 DEF Merge, Drop, Overwrite
  <2>2. CASE Clear(o) \/ Entomb(o) \/ Sweep(o)
    BY <1>2, <2>2 DEF Clear, Entomb, Sweep, Overwrite
  <2>3. CASE Migrate(o) \/ Publish(o) \/ Reset(o) \/ Fail(o)
    BY <1>2, <2>3 DEF Migrate, Publish, Reset, Fail
  <2>4. CASE Start(o) \/ Load(o) \/ Number(o) \/ Index(o) \/ ReadArchive(o) \/ ReadTombs(o)
             \/ Catalog(o) \/ List(o) \/ FindSource(o) \/ Recatalog(o) \/ Search(o)
    BY <1>2, <2>4 DEF Start, Load, Number, Index, ReadArchive, ReadTombs, Catalog, List,
                      FindSource, Recatalog, Search, history
  <2>5. CASE Erase(o) \/ EraseByTool(o) \/ Unpublish(o) \/ Delist(o) \/ Mark(o) \/ Purge(o)
             \/ Unmark(o) \/ Uncatalog(o) \/ Collect(o) \/ Upsert(o) \/ Relist(o)
    BY <1>2, <2>5 DEF Erase, EraseByTool, Unpublish, Delist, Mark, Purge, Unmark, Uncatalog,
                      Collect, Upsert, Relist, history
  <2> QED
    BY <2>1, <2>2, <2>3, <2>4, <2>5 DEF Step
\* The operation that moves.
<1>4. /\ phase'[o] \in {"merging", "dropping"} => buf'[o] = archive'
      /\ phase'[o] \in {"clearing", "entombing", "sweeping"} => buf'[o] = tombs'
  <2> USE DEF TypeOK, Go, Read, stores
  <2>1. CASE ReadArchive(o) \/ ReadTombs(o) \/ Mark(o) \/ Purge(o) \/ Unmark(o)
    BY <2>1 DEF ReadArchive, ReadTombs, Mark, Purge, Unmark
  <2>2. CASE Load(o) \/ Migrate(o)
    BY <2>2 DEF Load, Migrate, Loaded, Loading, At
  <2>3. CASE Start(o) \/ Number(o) \/ Index(o) \/ Merge(o) \/ Clear(o) \/ Publish(o)
             \/ Catalog(o) \/ List(o) \/ FindSource(o) \/ Recatalog(o) \/ Search(o) \/ Fail(o)
    BY <2>3 DEF Start, Number, Index, Merge, Clear, Publish, Catalog, List, FindSource,
                Recatalog, Search, Fail
  <2>4. CASE Erase(o) \/ EraseByTool(o) \/ Unpublish(o) \/ Delist(o) \/ Entomb(o) \/ Drop(o)
             \/ Sweep(o) \/ Uncatalog(o) \/ Collect(o) \/ Reset(o) \/ Upsert(o) \/ Relist(o)
    BY <2>4 DEF Erase, EraseByTool, Unpublish, Delist, Entomb, Drop, Sweep, Uncatalog,
                Collect, Reset, Upsert, Relist
  <2> QED
    BY <2>1, <2>2, <2>3, <2>4 DEF Step
\* The others.
<1>5. ASSUME NEW q \in Ops \ {o}
      PROVE  /\ phase'[q] \in {"merging", "dropping"} => buf'[q] = archive'
             /\ phase'[q] \in {"clearing", "entombing", "sweeping"} => buf'[q] = tombs'
  <2>1. phase'[q] = phase[q] /\ buf'[q] = buf[q]
    BY OthersKeep
  <2>2. CASE phase[q] \in Locked
    <3>1. phase[o] \notin Locked
      BY <1>1, <2>2, OneInside
    <3>2. UNCHANGED <<archive, tombs>>
      BY <3>1, Writes DEF Merge, Drop, Clear, Entomb, Sweep, Locked
    <3> QED
      BY <1>1, <2>1, <3>2 DEF ReadsAreCurrent
  <2>3. CASE phase[q] \notin Locked
    BY <2>1, <2>3 DEF Locked
  <2> QED
    BY <2>2, <2>3
<1> QED
  BY <1>3, <1>4, <1>5

-----------------------------------------------------------------------------
(* Versions and the mark of the tenant *)

\* The old file counts as long as nobody has copied it.
LEMMA StepMarked ==
  ASSUME TypeOK, StepsFit, Marked, NEW o \in Ops, Step(o)
  PROVE  Marked'
<1>1. CASE UNCHANGED <<published, migrated>>
  BY <1>1 DEF Marked
<1>2. CASE Publish(o) \/ Migrate(o)
  BY <1>2 DEF Marked, Publish, Migrate
<1>3. CASE Unpublish(o)
  <2>1. CASE migrated
    BY <1>3, <2>1 DEF Unpublish, Marked
  <2>2. CASE ~migrated
    <3>1. published = Nothing
      BY <2>2 DEF Marked
    <3>2. published' = Nothing
      BY <1>3, <3>1 DEF Unpublish, Nothing
    <3> QED
      BY <3>2 DEF Marked, Nothing
  <2> QED
    BY <2>1, <2>2
<1> QED
  BY <1>1, <1>2, <1>3, Writes

LEMMA KnownType == TypeOK => Known \in Versions
BY DEF TypeOK, Known

LEMMA StepPositive ==
  ASSUME TypeOK, StepsFit, Positive, NEW o \in Ops, Step(o)
  PROVE  Positive'
<1>0. /\ \A p \in vectors \cup archive \cup catalog : p[2] > 0
      /\ phase[o] \notin {"clearing", "entombing", "sweeping"} => \A p \in buf[o] : p[2] > 0
      /\ phase[o] \in Numbered => ver[o] > 0
      /\ phase[o] \in Numbered => Target(o)[2] > 0
  BY DEF Positive, Target
<1>1. \A p \in vectors' \cup archive' \cup catalog' : p[2] > 0
  <2>1. \A p \in vectors' : p[2] > 0
    BY <1>0, Writes DEF Index, Erase, EraseByTool, Reset, Upsert, Numbered
  <2>2. \A p \in archive' : p[2] > 0
    BY <1>0, Writes DEF Merge, Drop, Numbered
  <2>3. \A p \in catalog' : p[2] > 0
    BY <1>0, Writes DEF Catalog, Recatalog, Uncatalog, Numbered
  <2> QED
    BY <2>1, <2>2, <2>3
<1>2. ASSUME NEW q \in Ops
      PROVE  \A p \in base'[q] : p[2] > 0
  <2>1. CASE Start(o) /\ q = o
    <3>1. PICK j \in Jobs : base' = [base EXCEPT ![o] =
             IF j.kind = "ingest" THEN {p \in archive \cup Rows(published) : p[1] = j.doc}
             ELSE IF j.kind = "search" THEN Rows(Known) \cap vectors
             ELSE {}]
      BY <2>1 DEF Start
    <3>2. \A p \in archive \cup Rows(published) \cup vectors : p[2] > 0
      BY <1>0, RowsAre DEF TypeOK
    <3> QED
      BY <2>1, <3>1, <3>2 DEF TypeOK
  <2>2. CASE ~(Start(o) /\ q = o)
    <3>1. base'[q] = base[q] \/ base'[q] = {}
      BY <2>2, OthersKeep
    <3> QED
      BY <3>1 DEF Positive
  <2> QED
    BY <2>1, <2>2
<1>3. phase'[o] \notin {"clearing", "entombing", "sweeping"} => \A p \in buf'[o] : p[2] > 0
  <2> USE DEF TypeOK, Go, Read, Forget, stores
  <2>1. CASE Load(o) \/ Migrate(o)
    <3>1. \A versions \in Versions : \A p \in Rows(versions) : p[2] > 0
      BY RowsAre
    <3> QED
      BY <1>0, <2>1, <3>1 DEF Load, Migrate, Loaded, Loading, At
  <2>2. CASE Start(o) \/ Number(o) \/ Index(o) \/ ReadArchive(o) \/ Merge(o) \/ ReadTombs(o)
             \/ Clear(o) \/ Publish(o) \/ Catalog(o) \/ Fail(o)
    BY <1>0, <2>2 DEF Start, Number, Index, ReadArchive, Merge, ReadTombs, Clear, Publish,
                      Catalog, Fail, At, local
  <2>3. CASE List(o) \/ FindSource(o) \/ Recatalog(o) \/ Search(o) \/ Collect(o)
             \/ Reset(o) \/ Upsert(o) \/ Relist(o)
    BY <1>0, <2>3 DEF List, FindSource, Recatalog, Search, Collect, Live, Reset, Upsert,
                      Relist, At, local
  <2>4. CASE Erase(o) \/ EraseByTool(o) \/ Unpublish(o) \/ Delist(o) \/ Mark(o) \/ Entomb(o)
             \/ Purge(o) \/ Drop(o) \/ Unmark(o) \/ Sweep(o) \/ Uncatalog(o)
    BY <1>0, <2>4 DEF Erase, EraseByTool, Unpublish, Delist, Mark, Entomb, Purge, Drop,
                      Unmark, Sweep, Uncatalog, At, local
  <2> QED
    BY <2>1, <2>2, <2>3, <2>4 DEF Step
<1>4. phase'[o] \in Numbered \/ (phase'[o] = "done" /\ job'[o].kind = "ingest") => ver'[o] > 0
  <2> USE DEF TypeOK, Go, Numbered
  <2>1. CASE Load(o) \/ Migrate(o)
    <3>1. \A versions \in Versions : Loaded(o, versions) /\ phase[o] = "numbering" => ver'[o] > 0
      <4> SUFFICES ASSUME NEW versions \in Versions, Loaded(o, versions),
                          phase[o] = "numbering"
                   PROVE  ver'[o] > 0
        OBVIOUS
      <4>1. versions[job[o].doc] \in Nat /\ ver[o] \in Nat
        BY JobsAre DEF Versions
      <4>2. ver'[o] = 1 + Maximum(ver[o], versions[job[o].doc])
        BY DEF Loaded, At
      <4> QED
        BY <4>1, <4>2 DEF Maximum
    <3>2. \E versions \in Versions :
             Loaded(o, versions) \/ UNCHANGED <<phase, ver, buf>>
      BY <2>1 DEF Load, Migrate
    <3>3. UNCHANGED job /\ phase[o] \notin Numbered /\ phase[o] # "done"
      BY <2>1, NothingIs DEF Load, Migrate, Loading, Loaded, At
    <3>4. phase[o] # "numbering" => phase'[o] \notin Numbered
             /\ (phase'[o] = "done" => job[o].kind # "ingest")
      BY <3>2, <3>3, KindsAt DEF Loaded, At
    <3>5. phase'[o] = "done" => phase[o] # "numbering"
      BY <3>2, <3>3 DEF Loaded, At
    <3>6. phase'[o] \in Numbered /\ phase[o] = "numbering" =>
             \E versions \in Versions : Loaded(o, versions)
      BY <3>2
    <3> QED
      BY <3>1, <3>3, <3>4, <3>5, <3>6
  <2>2. CASE Number(o)
    BY <2>2, JobsAre DEF Number, At
  <2>3. CASE Start(o) \/ Index(o) \/ ReadArchive(o) \/ Merge(o) \/ ReadTombs(o)
             \/ Clear(o) \/ Publish(o) \/ Catalog(o) \/ Fail(o)
    BY <1>0, <2>3 DEF Start, Index, ReadArchive, Merge, ReadTombs, Clear, Publish,
                      Catalog, Fail, local
  <2>4. CASE List(o) \/ FindSource(o) \/ Recatalog(o) \/ Search(o) \/ Collect(o)
             \/ Reset(o) \/ Upsert(o) \/ Relist(o)
    BY <2>4, KindsAt DEF List, FindSource, Recatalog, Search, Collect, Reset, Upsert, Relist, At
  <2>5. CASE Erase(o) \/ EraseByTool(o) \/ Unpublish(o) \/ Delist(o) \/ Mark(o) \/ Entomb(o)
             \/ Purge(o) \/ Drop(o) \/ Unmark(o) \/ Sweep(o) \/ Uncatalog(o)
    BY <2>5, KindsAt DEF Erase, EraseByTool, Unpublish, Delist, Mark, Entomb, Purge, Drop,
                      Unmark, Sweep, Uncatalog, At
  <2> QED
    BY <2>1, <2>2, <2>3, <2>4, <2>5 DEF Step
<1>5. \A q \in Ops \ {o} :
        /\ phase'[q] \notin {"clearing", "entombing", "sweeping"} => \A p \in buf'[q] : p[2] > 0
        /\ phase'[q] \in Numbered \/ (phase'[q] = "done" /\ job'[q].kind = "ingest") =>
             ver'[q] > 0
  BY OthersKeep DEF Positive, At
<1> QED
  BY <1>1, <1>2, <1>3, <1>4, <1>5 DEF Positive, At

-----------------------------------------------------------------------------
(* Who runs while a promise is kept *)

LEMMA StepApart ==
  ASSUME TypeOK, StepsFit, Apart, NEW o \in Ops, Step(o)
  PROVE  Apart'
<1>1. CASE Start(o)
  <2>1. PICK j \in Jobs :
          /\ job' = [job EXCEPT ![o] = j]
          /\ clean' = [r \in Ops |->
               IF r = o THEN /\ j.kind \notin {"list", "rebuild"}
                             /\ \A q \in {q \in Ops : Active(q)} : ~Disturbs(job[q], j)
               ELSE /\ clean[r] /\ ~Voids(j, job[r])
                    /\ r \in {q \in Ops : Active(q)} => ~Disturbs(j, job[r])]
    BY <1>1 DEF Start
  <2>2. /\ phase[o] = "idle" /\ phase' = [phase EXCEPT ![o] = "new"]
    BY <1>1 DEF Start, Go
  <2>3. \A q \in Ops \ {o} : phase'[q] = phase[q] /\ job'[q] = job[q]
    BY <2>1, <2>2 DEF TypeOK
  <2>4. job'[o] = j /\ phase'[o] = "new"
    BY <2>1, <2>2 DEF TypeOK
  <2>5. \A q \in Ops \ {o} : Active(q)' = Active(q)
    BY <2>3 DEF Active
  <2>6. ASSUME NEW r \in Ops, clean'[r]
        PROVE  /\ phase'[r] \notin {"idle", "failed"}
               /\ job'[r].kind \notin {"list", "rebuild"}
    BY <2>1, <2>3, <2>4, <2>6 DEF Apart
  <2>7. ASSUME NEW r \in Ops, NEW q \in Ops, clean'[r], Active(q)', q # r
        PROVE  ~Voids(job'[q], job'[r]) /\ (Active(r)' => ~Disturbs(job'[q], job'[r]))
    <3>1. CASE r = o
      <4>1. Active(q) /\ ~Disturbs(job[q], j)
        BY <2>1, <2>5, <2>7, <3>1
      <4> QED
        BY <2>3, <2>4, <2>7, <3>1, <4>1 DEF Disturbs
    <3>2. CASE r # o /\ q = o
      <4>1. ~Voids(j, job[r]) /\ (Active(r) => ~Disturbs(j, job[r]))
        BY <2>1, <2>7, <3>2
      <4> QED
        BY <2>3, <2>4, <2>5, <3>2, <4>1
    <3>3. CASE r # o /\ q # o
      <4>1. clean[r] /\ Active(q)
        BY <2>1, <2>5, <2>7, <3>3
      <4> QED
        BY <2>3, <2>5, <2>7, <3>3, <4>1 DEF Apart
    <3> QED
      BY <3>1, <3>2, <3>3
  <2> QED
    BY <2>6, <2>7 DEF Apart
<1>2. CASE ~Start(o)
  <2>1. /\ job' = job /\ phase[o] # "idle"
        /\ \A q \in Ops : clean'[q] => clean[q]
        /\ \A q \in Ops \ {o} : phase'[q] = phase[q]
    BY <1>2, OthersKeep
  <2>2. Active(o)' => Active(o)
    <3>1. phase[o] \notin {"done", "failed"}
      <4>1. CASE Load(o) \/ Migrate(o)
        BY <4>1 DEF Load, Migrate, Loading, Loaded, At
      <4>2. CASE Number(o) \/ Index(o) \/ ReadArchive(o) \/ Merge(o) \/ ReadTombs(o)
                 \/ Clear(o) \/ Publish(o) \/ Catalog(o) \/ Fail(o)
        BY <4>2 DEF Number, Index, ReadArchive, Merge, ReadTombs, Clear, Publish, Catalog,
                    Fail, Active, At
      <4>3. CASE List(o) \/ FindSource(o) \/ Recatalog(o) \/ Search(o) \/ Collect(o)
                 \/ Reset(o) \/ Upsert(o) \/ Relist(o)
        BY <4>3 DEF List, FindSource, Recatalog, Search, Collect, Reset, Upsert, Relist, At
      <4>4. CASE Erase(o) \/ EraseByTool(o) \/ Unpublish(o) \/ Delist(o) \/ Mark(o)
                 \/ Entomb(o) \/ Purge(o) \/ Drop(o) \/ Unmark(o) \/ Sweep(o) \/ Uncatalog(o)
        BY <4>4 DEF Erase, EraseByTool, Unpublish, Delist, Mark, Entomb, Purge, Drop,
                    Unmark, Sweep, Uncatalog, At
      <4> QED
        BY <1>2, <4>1, <4>2, <4>3, <4>4 DEF Step
    <3> QED
      BY <2>1, <3>1 DEF Active
  <2>3. clean'[o] => phase'[o] \notin {"idle", "failed"}
    <3>1. phase'[o] # "idle"
      BY <2>1, StepTypes DEF TypeOK
    <3>2. phase'[o] = "failed" => Fail(o)
      <4>1. CASE Load(o) \/ Migrate(o)
        BY <4>1 DEF Load, Migrate, Loading, Loaded, At, Go, TypeOK
      <4>2. CASE Number(o) \/ Index(o) \/ ReadArchive(o) \/ Merge(o) \/ ReadTombs(o)
                 \/ Clear(o) \/ Publish(o) \/ Catalog(o)
        BY <4>2 DEF Number, Index, ReadArchive, Merge, ReadTombs, Clear, Publish, Catalog,
                    Go, TypeOK
      <4>3. CASE List(o) \/ FindSource(o) \/ Recatalog(o) \/ Search(o) \/ Collect(o)
                 \/ Reset(o) \/ Upsert(o) \/ Relist(o)
        BY <4>3 DEF List, FindSource, Recatalog, Search, Collect, Reset, Upsert, Relist,
                    Go, TypeOK
      <4>4. CASE Erase(o) \/ EraseByTool(o) \/ Unpublish(o) \/ Delist(o) \/ Mark(o)
                 \/ Entomb(o) \/ Purge(o) \/ Drop(o) \/ Unmark(o) \/ Sweep(o) \/ Uncatalog(o)
        BY <4>4 DEF Erase, EraseByTool, Unpublish, Delist, Mark, Entomb, Purge, Drop,
                    Unmark, Sweep, Uncatalog, Go, TypeOK
      <4> QED
        BY <1>2, <4>1, <4>2, <4>3, <4>4 DEF Step
    <3>3. Fail(o) => ~clean'[o]
      BY DEF Fail, TypeOK
    <3> QED
      BY <3>1, <3>2, <3>3
  <2>4. \A q \in Ops : Active(q)' => Active(q)
    BY <2>1, <2>2 DEF Active
  <2>5. \A q \in Ops : clean'[q] => /\ phase'[q] \notin {"idle", "failed"}
                                    /\ job'[q].kind \notin {"list", "rebuild"}
    BY <2>1, <2>3 DEF Apart
  <2> QED
    BY <2>1, <2>4, <2>5 DEF Apart
<1> QED
  BY <1>1, <1>2

-----------------------------------------------------------------------------
(* What an operation that moves has read *)

\* Only an operation that has begun and not ended moves.
LEMMA MovesWhileActive ==
  ASSUME NEW o \in Ops, Step(o), ~Start(o)
  PROVE  Active(o)
<1>1. CASE Load(o) \/ Migrate(o)
  BY <1>1 DEF Load, Migrate, Loading, Loaded, At, Active
<1>2. CASE Number(o) \/ Index(o) \/ ReadArchive(o) \/ Merge(o) \/ ReadTombs(o)
           \/ Clear(o) \/ Publish(o) \/ Catalog(o) \/ Fail(o)
  BY <1>2 DEF Number, Index, ReadArchive, Merge, ReadTombs, Clear, Publish, Catalog,
              Fail, Active, At
<1>3. CASE List(o) \/ FindSource(o) \/ Recatalog(o) \/ Search(o) \/ Collect(o)
           \/ Reset(o) \/ Upsert(o) \/ Relist(o)
  BY <1>3 DEF List, FindSource, Recatalog, Search, Collect, Reset, Upsert, Relist, At, Active
<1>4. CASE Erase(o) \/ EraseByTool(o) \/ Unpublish(o) \/ Delist(o) \/ Mark(o)
           \/ Entomb(o) \/ Purge(o) \/ Drop(o) \/ Unmark(o) \/ Sweep(o) \/ Uncatalog(o)
  BY <1>4 DEF Erase, EraseByTool, Unpublish, Delist, Mark, Entomb, Purge, Drop,
              Unmark, Sweep, Uncatalog, At, Active
<1> QED
  BY <1>1, <1>2, <1>3, <1>4 DEF Step

LEMMA StepUnread ==
  ASSUME TypeOK, StepsFit, Unread, NEW o \in Ops, Step(o)
  PROVE  Unread'
<1>1. \A q \in Ops \ {o} : Loading(q)' = Loading(q)
  BY OthersKeep DEF Loading, At
<1>2. phase'[o] \in {"idle", "new"} => buf'[o] = {}
  <2> USE DEF TypeOK, Go, Read, Forget, Unread, stores
  <2>1. CASE Start(o) \/ Load(o) \/ Migrate(o)
    BY <2>1 DEF Start, Load, Migrate, Loaded, At
  <2>2. CASE Number(o) \/ Index(o) \/ ReadArchive(o) \/ Merge(o) \/ ReadTombs(o)
             \/ Clear(o) \/ Publish(o) \/ Catalog(o) \/ Fail(o)
    BY <2>2 DEF Number, Index, ReadArchive, Merge, ReadTombs, Clear, Publish, Catalog, Fail
  <2>3. CASE List(o) \/ FindSource(o) \/ Recatalog(o) \/ Search(o) \/ Collect(o)
             \/ Reset(o) \/ Upsert(o) \/ Relist(o)
    BY <2>3 DEF List, FindSource, Recatalog, Search, Collect, Reset, Upsert, Relist
  <2>4. CASE Erase(o) \/ EraseByTool(o) \/ Unpublish(o) \/ Delist(o) \/ Mark(o)
             \/ Entomb(o) \/ Purge(o) \/ Drop(o) \/ Unmark(o) \/ Sweep(o) \/ Uncatalog(o)
    BY <2>4 DEF Erase, EraseByTool, Unpublish, Delist, Mark, Entomb, Purge, Drop,
                Unmark, Sweep, Uncatalog
  <2> QED
    BY <2>1, <2>2, <2>3, <2>4 DEF Step
<1>3. pending'[o] # Nothing => Loading(o)'
  <2> USE DEF TypeOK, Unread, Loading, At, local
  <2>1. CASE Load(o) \/ Migrate(o) \/ Fail(o)
    BY <2>1, NothingIs DEF Load, Migrate, Fail
  <2>2. CASE Start(o)
    BY <2>2 DEF Start
  <2>3. CASE Number(o) \/ Index(o) \/ ReadArchive(o) \/ Merge(o) \/ ReadTombs(o)
             \/ Clear(o) \/ Publish(o) \/ Catalog(o)
    BY <2>3 DEF Number, Index, ReadArchive, Merge, ReadTombs, Clear, Publish, Catalog
  <2>4. CASE List(o) \/ FindSource(o) \/ Recatalog(o) \/ Search(o) \/ Collect(o)
             \/ Reset(o) \/ Upsert(o) \/ Relist(o)
    BY <2>4 DEF List, FindSource, Recatalog, Search, Collect, Reset, Upsert, Relist
  <2>5. CASE Erase(o) \/ EraseByTool(o) \/ Unpublish(o) \/ Delist(o) \/ Mark(o)
             \/ Entomb(o) \/ Purge(o) \/ Drop(o) \/ Unmark(o) \/ Sweep(o) \/ Uncatalog(o)
    BY <2>5 DEF Erase, EraseByTool, Unpublish, Delist, Mark, Entomb, Purge, Drop,
                Unmark, Sweep, Uncatalog
  <2> QED
    BY <2>1, <2>2, <2>3, <2>4, <2>5 DEF Step
<1> QED
  BY <1>1, <1>2, <1>3, OthersKeep DEF Unread

\* A registry changes for the worse only through a deletion of that document or
\* a late copy of the old file.
LEMMA PublishedSteps ==
  ASSUME TypeOK, StepsFit, Marked, NEW o \in Ops, Step(o), NEW d \in Docs
  PROVE  \/ published'[d] >= published[d]
         \/ /\ Unpublish(o) /\ job[o].doc = d /\ published'[d] = 0
            /\ job[o].version \in {0, published[d]}
         \/ "rewound" \in faults'
<1>0. published[d] \in Nat
  BY DEF TypeOK, Versions
<1>1. CASE UNCHANGED published
  BY <1>0, <1>1
<1>2. CASE Publish(o)
  <2>1. ver[o] \in Nat
    BY DEF TypeOK
  <2>2. published'[d] = published[d] \/ published'[d] = Maximum(published[d], ver[o])
    BY <1>2 DEF Publish, TypeOK, Versions
  <2> QED
    BY <1>0, <2>1, <2>2 DEF Maximum
<1>3. CASE Migrate(o)
  <2>1. CASE published' = published
    BY <1>0, <2>1
  <2>2. CASE migrated /\ published' # published
    BY <1>3, <2>2 DEF Migrate
  <2>3. CASE ~migrated
    <3>1. published[d] = 0
      BY <2>3, NothingIs DEF Marked
    <3>2. published'[d] \in Nat
      BY <1>3 DEF Migrate, TypeOK, Versions
    <3> QED
      BY <3>1, <3>2
  <2> QED
    BY <2>1, <2>2, <2>3
<1>4. CASE Unpublish(o)
  BY <1>0, <1>4 DEF Unpublish, TypeOK, Versions
<1> QED
  BY <1>1, <1>2, <1>3, <1>4, Writes

\* A copy of the old file that is not late: nobody had copied it, or nothing
\* changes.
LEMMA TimelyCopies ==
  ASSUME TypeOK, Marked, NEW o \in Ops, Migrate(o), "rewound" \notin faults'
  PROVE  \/ published' = published /\ migrated
         \/ /\ ~migrated /\ published = Nothing
            /\ pending[o] = legacy /\ published' = legacy
<1>1. CASE migrated
  BY <1>1 DEF Migrate
<1>2. CASE ~migrated
  <2>1. published = Nothing
    BY <1>2 DEF Marked
  <2>2. pending[o] \in Versions /\ legacy \in Versions
    BY DEF TypeOK
  <2>3. published' = [d \in Docs |-> pending[o][d]]
    <3>1. \A d \in Docs : pending[o][d] \in Nat /\ published[d] = 0
      BY <2>1, <2>2, NothingIs DEF Versions
    <3>2. published' = [d \in Docs |-> IF pending[o][d] > 0 THEN pending[o][d]
                                       ELSE published[d]]
      BY DEF Migrate
    <3> QED
      BY <3>1, <3>2
  <2>4. published' = pending[o]
    BY <2>2, <2>3 DEF Versions
  <2>5. published' # published
    BY <2>1, <2>4 DEF Migrate
  <2>6. pending[o] = legacy
    BY <2>5 DEF Migrate
  <2> QED
    BY <1>2, <2>1, <2>4, <2>6
<1> QED
  BY <1>1, <1>2

-----------------------------------------------------------------------------
(* Promises *)

\* While a promise is kept, whoever moves does not void it.
LEMMA NobodyVoids ==
  ASSUME TypeOK, Apart, NEW o \in Ops, Step(o), ~Start(o), NEW r \in Ops, clean'[r]
  PROVE  /\ clean[r] /\ job'[r] = job[r]
         /\ r # o => /\ phase'[r] = phase[r] /\ ver'[r] = ver[r]
                     /\ ~Voids(job[o], job[r])
                     /\ Active(r) => ~Disturbs(job[o], job[r])
<1>1. Active(o)
  BY MovesWhileActive
<1> QED
  BY <1>1, OthersKeep DEF Apart

\* A start changes no store.
LEMMA Starts ==
  ASSUME NEW o \in Ops, Start(o)
  PROVE  UNCHANGED <<vectors, archive, tombs, catalog, published, migrated, legacy,
                     ver, buf, pending, faults>>
BY DEF Start, stores, registry

\* Rewrites of a file that lose nothing start from the file.
LEMMA Untorn ==
  ASSUME NEW o \in Ops, NEW file, Overwrite(o, file), "torn" \notin faults'
  PROVE  buf[o] = file
BY DEF Overwrite

\* The moves of each kind of operation, after its start.
LEMMA MovesOf ==
  ASSUME TypeOK, StepsFit, NEW o \in Ops, Step(o), ~Start(o)
  PROVE  /\ job[o].kind = "ingest" =>
              \/ Number(o) \/ Load(o) \/ Migrate(o) \/ Index(o) \/ ReadArchive(o) \/ Merge(o)
              \/ ReadTombs(o) \/ Clear(o) \/ Publish(o) \/ Catalog(o) \/ Fail(o)
         /\ job[o].kind = "search" => Load(o) \/ Migrate(o) \/ Search(o) \/ Fail(o)
         /\ job[o].kind = "delete" =>
              \/ FindSource(o) \/ Load(o) \/ Migrate(o) \/ Recatalog(o) \/ Erase(o)
              \/ Unpublish(o) \/ Mark(o) \/ Entomb(o) \/ Purge(o) \/ Drop(o) \/ Unmark(o)
              \/ Sweep(o) \/ Uncatalog(o) \/ Fail(o)
         /\ job[o].kind = "cli" =>
              EraseByTool(o) \/ Delist(o) \/ Mark(o) \/ Entomb(o) \/ Fail(o)
<1>1. CASE Load(o) \/ Migrate(o)
  BY <1>1, KindsAt DEF Load, Migrate, Loading, Loaded, At
<1>2. CASE Number(o) \/ Index(o) \/ ReadArchive(o) \/ Merge(o) \/ ReadTombs(o)
           \/ Clear(o) \/ Publish(o) \/ Catalog(o) \/ Fail(o)
  BY <1>2, KindsAt DEF Number, Index, ReadArchive, Merge, ReadTombs, Clear, Publish, Catalog, At
<1>3. CASE List(o) \/ FindSource(o) \/ Recatalog(o) \/ Search(o) \/ Collect(o)
           \/ Reset(o) \/ Upsert(o) \/ Relist(o)
  BY <1>3, KindsAt DEF List, FindSource, Recatalog, Search, Collect, Reset, Upsert, Relist, At
<1>4. CASE Erase(o) \/ EraseByTool(o) \/ Unpublish(o) \/ Delist(o) \/ Mark(o)
           \/ Entomb(o) \/ Purge(o) \/ Drop(o) \/ Unmark(o) \/ Sweep(o) \/ Uncatalog(o)
  BY <1>4, KindsAt DEF Erase, EraseByTool, Unpublish, Delist, Mark, Entomb, Purge, Drop,
              Unmark, Sweep, Uncatalog, At
<1> QED
  BY <1>1, <1>2, <1>3, <1>4 DEF Step

\* An ingestion that has its version keeps it.
LEMMA IngestionMoves ==
  ASSUME TypeOK, StepsFit, NEW o \in Ops, Step(o), ~Start(o), job[o].kind = "ingest",
         phase'[o] \in (Numbered \ {"indexing"}) \cup {"done"}
  PROVE  /\ ver'[o] = ver[o] /\ phase[o] \in Numbered
         /\ \/ Index(o) \/ ReadArchive(o) \/ Merge(o) \/ ReadTombs(o) \/ Clear(o)
            \/ Publish(o) \/ Catalog(o)
<1> USE DEF TypeOK, Go, Numbered
<1>1. CASE Number(o) \/ Fail(o)
  BY <1>1 DEF Number, Fail
<1>2. CASE Load(o) \/ Migrate(o)
  BY <1>2, KindsAt DEF Load, Migrate, Loading, Loaded, At
<1>3. CASE Index(o) \/ ReadArchive(o) \/ Merge(o) \/ ReadTombs(o) \/ Clear(o)
           \/ Publish(o) \/ Catalog(o)
  BY <1>3 DEF Index, ReadArchive, Merge, ReadTombs, Clear, Publish, Catalog, local
<1> QED
  BY <1>1, <1>2, <1>3, MovesOf

LEMMA StepIngestionKept ==
  ASSUME TypeOK, StepsFit, Marked, Positive, Apart, IngestionKept, NEW o \in Ops, Step(o)
  PROVE  IngestionKept'
<1> SUFFICES ASSUME NEW r \in Ops, clean'[r], job'[r].kind = "ingest"
             PROVE  Ingested(r)'
  BY DEF IngestionKept
<1>1. CASE Start(o) /\ r = o
  <2>1. phase'[r] = "new"
    BY <1>1 DEF Start, Go, TypeOK
  <2> QED
    BY <2>1 DEF Ingested, Numbered
<1>2. CASE Start(o) /\ r # o
  <2>1. /\ clean[r] /\ phase'[r] = phase[r] /\ job'[r] = job[r]
        /\ UNCHANGED <<vectors, archive, tombs, catalog, published, ver, buf, faults>>
    BY <1>2, OthersKeep, Starts
  <2>2. Ingested(r)
    BY <2>1 DEF IngestionKept
  <2>3. \A q \in Ops : phase[q] = "upserting" => phase'[q] = "upserting"
    BY <1>2, OthersKeep DEF Start
  <2> QED
    BY <2>1, <2>2, <2>3 DEF Ingested, Target
<1>3. CASE ~Start(o)
  <2>1. /\ clean[r] /\ job'[r] = job[r] /\ job[r] \in Jobs /\ faults \subseteq faults'
        /\ r # o => /\ phase'[r] = phase[r] /\ ver'[r] = ver[r] /\ buf'[r] = buf[r]
                    /\ ~Voids(job[o], job[r])
    BY <1>3, NobodyVoids, OthersKeep DEF Apart, TypeOK
  <2>2. Ingested(r) /\ job[r].kind = "ingest"
    BY <2>1 DEF IngestionKept
  <2>3. job[o] \in Jobs /\ job[o].kind \in Kinds
    BY <1>3, MovesWhileActive, JobsAre DEF Active, TypeOK
  <2>a. r = o /\ phase'[r] \in (Numbered \ {"indexing"}) \cup {"done"} =>
           /\ Target(r)' = Target(r) /\ phase[r] \in Numbered
           /\ \/ Index(r) \/ ReadArchive(r) \/ Merge(r) \/ ReadTombs(r) \/ Clear(r)
              \/ Publish(r) \/ Catalog(r)
    BY <1>3, <2>1, <2>2, IngestionMoves DEF Target
  <2>b. r # o => Target(r)' = Target(r)
    BY <2>1 DEF Target
\* A deletion that moves is of another document.
  <2>4. r # o /\ job[o].kind \in {"delete", "cli"} => job[o].doc # job[r].doc
    BY <2>1, <2>2 DEF Voids, Deletion
\* Nobody else adds a tombstone of the document.
  <2>c. r # o /\ "torn" \notin faults' =>
          \A t \in tombs' : Restores(Target(r), t) => t \in tombs
    <3> SUFFICES ASSUME r # o, "torn" \notin faults'
                 PROVE  \A t \in tombs' : Restores(Target(r), t) => t \in tombs
      OBVIOUS
    <3>1. CASE Entomb(o)
      <4>1. job[o].doc # job[r].doc
        BY <2>4, <3>1, KindsAt DEF Entomb
      <4> QED
        BY <3>1, <4>1, Untorn DEF Entomb, Restores, Target
    <3>2. CASE Clear(o)
      BY <3>2, Untorn DEF Clear
    <3>3. CASE Sweep(o)
      BY <3>3, Untorn DEF Sweep
    <3> QED
      BY <3>1, <3>2, <3>3, Writes
  <2>5. /\ phase'[r] \in (Numbered \ {"indexing"}) \cup {"done"} /\ "dropped" \notin faults'
        => \/ Target(r)' \in vectors'
           \/ \E q \in Ops : phase'[q] = "upserting" /\ Target(r)' \in buf'[q]
    <3> SUFFICES ASSUME phase'[r] \in (Numbered \ {"indexing"}) \cup {"done"},
                        "dropped" \notin faults'
                 PROVE  \/ Target(r)' \in vectors'
                        \/ \E q \in Ops : phase'[q] = "upserting" /\ Target(r)' \in buf'[q]
      OBVIOUS
    <3>1. CASE r = o /\ Index(r)
      BY <2>a, <3>1 DEF Index
    <3>2. CASE ~(r = o /\ Index(r))
      <4>1. phase[r] \in (Numbered \ {"indexing"}) \cup {"done"}
        BY <2>1, <2>a, <3>2 DEF ReadArchive, Merge, ReadTombs, Clear, Publish, Catalog, Numbered
      <4>2. Target(r)' = Target(r)
        BY <2>a, <2>b
      <4>3. \/ Target(r) \in vectors
            \/ \E q \in Ops : phase[q] = "upserting" /\ Target(r) \in buf[q]
        BY <2>1, <2>2, <4>1 DEF Ingested
      <4>4. CASE Target(r) \in vectors
        <5>1. CASE Reset(o)
          BY <2>1, <4>2, <4>4, <5>1 DEF Reset, Go, TypeOK, local
        <5>2. CASE Erase(o) \/ EraseByTool(o)
          <6>1. r # o /\ job[o].doc # job[r].doc
            BY <2>2, <2>4, <5>2, KindsAt DEF Erase, EraseByTool, At
          <6>2. ~Covers(job[o], Target(r))
            BY <6>1 DEF Covers, Target
          <6> QED
            BY <4>2, <4>4, <5>2, <6>2 DEF Erase, EraseByTool
        <5>3. CASE UNCHANGED vectors \/ Index(o) \/ Upsert(o)
          BY <4>2, <4>4, <5>3 DEF Index, Upsert
        <5> QED
          BY <5>1, <5>2, <5>3, Writes
      <4>5. ASSUME NEW q \in Ops, phase[q] = "upserting", Target(r) \in buf[q]
            PROVE  \/ Target(r)' \in vectors'
                   \/ \E x \in Ops : phase'[x] = "upserting" /\ Target(r)' \in buf'[x]
        <5>1. CASE q # o
          BY <4>2, <4>5, <5>1, OthersKeep
        <5>2. CASE q = o
          <6>1. Upsert(o) \/ Fail(o)
            <7>1. job[o].kind = "rebuild"
              BY <4>5, <5>2, KindsAt
            <7>2. CASE Load(o) \/ Migrate(o)
              BY <4>5, <5>2, <7>2 DEF Load, Migrate, Loading, Loaded, At
            <7>3. CASE Number(o) \/ Index(o) \/ ReadArchive(o) \/ Merge(o) \/ ReadTombs(o)
                       \/ Clear(o) \/ Publish(o) \/ Catalog(o)
              BY <4>5, <5>2, <7>3 DEF Number, Index, ReadArchive, Merge, ReadTombs, Clear,
                                      Publish, Catalog, At
            <7>4. CASE List(o) \/ FindSource(o) \/ Recatalog(o) \/ Search(o) \/ Collect(o)
                       \/ Reset(o) \/ Relist(o)
              BY <4>5, <5>2, <7>4 DEF List, FindSource, Recatalog, Search, Collect, Reset,
                                      Relist, At
            <7>5. CASE Erase(o) \/ EraseByTool(o) \/ Unpublish(o) \/ Delist(o) \/ Mark(o)
                       \/ Entomb(o) \/ Purge(o) \/ Drop(o) \/ Unmark(o) \/ Sweep(o)
                       \/ Uncatalog(o)
              BY <4>5, <5>2, <7>5 DEF Erase, EraseByTool, Unpublish, Delist, Mark, Entomb,
                                      Purge, Drop, Unmark, Sweep, Uncatalog, At
            <7> QED
              BY <1>3, <7>2, <7>3, <7>4, <7>5 DEF Step
          <6>2. CASE Upsert(o)
            BY <4>2, <4>5, <5>2, <6>2 DEF Upsert
          <6>3. CASE Fail(o)
            <7>1. buf[o] \subseteq vectors /\ UNCHANGED vectors
              BY <4>5, <5>2, <6>3 DEF Fail, stores
            <7> QED
              BY <4>2, <4>5, <5>2, <7>1
          <6> QED
            BY <6>1, <6>2, <6>3
        <5> QED
          BY <5>1, <5>2
      <4> QED
        BY <4>3, <4>4, <4>5
    <3> QED
      BY <3>1, <3>2
  <2>6. phase'[r] \in {"restoring", "clearing", "publishing", "cataloging", "done"}
          /\ "torn" \notin faults' => Target(r)' \in archive'
    <3> SUFFICES ASSUME phase'[r] \in {"restoring", "clearing", "publishing", "cataloging",
                                        "done"},
                        "torn" \notin faults'
                 PROVE  Target(r)' \in archive'
      OBVIOUS
    <3>1. CASE r = o /\ Merge(r)
      BY <2>a, <3>1 DEF Merge, Numbered
    <3>2. CASE ~(r = o /\ Merge(r))
      <4>1. /\ phase[r] \in {"restoring", "clearing", "publishing", "cataloging", "done"}
            /\ Target(r)' = Target(r)
        BY <2>1, <2>a, <2>b, <3>2
           DEF Index, ReadArchive, ReadTombs, Clear, Publish, Catalog, Numbered, Go, TypeOK
      <4>2. Target(r) \in archive
        BY <2>1, <2>2, <4>1 DEF Ingested
      <4>3. CASE Merge(o)
        BY <4>1, <4>2, <4>3, Untorn DEF Merge
      <4>4. CASE Drop(o)
        <5>1. r # o /\ job[o].doc # job[r].doc
          BY <2>2, <2>4, <4>4, KindsAt DEF Drop
        <5>2. ~Covers(job[o], Target(r))
          BY <5>1 DEF Covers, Target
        <5> QED
          BY <4>1, <4>2, <4>4, <5>2, Untorn DEF Drop
      <4> QED
        BY <4>1, <4>2, <4>3, <4>4, Writes
    <3> QED
      BY <3>1, <3>2
  <2>7. phase'[r] = "clearing" /\ "torn" \notin faults' =>
          \A t \in tombs' : Restores(Target(r)', t) => t \in buf'[r]
    <3> SUFFICES ASSUME phase'[r] = "clearing", "torn" \notin faults'
                 PROVE  \A t \in tombs' : Restores(Target(r)', t) => t \in buf'[r]
      OBVIOUS
    <3>1. CASE r = o
      <4>1. ReadTombs(r)
        BY <2>a, <3>1 DEF Index, ReadArchive, Merge, ReadTombs, Clear, Publish, Catalog,
                          Numbered, Go, TypeOK
      <4> QED
        BY <4>1 DEF ReadTombs, Read, TypeOK, stores
    <3>2. CASE r # o
      <4>1. \A t \in tombs : Restores(Target(r), t) => t \in buf[r]
        BY <2>1, <2>2, <3>2 DEF Ingested
      <4>2. \A t \in tombs' : Restores(Target(r), t) => t \in tombs
        BY <2>c, <3>2
      <4> QED
        BY <2>1, <2>b, <3>2, <4>1, <4>2
    <3> QED
      BY <3>1, <3>2
  <2>8. phase'[r] \in {"publishing", "cataloging", "done"} /\ "torn" \notin faults' =>
          \A t \in tombs' : ~Restores(Target(r)', t)
    <3> SUFFICES ASSUME phase'[r] \in {"publishing", "cataloging", "done"},
                        "torn" \notin faults'
                 PROVE  \A t \in tombs' : ~Restores(Target(r)', t)
      OBVIOUS
    <3>1. CASE r = o /\ Clear(r)
      <4>1. \A t \in tombs : Restores(Target(r), t) => t \in buf[r]
        BY <2>1, <2>2, <3>1 DEF Ingested, Clear
      <4> QED
        BY <2>a, <3>1, <4>1 DEF Clear, Numbered
    <3>2. CASE ~(r = o /\ Clear(r))
      <4>1. /\ phase[r] \in {"publishing", "cataloging", "done"}
            /\ Target(r)' = Target(r)
        BY <2>1, <2>a, <2>b, <3>2
           DEF Index, ReadArchive, Merge, ReadTombs, Publish, Catalog, Numbered, Go, TypeOK
      <4>2. \A t \in tombs : ~Restores(Target(r), t)
        BY <2>1, <2>2, <4>1 DEF Ingested
      <4>3. CASE r = o
        BY <2>a, <3>2, <4>1, <4>2, <4>3
           DEF Index, ReadArchive, Merge, ReadTombs, Publish, Catalog, Numbered, stores
      <4>4. CASE r # o
        BY <2>c, <4>1, <4>2, <4>4
      <4> QED
        BY <4>3, <4>4
    <3> QED
      BY <3>1, <3>2
  <2>9. phase'[r] \in {"cataloging", "done"} /\ "rewound" \notin faults' =>
          published'[job'[r].doc] >= ver'[r]
    <3> SUFFICES ASSUME phase'[r] \in {"cataloging", "done"}, "rewound" \notin faults'
                 PROVE  published'[job[r].doc] >= ver'[r]
      BY <2>1
    <3>1. job[r].doc \in Docs /\ ver[r] \in Nat /\ published[job[r].doc] \in Nat
      BY <2>1, JobsAre DEF TypeOK, Versions
    <3>2. CASE r = o /\ Publish(r)
      <4>1. ver'[r] = ver[r] /\ published'[job[r].doc] = Maximum(published[job[r].doc], ver[r])
        BY <3>1, <3>2 DEF Publish, TypeOK, Versions, local
      <4> QED
        BY <3>1, <4>1 DEF Maximum
    <3>3. CASE ~(r = o /\ Publish(r))
      <4>1. phase[r] \in {"cataloging", "done"} /\ ver'[r] = ver[r]
        BY <2>1, <2>a, <2>b, <3>3
           DEF Index, ReadArchive, Merge, ReadTombs, Clear, Catalog, Numbered, Go, TypeOK,
               Target
      <4>2. published[job[r].doc] >= ver[r]
        BY <2>1, <2>2, <4>1 DEF Ingested
      <4>3. ~(Unpublish(o) /\ job[o].doc = job[r].doc)
        BY <2>2, <2>4, KindsAt DEF Unpublish
      <4>4. published'[job[r].doc] >= published[job[r].doc]
        BY <3>1, <4>3, PublishedSteps
      <4>5. published'[job[r].doc] \in Nat
        BY <3>1, StepTypes DEF TypeOK, Versions
      <4> QED
        BY <3>1, <4>1, <4>2, <4>4, <4>5
    <3> QED
      BY <3>2, <3>3
  <2>10. phase'[r] = "done" => Target(r)' \in catalog'
    <3> SUFFICES ASSUME phase'[r] = "done"
                 PROVE  Target(r)' \in catalog'
      OBVIOUS
    <3>1. CASE r = o
      <4>1. Catalog(r)
        BY <2>a, <3>1 DEF Index, ReadArchive, Merge, ReadTombs, Clear, Publish, Numbered, Go,
                          TypeOK
      <4> QED
        BY <2>a, <3>1, <4>1 DEF Catalog
    <3>2. CASE r # o
      <4>1. Target(r) \in catalog
        BY <2>1, <2>2, <3>2 DEF Ingested
      <4>2. CASE Uncatalog(o)
        <5>1. job[o].doc # job[r].doc
          BY <2>4, <3>2, <4>2, KindsAt DEF Uncatalog
        <5> QED
          BY <2>b, <3>2, <4>1, <4>2, <5>1 DEF Uncatalog, Covers, Target
      <4>3. CASE UNCHANGED catalog \/ Catalog(o) \/ Recatalog(o)
        BY <2>b, <3>2, <4>1, <4>3 DEF Catalog, Recatalog
      <4> QED
        BY <4>2, <4>3, Writes
    <3> QED
      BY <3>1, <3>2
  <2> QED
    BY <2>5, <2>6, <2>7, <2>8, <2>9, <2>10 DEF Ingested, Restores
<1> QED
  BY <1>1, <1>2, <1>3

\* A deletion that has taken its chunks away.
LEMMA DeletionMoves ==
  ASSUME TypeOK, StepsFit, NEW o \in Ops, Step(o), ~Start(o), Deletion(job[o]),
         phase'[o] \in Erased
  PROVE  \/ Erase(o) /\ phase'[o] = "unregistering"
         \/ EraseByTool(o) /\ phase'[o] = "delisting"
         \/ /\ phase[o] = "unregistering"
            /\ \/ Load(o) /\ UNCHANGED phase
               \/ Load(o) /\ Loaded(o, published) /\ phase'[o] = "unpublishing"
               \/ Migrate(o) /\ phase'[o] = "unpublishing"
         \/ Unpublish(o) /\ phase[o] = "unpublishing" /\ phase'[o] = "marking"
         \/ Delist(o) /\ phase[o] = "delisting" /\ phase'[o] = "marking"
         \/ Mark(o) /\ phase[o] = "marking" /\ phase'[o] = "entombing"
         \/ /\ Entomb(o) /\ phase[o] = "entombing"
            /\ phase'[o] = IF job[o].kind = "delete" THEN "purging" ELSE "done"
         \/ Purge(o) /\ phase[o] = "purging" /\ phase'[o] = "dropping"
         \/ Drop(o) /\ phase[o] = "dropping" /\ phase'[o] = "unmarking"
         \/ Unmark(o) /\ phase[o] = "unmarking" /\ phase'[o] = "sweeping"
         \/ Sweep(o) /\ phase[o] = "sweeping" /\ phase'[o] = "uncataloging"
         \/ Uncatalog(o) /\ phase[o] = "uncataloging" /\ phase'[o] = "done"
<1> USE DEF TypeOK, Go, Erased
<1>1. job[o].kind \in {"delete", "cli"}
  BY DEF Deletion
<1>2. CASE Load(o)
  <2>1. phase[o] \in {"resolving", "unregistering"}
    BY <1>1, <1>2, KindsAt DEF Load, Loading, At
  <2>2. CASE phase[o] = "resolving"
    <3>1. phase'[o] \in {"resolving", "recataloging", "erasing", "done"}
             /\ (phase'[o] = "done" => job[o].kind # "delete")
      BY <1>2, <2>2 DEF Load, Loaded, At
    <3>2. job[o].kind = "delete"
      BY <1>1, <2>2, KindsAt
    <3> QED
      BY <3>1, <3>2
  <2>3. CASE phase[o] = "unregistering"
    BY <1>2, <2>3 DEF Load, Loaded, At
  <2> QED
    BY <2>1, <2>2, <2>3
<1>3. CASE Migrate(o)
  <2>1. phase[o] \in {"resolving", "unregistering"}
    BY <1>1, <1>3, KindsAt DEF Migrate, Loaded, At
  <2>2. CASE phase[o] = "resolving"
    <3>1. phase'[o] \in {"recataloging", "erasing", "done"}
             /\ (phase'[o] = "done" => job[o].kind # "delete")
      BY <1>3, <2>2 DEF Migrate, Loaded, At
    <3>2. job[o].kind = "delete"
      BY <1>1, <2>2, KindsAt
    <3> QED
      BY <3>1, <3>2
  <2>3. CASE phase[o] = "unregistering"
    BY <1>3, <2>3 DEF Migrate, Loaded, At
  <2> QED
    BY <2>1, <2>2, <2>3
<1>4. CASE FindSource(o) \/ Recatalog(o) \/ Fail(o)
  BY <1>1, <1>4, KindsAt DEF FindSource, Recatalog, Fail, At
<1>5. CASE \/ Erase(o) \/ EraseByTool(o) \/ Unpublish(o) \/ Delist(o) \/ Mark(o) \/ Entomb(o)
           \/ Purge(o) \/ Drop(o) \/ Unmark(o) \/ Sweep(o) \/ Uncatalog(o)
  BY <1>5 DEF Erase, EraseByTool, Unpublish, Delist, Mark, Entomb, Purge, Drop, Unmark,
              Sweep, Uncatalog
<1> QED
  BY <1>1, <1>2, <1>3, <1>4, <1>5, MovesOf

\* The operation that moves is the deletion itself.
LEMMA OwnDeletionKept ==
  ASSUME TypeOK, StepsFit, Marked, Apart, DeletionKept,
         NEW o \in Ops, Step(o), ~Start(o), clean'[o], Deletion(job[o]),
         phase'[o] \in Erased, "torn" \notin faults'
  PROVE  Removed(o)'
<1>1. /\ clean[o] /\ job'[o] = job[o] /\ job[o] \in Jobs /\ faults \subseteq faults'
      /\ Active(o)
  BY NobodyVoids, OthersKeep, MovesWhileActive DEF Active, TypeOK
<1>2. phase[o] \in Erased => Removed(o)
  BY <1>1 DEF DeletionKept
<1>3. \A p \in vectors' : ~Covers(job'[o], p)
  <2>1. CASE Erase(o) \/ EraseByTool(o)
    BY <1>1, <2>1 DEF Erase, EraseByTool
  <2>2. CASE ~(Erase(o) \/ EraseByTool(o))
    <3>1. phase[o] \in Erased /\ UNCHANGED vectors
      BY <2>2, DeletionMoves, Writes
         DEF Erased, Index, Reset, Upsert, Load, Migrate, Unpublish, Delist, Mark, Entomb,
             Purge, Drop, Unmark, Sweep, Uncatalog, stores
    <3> QED
      BY <1>1, <1>2, <3>1 DEF Removed
  <2> QED
    BY <2>1, <2>2
\* Nobody else who could bring something back is on the way.
<1>4. \A q \in Ops \ {o} : phase'[q] \notin Readers
  <2> SUFFICES ASSUME NEW q \in Ops \ {o}, phase[q] \in Readers
               PROVE  FALSE
    BY OthersKeep
  <2>1. Active(q) /\ job[q].kind \in {"list", "delete", "rebuild"}
    BY KindsAt DEF Readers, Active
  <2>2. Disturbs(job[q], job[o])
    BY <2>1 DEF Disturbs
  <2> QED
    BY <1>1, <2>1, <2>2 DEF Apart
<1>5. job'[o].kind = "cli" /\ phase'[o] = "done" =>
        <<job'[o].doc, job'[o].version>> \in tombs'
  BY <1>1, DeletionMoves, KindsAt DEF Entomb
<1>6. phase'[o] = "dropping" => \A p \in archive' : Covers(job'[o], p) => p \in buf'[o]
  BY DeletionMoves DEF Purge, Read, stores, TypeOK
<1>7. phase'[o] \in {"unmarking", "sweeping", "uncataloging"}
        \/ (job'[o].kind = "delete" /\ phase'[o] = "done") =>
      \A p \in archive' : ~Covers(job'[o], p)
  <2> SUFFICES ASSUME \/ phase'[o] \in {"unmarking", "sweeping", "uncataloging"}
                      \/ job[o].kind = "delete" /\ phase'[o] = "done"
               PROVE  \A p \in archive' : ~Covers(job[o], p)
    BY <1>1
  <2>1. Drop(o) \/ Unmark(o) \/ Sweep(o) \/ Uncatalog(o)
    BY DeletionMoves
  <2>2. CASE Drop(o)
    <3>1. \A p \in archive : Covers(job[o], p) => p \in buf[o]
      BY <1>2, <2>2 DEF Removed, Drop, Erased
    <3> QED
      BY <2>2, <3>1 DEF Drop
  <2>3. CASE Unmark(o) \/ Sweep(o) \/ Uncatalog(o)
    <3>1. /\ phase[o] \in {"unmarking", "sweeping", "uncataloging"} /\ UNCHANGED archive
      BY <2>3 DEF Unmark, Sweep, Uncatalog, stores
    <3> QED
      BY <1>2, <3>1 DEF Removed, Erased
  <2> QED
    BY <2>1, <2>2, <2>3
<1>8. job'[o].kind = "delete" /\ phase'[o] = "done" => \A p \in catalog' : ~Covers(job'[o], p)
  BY <1>1, DeletionMoves DEF Uncatalog
<1>9. job'[o].kind = "delete" /\ phase'[o] # "unregistering" =>
        migrated' \/ \A p \in Rows(legacy)' : ~Covers(job'[o], p)
  <2> SUFFICES ASSUME job[o].kind = "delete", phase'[o] # "unregistering"
               PROVE  migrated' \/ \A p \in Rows(legacy)' : ~Covers(job[o], p)
    BY <1>1
  <2>1. CASE Migrate(o)
    BY <2>1 DEF Migrate
  <2>2. CASE Load(o) /\ Loaded(o, published) /\ phase[o] = "unregistering"
    <3>1. migrated \/ legacy = Nothing
      BY <2>2, NothingIs DEF Load, Loaded, At, Marked
    <3>2. UNCHANGED <<migrated, legacy>>
      BY <2>2 DEF Load, registry
    <3>3. Rows(Nothing) = {}
      BY DEF Rows, Nothing
    <3> QED
      BY <3>1, <3>2, <3>3 DEF Rows
  <2>3. CASE phase[o] \in Erased \ {"unregistering"}
    <3>1. migrated \/ \A p \in Rows(legacy) : ~Covers(job[o], p)
      BY <1>2, <2>3 DEF Removed
    <3>2. migrated' = migrated /\ legacy' = legacy
      BY <2>3, DeletionMoves, KindsAt
         DEF Erase, EraseByTool, At, Unpublish, Delist, Mark, Entomb, Purge, Drop, Unmark,
             Sweep, Uncatalog, registry, Erased
    <3> QED
      BY <3>1, <3>2 DEF Rows
  <2> QED
    BY <2>1, <2>2, <2>3, DeletionMoves, KindsAt DEF Erased, EraseByTool, At, Load, Loaded
<1>10. job'[o].kind = "delete" /\ phase'[o] \in Unlisted /\ "rewound" \notin faults' =>
         \A p \in Rows(published)' : ~Covers(job'[o], p)
  <2> SUFFICES ASSUME job[o].kind = "delete", phase'[o] \in Unlisted, "rewound" \notin faults'
               PROVE  \A p \in Rows(published)' : ~Covers(job[o], p)
    BY <1>1
  <2>1. CASE Unpublish(o)
    <3>1. published' = [published EXCEPT ![job[o].doc] =
             IF job[o].version \in {0, published[job[o].doc]} THEN 0 ELSE @]
      BY <2>1 DEF Unpublish
    <3>2. job[o].doc \in Docs
      BY <1>1, JobsAre
    <3> SUFFICES ASSUME NEW d \in Docs, published'[d] > 0, Covers(job[o], <<d, published'[d]>>)
                 PROVE  FALSE
      BY DEF Rows
    <3>3. d = job[o].doc /\ (job[o].version = 0 \/ published'[d] = job[o].version)
      BY DEF Covers
    <3> QED
      BY <3>1, <3>2, <3>3 DEF TypeOK, Versions
  <2>2. CASE ~Unpublish(o)
    <3>1. phase[o] \in Unlisted /\ UNCHANGED published
      BY <2>2, DeletionMoves, KindsAt
         DEF Erase, EraseByTool, At, Unpublish, Delist, Mark, Entomb, Purge, Drop, Unmark,
             Sweep, Uncatalog, Unlisted, Load, registry
    <3>2. \A p \in Rows(published) : ~Covers(job[o], p)
      BY <1>1, <1>2, <3>1 DEF Removed, Unlisted, Erased
    <3> QED
      BY <3>1, <3>2 DEF Rows
  <2> QED
    BY <2>1, <2>2
<1> QED
  BY <1>3, <1>4, <1>5, <1>6, <1>7, <1>8, <1>9, <1>10 DEF Removed, At

\* What reads the vectors or the archive after a deletion finds nothing of it.
LEMMA ReadersMove ==
  ASSUME TypeOK, StepsFit, Unread, NEW o \in Ops, Step(o), ~Start(o), phase'[o] \in Readers
  PROVE  \/ phase[o] \in Readers /\ buf'[o] = buf[o]
         \/ buf'[o] \in {{}, vectors, Live}
<1> USE DEF TypeOK, Go, Readers
<1>1. CASE Load(o) \/ Migrate(o)
  BY <1>1 DEF Load, Migrate, Loading, Loaded, At
<1>2. CASE Number(o) \/ Index(o) \/ ReadArchive(o) \/ Merge(o) \/ ReadTombs(o)
           \/ Clear(o) \/ Publish(o) \/ Catalog(o) \/ Fail(o)
  BY <1>2 DEF Number, Index, ReadArchive, Merge, ReadTombs, Clear, Publish, Catalog, Fail
<1>3. CASE List(o) \/ FindSource(o) \/ Collect(o)
  BY <1>3 DEF List, FindSource, Collect, At, Read, Unread
<1>4. CASE Recatalog(o) \/ Search(o) \/ Reset(o) \/ Upsert(o) \/ Relist(o)
  BY <1>4 DEF Recatalog, Search, Reset, Upsert, Relist, local
<1>5. CASE Erase(o) \/ EraseByTool(o) \/ Unpublish(o) \/ Delist(o) \/ Mark(o)
           \/ Entomb(o) \/ Purge(o) \/ Drop(o) \/ Unmark(o) \/ Sweep(o) \/ Uncatalog(o)
  BY <1>5 DEF Erase, EraseByTool, Unpublish, Delist, Mark, Entomb, Purge, Drop,
              Unmark, Sweep, Uncatalog
<1> QED
  BY <1>1, <1>2, <1>3, <1>4, <1>5 DEF Step

\* Another operation moves.
LEMMA OthersDeletionKept ==
  ASSUME TypeOK, StepsFit, Marked, Positive, Unread, Apart, DeletionKept,
         NEW o \in Ops, Step(o), ~Start(o), NEW r \in Ops \ {o}, clean'[r], Deletion(job[r]),
         phase[r] \in Erased, "torn" \notin faults'
  PROVE  Removed(r)'
<1>1. /\ clean[r] /\ job'[r] = job[r] /\ job[r] \in Jobs /\ faults \subseteq faults'
      /\ phase'[r] = phase[r] /\ buf'[r] = buf[r]
      /\ ~Voids(job[o], job[r]) /\ (Active(r) => ~Disturbs(job[o], job[r]))
      /\ job[o] \in Jobs /\ job[o].kind \in Kinds
  BY NobodyVoids, OthersKeep, MovesWhileActive, JobsAre DEF Active, Apart, TypeOK
<1>2. Removed(r)
  BY <1>1 DEF DeletionKept
\* An ingestion that moves is of another document; a listing or a rebuild moves
\* only after the deletion.
<1>3. /\ job[o].kind = "ingest" => job[o].doc # job[r].doc
      /\ job[o].kind = "ingest" => ~Covers(job[r], Target(o))
      /\ job[o].kind \in {"list", "rebuild", "delete"} => phase[r] = "done"
  <2>1. job[o].kind = "ingest" => job[o].doc # job[r].doc
    BY <1>1 DEF Voids
  <2>2. job[o].kind \in {"list", "rebuild", "delete"} => ~Active(r)
    BY <1>1 DEF Disturbs
  <2> QED
    BY <2>1, <2>2 DEF Covers, Target, Active, Erased
<1>4. \A p \in vectors' : ~Covers(job[r], p)
  <2>1. \A p \in vectors : ~Covers(job[r], p)
    BY <1>2 DEF Removed
  <2>2. CASE Index(o)
    BY <1>3, <2>1, <2>2, KindsAt DEF Index
  <2>3. CASE Upsert(o)
    BY <1>2, <2>1, <2>3 DEF Upsert, Removed, Readers
  <2>4. CASE UNCHANGED vectors \/ Erase(o) \/ EraseByTool(o) \/ Reset(o)
    BY <2>1, <2>4 DEF Erase, EraseByTool, Reset
  <2> QED
    BY <2>2, <2>3, <2>4, Writes
<1>5. \A q \in Ops \ {r} : phase'[q] \in Readers => \A p \in buf'[q] : ~Covers(job[r], p)
  <2> SUFFICES ASSUME NEW q \in Ops \ {r}, phase'[q] \in Readers
               PROVE  \A p \in buf'[q] : ~Covers(job[r], p)
    OBVIOUS
  <2>1. CASE q # o
    BY <1>2, <2>1, OthersKeep DEF Removed
  <2>2. CASE q = o /\ phase[o] \in Readers /\ buf'[o] = buf[o]
    BY <1>2, <2>2 DEF Removed
  <2>3. CASE q = o /\ buf'[o] \in {{}, vectors}
    BY <1>2, <2>3 DEF Removed
  <2>4. CASE q = o /\ buf'[o] = Live /\ ~(phase[o] \in Readers /\ buf'[o] = buf[o])
    <3>1. phase[r] = "done"
      <4>1. StepsFit' /\ TypeOK' /\ job'[o] = job[o]
        BY StepSteps, StepTypes, OthersKeep
      <4>2. job[o].kind \in {"list", "delete", "rebuild"}
        <5>1. phase'[o] \in StepsOf(job'[o].kind)
          BY <2>4, <4>1 DEF StepsFit, Readers
        <5> QED
          BY <1>1, <2>4, <4>1, <5>1 DEF StepsOf, Readers, Kinds
      <4> QED
        BY <1>3, <4>2
    <3> SUFFICES ASSUME NEW p \in Live, Covers(job[r], p)
                 PROVE  FALSE
      BY <2>4
    <3>2. CASE job[r].kind = "delete"
      BY <1>2, <3>1, <3>2 DEF Removed, At, Live
    <3>3. CASE job[r].kind = "cli"
      <4>1. <<job[r].doc, job[r].version>> \in tombs
        BY <1>2, <3>1, <3>3 DEF Removed, At
      <4>2. p \in archive /\ p[2] > 0 /\ p[2] \in Nat
        BY DEF Live, Positive, TypeOK, Pairs
      <4>3. Restores(p, <<job[r].doc, job[r].version>>)
        BY <4>2 DEF Restores, Covers
      <4> QED
        BY <4>1, <4>3 DEF Live
    <3> QED
      BY <3>2, <3>3 DEF Deletion
  <2> QED
    BY <2>1, <2>2, <2>3, <2>4, ReadersMove
<1>6. At(r, "cli", "done")' => <<job[r].doc, job[r].version>> \in tombs'
  <2> SUFFICES ASSUME job[r].kind = "cli", phase[r] = "done"
               PROVE  <<job[r].doc, job[r].version>> \in tombs'
    BY <1>1 DEF At
  <2>1. <<job[r].doc, job[r].version>> \in tombs
    BY <1>2 DEF Removed, At
  <2>2. CASE Clear(o)
    <3>1. job[o].doc # job[r].doc
      BY <1>3, <2>2, KindsAt DEF Clear
    <3> QED
      BY <2>1, <2>2, <3>1, Untorn DEF Clear, Restores, Target
  <2>3. CASE Sweep(o)
    <3>1. job[o].doc # job[r].doc
      <4>1. job[o].kind = "delete"
        BY <2>3, KindsAt DEF Sweep
      <4> QED
        BY <1>1, <4>1 DEF Voids
    <3> QED
      BY <2>1, <2>3, <3>1, Untorn DEF Sweep, Covers
  <2>4. CASE Entomb(o)
    BY <2>1, <2>4, Untorn DEF Entomb
  <2> QED
    BY <2>1, <2>2, <2>3, <2>4, Writes
\* The archive gains nothing of the document.
<1>7. \A p \in archive' : Covers(job[r], p) => p \in archive
  <2>1. CASE Merge(o)
    BY <1>3, <2>1, KindsAt, Untorn DEF Merge
  <2>2. CASE Drop(o)
    BY <2>2, Untorn DEF Drop
  <2> QED
    BY <2>1, <2>2, Writes
<1>8. At(r, "delete", "done")' => \A p \in catalog' : ~Covers(job[r], p)
  <2> SUFFICES ASSUME job[r].kind = "delete", phase[r] = "done"
               PROVE  \A p \in catalog' : ~Covers(job[r], p)
    BY <1>1 DEF At
  <2>1. \A p \in catalog : ~Covers(job[r], p)
    BY <1>2 DEF Removed, At
  <2>2. CASE Catalog(o)
    BY <1>3, <2>1, <2>2, KindsAt DEF Catalog
  <2>3. CASE Recatalog(o)
    BY <1>2, <2>1, <2>3 DEF Recatalog, Removed, Readers
  <2>4. CASE Uncatalog(o) \/ UNCHANGED catalog
    BY <2>1, <2>4 DEF Uncatalog
  <2> QED
    BY <2>2, <2>3, <2>4, Writes
<1>9. job[r].kind = "delete" /\ phase[r] # "unregistering" =>
        migrated' \/ \A p \in Rows(legacy') : ~Covers(job[r], p)
  <2> SUFFICES ASSUME job[r].kind = "delete", phase[r] # "unregistering", ~migrated'
               PROVE  \A p \in Rows(legacy') : ~Covers(job[r], p)
    OBVIOUS
  <2>1. ~migrated
    BY Writes DEF Publish, Migrate, Unpublish
  <2>2. \A p \in Rows(legacy) : ~Covers(job[r], p)
    BY <1>2, <2>1 DEF Removed
  <2>3. CASE UNCHANGED legacy
    BY <2>2, <2>3
  <2>4. CASE Delist(o)
    <3>1. \A d \in Docs : legacy'[d] \in {0, legacy[d]}
      BY <2>4 DEF Delist, TypeOK, Versions
    <3>2. \A d \in Docs : legacy'[d] > 0 => legacy'[d] = legacy[d]
      BY <3>1
    <3> QED
      BY <2>2, <3>2 DEF Rows
  <2>5. CASE Relist(o)
    <3>1. \A d \in Docs : legacy'[d] = 0 \/ <<d, legacy'[d]>> \in buf[o] \cup Rows(legacy)
      BY <2>5 DEF Relist, Highest
    <3>2. \A p \in buf[o] : ~Covers(job[r], p)
      BY <1>2, <2>5 DEF Removed, Relist, Readers
    <3> QED
      BY <2>2, <3>1, <3>2 DEF Rows
  <2> QED
    BY <2>3, <2>4, <2>5, Writes
<1>10. job[r].kind = "delete" /\ phase[r] \in Unlisted /\ "rewound" \notin faults' =>
         \A p \in Rows(published') : ~Covers(job[r], p)
  <2> SUFFICES ASSUME job[r].kind = "delete", phase[r] \in Unlisted, "rewound" \notin faults'
               PROVE  \A p \in Rows(published') : ~Covers(job[r], p)
    OBVIOUS
  <2>1. \A p \in Rows(published) : ~Covers(job[r], p)
    BY <1>1, <1>2 DEF Removed
  <2>2. CASE UNCHANGED published
    BY <2>1, <2>2
  <2>3. CASE Publish(o)
    <3>1. \A d \in Docs : d # job[o].doc => published'[d] = published[d]
      BY <2>3 DEF Publish, TypeOK, Versions
    <3>2. job[o].doc # job[r].doc
      BY <1>3, <2>3, KindsAt DEF Publish
    <3> QED
      BY <2>1, <3>1, <3>2 DEF Rows, Covers
  <2>4. CASE Unpublish(o)
    <3>1. \A d \in Docs : published'[d] \in {0, published[d]}
      BY <2>4 DEF Unpublish, TypeOK, Versions
    <3>2. \A d \in Docs : published'[d] > 0 => published'[d] = published[d]
      BY <3>1
    <3> QED
      BY <2>1, <3>2 DEF Rows
  <2>5. CASE Migrate(o)
    <3>1. \/ published' = published
          \/ ~migrated /\ published' = legacy
      BY <2>5, TimelyCopies
    <3>2. ~migrated => \A p \in Rows(legacy) : ~Covers(job[r], p)
      BY <1>2 DEF Removed, Unlisted
    <3> QED
      BY <2>1, <3>1, <3>2
  <2> QED
    BY <2>2, <2>3, <2>4, <2>5, Writes
<1>11. /\ phase[r] = "dropping" => \A p \in archive' : Covers(job[r], p) => p \in buf[r]
       /\ phase[r] \in {"unmarking", "sweeping", "uncataloging"} \/ At(r, "delete", "done") =>
            \A p \in archive' : ~Covers(job[r], p)
  BY <1>2, <1>7 DEF Removed
<1>12. Rows(legacy)' = Rows(legacy') /\ Rows(published)' = Rows(published')
  BY DEF Rows
<1> QED
  BY <1>1, <1>4, <1>5, <1>6, <1>8, <1>9, <1>10, <1>11, <1>12 DEF Removed, At

LEMMA StepDeletionKept ==
  ASSUME TypeOK, StepsFit, Marked, Positive, Unread, Apart, DeletionKept,
         NEW o \in Ops, Step(o)
  PROVE  DeletionKept'
<1> SUFFICES ASSUME NEW r \in Ops, clean'[r], Deletion(job'[r]), phase'[r] \in Erased,
                    "torn" \notin faults'
             PROVE  Removed(r)'
  BY DEF DeletionKept, Deletion
<1>1. CASE Start(o)
  <2>1. phase[o] = "idle" /\ phase'[o] = "new"
    BY <1>1 DEF Start, Go, TypeOK
  <2>2. r # o
    BY <2>1 DEF Erased
  <2>3. /\ clean[r] /\ phase'[r] = phase[r] /\ job'[r] = job[r]
        /\ UNCHANGED <<vectors, archive, tombs, catalog, published, migrated, legacy, ver,
                       buf, faults>>
    BY <1>1, <2>2, OthersKeep, Starts
  <2>4. Removed(r)
    BY <2>3 DEF DeletionKept
  <2>5. \A q \in Ops : phase'[q] \in Readers => phase[q] \in Readers
    BY <2>1, OthersKeep DEF Readers
  <2> QED
    BY <2>3, <2>4, <2>5 DEF Removed, At, Rows
<1>2. CASE ~Start(o) /\ r = o
  BY <1>2, OwnDeletionKept, OthersKeep
<1>3. CASE ~Start(o) /\ r # o
  BY <1>3, OthersDeletionKept, OthersKeep
<1> QED
  BY <1>1, <1>2, <1>3

\* While a search is about to read the registry, each document it is to find
\* keeps a known version with vectors, unless a mishap happens.
LEMMA KnownKept ==
  ASSUME TypeOK, StepsFit, Marked, Positive, NEW o \in Ops, Step(o), ~Start(o),
         faults' \cap {"rewound", "skipped", "hollow"} = {},
         vectors \subseteq vectors',
         job[o].kind \notin {"delete", "cli", "rebuild"},
         NEW d \in Docs, <<d, Known[d]>> \in vectors
  PROVE  <<d, Known'[d]>> \in vectors'
<1>1. Known[d] > 0 /\ Known[d] \in Nat
  BY KnownType DEF Positive, Versions
<1>2. CASE UNCHANGED <<published, migrated, legacy>>
  BY <1>2 DEF Known
<1>3. CASE Publish(o)
  <2>1. Known' = published' /\ migrated' = TRUE /\ vectors' = vectors
    BY <1>3 DEF Publish, Known, stores
  <2>2. ver[o] \in Nat /\ published[d] \in Nat
    BY DEF TypeOK, Versions
  <2>3. /\ job[o].doc = d => published'[d] = Maximum(published[d], ver[o])
        /\ job[o].doc # d => published'[d] = published[d]
    BY <1>3 DEF Publish, TypeOK, Versions
  <2>4. Target(o) \in vectors
    BY <1>3 DEF Publish
  <2>5. CASE Known = published
    BY <2>1, <2>2, <2>3, <2>4, <2>5 DEF Maximum, Target
  <2>6. CASE ~migrated /\ Known = legacy /\ published = Nothing
    <3>2. published[d] = 0
      BY <2>6, NothingIs
    <3>3. published'[d] \in Nat /\ legacy[d] \in Nat
      BY StepTypes DEF TypeOK, Versions
    <3>1. legacy[d] <= published'[d]
      <4>1. ~(legacy[d] > published'[d])
        BY <1>3, <2>6 DEF Publish
      <4> QED
        BY <3>3, <4>1
    <3>4. job[o].doc = d
      BY <1>1, <2>3, <2>6, <3>1, <3>2, <3>3
    <3>5. published'[d] = ver[o]
      BY <1>1, <2>2, <2>3, <2>6, <3>1, <3>2, <3>4 DEF Maximum
    <3> QED
      BY <2>1, <2>4, <3>4, <3>5 DEF Target
  <2> QED
    BY <2>5, <2>6 DEF Known
<1>4. CASE Migrate(o)
  <2>1. Known' = published'
    BY <1>4 DEF Migrate, Known
  <2>2. published' = Known
    BY <1>4, TimelyCopies DEF Known
  <2> QED
    BY <2>1, <2>2
<1>5. CASE Unpublish(o) \/ Delist(o) \/ Relist(o)
  BY <1>5, KindsAt DEF Unpublish, Delist, Relist
<1> QED
  BY <1>2, <1>3, <1>4, <1>5, Writes

LEMMA StepSearchKept ==
  ASSUME TypeOK, StepsFit, Marked, Positive, Unread, Apart, SearchKept, NEW o \in Ops, Step(o)
  PROVE  SearchKept'
<1> SUFFICES ASSUME NEW r \in Ops, clean'[r], job'[r].kind = "search",
                    faults' \cap {"rewound", "skipped", "hollow"} = {}
             PROVE  Findable(r)'
  BY DEF SearchKept
<1> SUFFICES ASSUME NEW p \in base'[r]
             PROVE  /\ phase'[r] = "new" =>
                         /\ <<p[1], Known'[p[1]]>> \in vectors'
                         /\ pending'[r] # Nothing => <<p[1], pending'[r][p[1]]>> \in vectors'
                    /\ phase'[r] = "searching" => \E q \in buf'[r] \cap vectors' : q[1] = p[1]
                    /\ phase'[r] = "done" => \E q \in buf'[r] : q[1] = p[1]
  BY DEF Findable, Nothing
<1>0. faults \subseteq faults' /\ p \in Pairs
  BY OthersKeep, StepTypes DEF TypeOK
<1>1. CASE Start(o)
  <2>1. /\ UNCHANGED <<vectors, published, migrated, legacy, buf, pending, faults>>
        /\ Known' = Known
    BY <1>1, Starts DEF Known
  <2>2. CASE r = o
    <3>1. phase[r] = "idle" /\ phase'[r] = "new"
      BY <1>1, <2>2 DEF Start, Go, TypeOK
    <3>2. pending'[r] = Nothing
      BY <2>1, <3>1 DEF Unread, Loading, At
    <3>3. p \in Rows(Known) \cap vectors
      BY <1>1, <2>2 DEF Start, TypeOK
    <3>4. p = <<p[1], Known[p[1]]>>
      BY <3>3, RowsAre, KnownType
    <3> QED
      BY <2>1, <3>1, <3>2, <3>3, <3>4
  <2>3. CASE r # o
    <3>1. /\ clean[r] /\ phase'[r] = phase[r] /\ job'[r] = job[r] /\ base'[r] = base[r]
      BY <2>3, OthersKeep
    <3>2. Findable(r)
      BY <1>0, <3>1 DEF SearchKept
    <3> QED
      BY <2>1, <3>1, <3>2 DEF Findable
  <2> QED
    BY <2>2, <2>3
<1>2. CASE ~Start(o)
  <2>1. /\ clean[r] /\ job'[r] = job[r] /\ job[r] \in Jobs /\ base'[r] = base[r]
        /\ r # o => /\ phase'[r] = phase[r] /\ buf'[r] = buf[r] /\ pending'[r] = pending[r]
                    /\ Active(r) => ~Disturbs(job[o], job[r])
    BY <1>2, NobodyVoids, OthersKeep DEF Apart, TypeOK
  <2>2. Findable(r)
    BY <1>0, <2>1 DEF SearchKept
  <2>3. CASE r # o /\ Active(r)
    <3>1. job[o].kind \notin {"delete", "cli", "rebuild"}
      BY <2>1, <2>3 DEF Disturbs, Deletion
    <3>2. vectors \subseteq vectors'
      BY <3>1, KindsAt, Writes DEF Erase, EraseByTool, At, Reset, Index, Upsert
    <3>3. p[1] \in Docs
      BY <1>0 DEF Pairs
    <3>4. <<p[1], Known[p[1]]>> \in vectors => <<p[1], Known'[p[1]]>> \in vectors'
      BY <1>2, <3>1, <3>2, <3>3, KnownKept
    <3> QED
      BY <2>1, <2>2, <2>3, <3>2, <3>4 DEF Findable
  <2>4. CASE r # o /\ ~Active(r)
    BY <2>1, <2>2, <2>4 DEF Findable, Active
  <2>5. CASE r = o
    <3>1. Load(o) \/ Migrate(o) \/ Search(o)
      <4>1. ~Fail(o)
        BY <2>5 DEF Fail, TypeOK
      <4> QED
        BY <1>2, <2>1, <2>5, <4>1, MovesOf
\* What it reads has a version with vectors of the document.
    <3>2. ASSUME NEW versions \in Versions, <<p[1], versions[p[1]]>> \in vectors
          PROVE  \E q \in Rows(versions) \cap vectors : q[1] = p[1]
      <4>1. p[1] \in Docs /\ versions[p[1]] > 0
        BY <1>0, <3>2 DEF Pairs, Positive
      <4> QED
        BY <3>2, <4>1, RowsAre
    <3>3. CASE Load(o)
      <4>1. phase[o] = "new" /\ UNCHANGED <<vectors, published, migrated, legacy>>
        BY <2>1, <2>5, <3>3, KindsAt DEF Load, Loading, At, stores, registry
      <4>2. <<p[1], Known[p[1]]>> \in vectors /\ Known' = Known
        BY <2>1, <2>2, <2>5, <4>1 DEF Findable, Known
      <4>3. CASE Loaded(o, published) /\ (published # Nothing \/ migrated \/ legacy = Nothing)
        <5>1. buf'[o] = Rows(published) /\ phase'[o] = "searching"
          BY <4>1, <4>3 DEF Loaded, At, Go, TypeOK
        <5>2. Known = published
          BY <4>3 DEF Known
        <5> QED
          BY <2>5, <3>2, <4>1, <4>2, <5>1, <5>2 DEF TypeOK
      <4>4. CASE /\ published = Nothing /\ ~migrated
                 /\ pending' = [pending EXCEPT ![o] = legacy] /\ UNCHANGED phase
        BY <2>5, <4>1, <4>2, <4>4 DEF Known, TypeOK
      <4> QED
        BY <3>3, <4>3, <4>4 DEF Load
    <3>4. CASE Migrate(o)
      <4>1. /\ phase[o] = "new" /\ pending[o] # Nothing /\ UNCHANGED vectors
        BY <2>1, <2>5, <3>4, KindsAt DEF Migrate, Loaded, At, stores
      <4>2. <<p[1], pending[o][p[1]]>> \in vectors
        BY <2>1, <2>2, <2>5, <4>1 DEF Findable
      <4>3. buf'[o] = Rows(pending[o]) /\ phase'[o] = "searching"
        BY <3>4, <4>1 DEF Migrate, Loaded, At, Go, TypeOK
      <4> QED
        BY <2>5, <3>2, <4>1, <4>2, <4>3 DEF TypeOK
    <3>5. CASE Search(o)
      <4>1. \E q \in buf[o] \cap vectors : q[1] = p[1]
        BY <2>1, <2>2, <2>5, <3>5 DEF Findable, Search
      <4>2. buf'[o] = vectors \cap buf[o] /\ phase'[o] = "done"
        BY <3>5, <4>1 DEF Search, Read, Go, TypeOK
      <4> QED
        BY <2>5, <4>1, <4>2
    <3> QED
      BY <3>1, <3>3, <3>4, <3>5
  <2> QED
    BY <2>3, <2>4, <2>5
<1> QED
  BY <1>1, <1>2

\* What was archived or published of a document that nobody deletes still is, or
\* a later version is published.
LEMMA RowsKept ==
  ASSUME TypeOK, StepsFit, Marked, NEW o \in Ops, Step(o),
         faults' \cap {"torn", "rewound"} = {},
         NEW d \in Docs, NEW n \in Nat,
         job[o].kind \in {"delete", "cli"} => job[o].doc # d
  PROVE  /\ <<d, n>> \in archive => <<d, n>> \in archive'
         /\ n <= published[d] => n <= published'[d]
<1>1. <<d, n>> \in archive => <<d, n>> \in archive'
  <2>1. CASE Merge(o)
    BY <2>1, Untorn DEF Merge
  <2>2. CASE Drop(o)
    <3>1. ~Covers(job[o], <<d, n>>)
      BY <2>2, KindsAt DEF Drop, Covers
    <3> QED
      BY <2>2, <3>1, Untorn DEF Drop
  <2> QED
    BY <2>1, <2>2, Writes
<1>2. n <= published[d] => n <= published'[d]
  <2>1. published'[d] >= published[d]
    BY PublishedSteps, KindsAt DEF Unpublish
  <2>2. published[d] \in Nat /\ published'[d] \in Nat
    BY StepTypes DEF TypeOK, Versions
  <2> QED
    BY <2>1, <2>2
<1> QED
  BY <1>1, <1>2

LEMMA StepNumberKept ==
  ASSUME TypeOK, StepsFit, Marked, Positive, Unread, Apart, NumberKept, NEW o \in Ops, Step(o)
  PROVE  NumberKept'
<1> SUFFICES ASSUME NEW r \in Ops, clean'[r], job'[r].kind = "ingest", job'[r].version = 0,
                    faults' \cap {"torn", "rewound"} = {}
             PROVE  Unused(r)'
  BY DEF NumberKept
<1> SUFFICES ASSUME NEW p \in base'[r]
             PROVE  /\ p[1] = job'[r].doc
                    /\ phase'[r] = "new" => p \in archive' \/ p[2] <= published'[job'[r].doc]
                    /\ phase'[r] = "numbering" =>
                         \/ p[2] <= ver'[r]
                         \/ pending'[r] = Nothing /\ p[2] <= published'[job'[r].doc]
                    /\ phase'[r] \in Numbered => p[2] < ver'[r]
  BY DEF Unused, Nothing
<1>0. /\ faults \subseteq faults' /\ p \in Pairs /\ p[2] \in Nat /\ p = <<p[1], p[2]>>
      /\ p[2] > 0
  <2>1. faults \subseteq faults' /\ p \in Pairs /\ p[2] > 0
    BY OthersKeep, StepTypes, StepPositive DEF TypeOK, Positive
  <2> QED
    BY <2>1 DEF Pairs
<1>1. CASE Start(o)
  <2>1. UNCHANGED <<archive, published, ver, pending, faults>>
    BY <1>1, Starts
  <2>2. CASE r = o
    <3>1. phase[r] = "idle" /\ phase'[r] = "new"
      BY <1>1, <2>2 DEF Start, Go, TypeOK
    <3>2. p[1] = job'[r].doc /\ p \in archive \cup Rows(published)
      BY <1>1, <2>2 DEF Start, TypeOK
    <3>3. p \in Rows(published) => p[2] = published[p[1]]
      BY RowsAre DEF TypeOK
    <3>4. p \in archive \/ p[2] <= published[job'[r].doc]
      BY <1>0, <3>2, <3>3
    <3> QED
      BY <2>1, <3>1, <3>2, <3>4 DEF Numbered
  <2>3. CASE r # o
    <3>1. /\ clean[r] /\ phase'[r] = phase[r] /\ job'[r] = job[r] /\ base'[r] = base[r]
      BY <2>3, OthersKeep
    <3>2. Unused(r)
      BY <1>0, <3>1 DEF NumberKept
    <3> QED
      BY <2>1, <3>1, <3>2 DEF Unused
  <2> QED
    BY <2>2, <2>3
<1>2. CASE ~Start(o)
  <2>1. /\ clean[r] /\ job'[r] = job[r] /\ job[r] \in Jobs /\ base'[r] = base[r]
        /\ r # o => /\ phase'[r] = phase[r] /\ ver'[r] = ver[r] /\ pending'[r] = pending[r]
                    /\ ~Voids(job[o], job[r])
    BY <1>2, NobodyVoids, OthersKeep DEF Apart, TypeOK
  <2>2. Unused(r) /\ p[1] = job[r].doc
    BY <1>0, <2>1 DEF NumberKept, Unused
  <2>3. CASE r # o
    <3>1. job[o].kind \in {"delete", "cli"} => job[o].doc # job[r].doc
      BY <2>1, <2>3 DEF Voids, Deletion
    <3>2. /\ p \in archive => p \in archive'
          /\ p[2] <= published[job[r].doc] => p[2] <= published'[job[r].doc]
      <4>1. job[r].doc \in Docs
        BY <2>1, JobsAre
      <4> QED
        BY <1>0, <2>2, <3>1, <4>1, RowsKept
    <3> QED
      BY <2>1, <2>2, <2>3, <3>2 DEF Unused
  <2>4. CASE r = o
    <3>1. ver[o] \in Nat /\ published[job[o].doc] \in Nat
      BY <2>1, <2>4, JobsAre DEF TypeOK, Versions
    <3>2. ASSUME NEW versions \in Versions, phase[o] = "numbering", Loaded(o, versions),
                 p[2] <= ver[o] \/ p[2] <= versions[job[o].doc]
          PROVE  phase'[o] = "indexing" /\ p[2] < ver'[o]
      <4>1. versions[job[o].doc] \in Nat
        BY <2>1, <2>4, JobsAre DEF Versions
      <4>2. ver'[o] = 1 + Maximum(ver[o], versions[job[o].doc]) /\ phase'[o] = "indexing"
        BY <3>2 DEF Loaded, At, Go, TypeOK
      <4> QED
        BY <1>0, <3>1, <3>2, <4>1, <4>2 DEF Maximum
    <3>3. CASE Number(o)
      <4>1. PICK m \in {0} \cup {q[2] : q \in archive} :
              Highest(m, archive, job[o].doc) /\ ver' = [ver EXCEPT ![o] = m]
                /\ phase' = [phase EXCEPT ![o] = "numbering"]
        BY <2>1, <2>4, <3>3 DEF Number, Go
      <4>2. phase[o] = "new" /\ pending[o] = Nothing
            /\ UNCHANGED <<published, pending, archive>>
        BY <2>1, <2>4, <3>3 DEF Number, At, Unread, Loading, registry, local, stores
      <4>3. p \in archive \/ p[2] <= published[job[o].doc]
        BY <2>1, <2>2, <2>4, <4>2 DEF Unused
      <4>4. p \in archive => p[2] <= m
        BY <2>2, <2>4, <4>1 DEF Highest
      <4>5. ver'[o] = m /\ phase'[o] = "numbering"
        BY <4>1 DEF TypeOK
      <4> QED
        BY <2>1, <2>2, <2>4, <4>2, <4>3, <4>4, <4>5 DEF Numbered
    <3>4. CASE Load(o)
      <4>1. phase[o] = "numbering"
        BY <2>1, <2>4, <3>4, KindsAt DEF Load, Loading, At
      <4>2. p[2] <= ver[o] \/ (pending[o] = Nothing /\ p[2] <= published[job[o].doc])
        BY <2>1, <2>2, <2>4, <4>1 DEF Unused
      <4>3. CASE Loaded(o, published)
        <5>1. phase'[o] = "indexing" /\ p[2] < ver'[o]
          BY <3>2, <4>1, <4>2, <4>3 DEF TypeOK
        <5> QED
          BY <2>1, <2>2, <2>4, <5>1
      <4>4. CASE published = Nothing /\ UNCHANGED <<phase, ver>>
        <5>1. published[job[o].doc] = 0
          BY <2>1, <2>4, <4>4, JobsAre, NothingIs
        <5>2. p[2] <= ver[o]
          BY <1>0, <4>2, <5>1
        <5> QED
          BY <2>1, <2>2, <2>4, <4>1, <4>4, <5>2 DEF Numbered
      <4> QED
        BY <3>4, <4>3, <4>4 DEF Load
    <3>5. CASE Migrate(o)
      <4>1. phase[o] = "numbering" /\ pending[o] # Nothing /\ Loaded(o, pending[o])
        BY <2>1, <2>4, <3>5, KindsAt DEF Migrate, Loaded, At
      <4>2. p[2] <= ver[o]
        BY <2>1, <2>2, <2>4, <4>1 DEF Unused
      <4>3. phase'[o] = "indexing" /\ p[2] < ver'[o]
        BY <3>2, <4>1, <4>2 DEF TypeOK
      <4> QED
        BY <2>1, <2>2, <2>4, <4>3
    <3>6. CASE Index(o) \/ ReadArchive(o) \/ Merge(o) \/ ReadTombs(o) \/ Clear(o) \/ Publish(o)
               \/ Catalog(o)
      <4>1. /\ phase[o] \in Numbered /\ phase'[o] \notin {"new", "numbering"} /\ ver'[o] = ver[o]
        BY <3>6 DEF Index, ReadArchive, Merge, ReadTombs, Clear, Publish, Catalog, Numbered,
                    Go, TypeOK, local
      <4>2. p[2] < ver[o]
        BY <2>1, <2>2, <2>4, <4>1 DEF Unused
      <4> QED
        BY <2>1, <2>2, <2>4, <4>1, <4>2
    <3>7. ~Fail(o)
      BY <2>4 DEF Fail, TypeOK
    <3> QED
      BY <1>2, <2>1, <2>4, <3>3, <3>4, <3>5, <3>6, <3>7, MovesOf
  <2> QED
    BY <2>3, <2>4
<1> QED
  BY <1>1, <1>2

-----------------------------------------------------------------------------
(* Theorems *)

LEMMA InitIInv == Init => IInv
<1> SUFFICES ASSUME Init
             PROVE  IInv
  OBVIOUS
<1>1. TypeOK
  BY InitTypes
<1>2. /\ \A o \in Ops : /\ phase[o] = "idle" /\ buf[o] = {} /\ pending[o] = Nothing
                        /\ base[o] = {} /\ ~clean[o]
      /\ \A p \in Processes : lock[p] = NoOp
      /\ faults = {}
  BY DEF Init
<1>3. Marked /\ \A p \in vectors \cup archive \cup catalog : p[2] > 0
  <2> PICK present \in SUBSET Docs, old \in BOOLEAN :
        /\ vectors = present \X {1} /\ archive = present \X {1}
        /\ catalog = IF old THEN {} ELSE present \X {1}
        /\ published = [d \in Docs |-> IF ~old /\ d \in present THEN 1 ELSE 0]
        /\ migrated = (~old /\ present # {})
    BY DEF Init
  <2>1. ~migrated => published = [d \in Docs |-> 0]
    OBVIOUS
  <2> QED
    BY <2>1 DEF Marked, Nothing
<1> QED
  BY <1>1, <1>2, <1>3
     DEF IInv, StepsFit, LockHeld, ReadsAreCurrent, TornOnlyAcrossProcesses, Positive, Unread,
         Apart, IngestionKept, DeletionKept, SearchKept, NumberKept, Locked, Numbered, At

LEMMA StepIInv == IInv /\ [Next]_vars => IInv'
<1> SUFFICES ASSUME IInv, [Next]_vars
             PROVE  IInv'
  OBVIOUS
<1>1. ASSUME NEW o \in Ops, Step(o)
      PROVE  IInv'
  BY <1>1, StepTypes, StepSteps, StepLock, StepReads, StepMarked, StepPositive, StepUnread,
     StepApart, StepIngestionKept, StepDeletionKept, StepSearchKept, StepNumberKept DEF IInv
<1>2. CASE UNCHANGED vars
  <2> USE <1>2 DEF vars, stores, registry, local, history
  <2>1. TypeOK' /\ StepsFit' /\ LockHeld' /\ Marked'
    BY DEF IInv, TypeOK, StepsFit, LockHeld, Marked
  <2>2. ReadsAreCurrent' /\ TornOnlyAcrossProcesses'
    BY DEF IInv, ReadsAreCurrent, TornOnlyAcrossProcesses, OneProcess, Writers
  <2>3. Positive' /\ Unread' /\ Apart'
    BY DEF IInv, Positive, Unread, Loading, Apart, Active, At
  <2>4. IngestionKept' /\ DeletionKept'
    BY DEF IInv, IngestionKept, Ingested, DeletionKept, Removed, Rows, Target, At
  <2>5. SearchKept' /\ NumberKept'
    BY DEF IInv, SearchKept, Findable, Known, NumberKept, Unused
  <2> QED
    BY <2>1, <2>2, <2>3, <2>4, <2>5 DEF IInv
<1> QED
  BY <1>1, <1>2 DEF Next, Idle

\* The inductive invariant: types, steps, the lock of a process and what is read
\* under it, and the promises of operations that nothing voids.
THEOREM KnowledgeBase == Spec => []IInv
BY InitIInv, StepIInv, PTL DEF Spec

\* A finished ingestion that nothing was asked to undo stays complete in the
\* vector store, the archive, the registry and the catalog.
THEOREM IngestedStaysWhole == Spec => []CompletedStaysWhole
<1>1. IInv => CompletedStaysWhole
  BY DEF IInv, CompletedStaysWhole, IngestionKept, Ingested, At, Live
<1> QED
  BY <1>1, KnowledgeBase, PTL

\* A finished deletion that no later upload undoes stays in force.
THEOREM DeletedStaysDeleted == Spec => []DeletedStaysGone
<1>1. IInv => DeletedStaysGone
  BY DEF IInv, DeletedStaysGone, DeletionKept, Removed, Erased, Unlisted, At
<1> QED
  BY <1>1, KnowledgeBase, PTL

\* A search finds every published document that had its vectors when it began.
THEOREM SearchIsComplete == Spec => []SearchFindsPublished
<1>1. IInv => SearchFindsPublished
  BY DEF IInv, SearchFindsPublished, SearchKept, Findable, At
<1> QED
  BY <1>1, KnowledgeBase, PTL

\* An upload is given a version that no earlier one of its document had.
THEOREM VersionsAreFresh == Spec => []VersionIsFresh
<1>1. IInv => VersionIsFresh
  <2> SUFFICES ASSUME IInv, NEW o \in Ops, phase[o] \in Numbered, job[o].version = 0,
                      clean[o], faults \cap {"torn", "rewound"} = {}
               PROVE  \A p \in base[o] : p[2] < ver[o]
    BY DEF VersionIsFresh
  <2>1. job[o].kind = "ingest"
    BY KindsAt DEF IInv, Numbered
  <2> QED
    BY <2>1 DEF IInv, NumberKept, Unused
<1> QED
  BY <1>1, KnowledgeBase, PTL

\* Current versions only grow, but for deletions and late copies of the old file.
THEOREM CurrentVersionsGrow == Spec => VersionsOnlyGrow
<1> DEFINE Grows == \A d \in Docs :
             \/ published'[d] >= published[d]
             \/ /\ published'[d] = 0
                /\ \E o \in Ops : phase[o] = "unpublishing" /\ Covers(job[o], <<d, published[d]>>)
             \/ "rewound" \in faults'
<1>1. IInv /\ [Next]_vars => [Grows]_vars
  <2> SUFFICES ASSUME IInv, Next, NEW d \in Docs
               PROVE  \/ UNCHANGED vars
                      \/ published'[d] >= published[d]
                      \/ /\ published'[d] = 0
                         /\ \E o \in Ops : /\ phase[o] = "unpublishing"
                                           /\ Covers(job[o], <<d, published[d]>>)
                      \/ "rewound" \in faults'
    OBVIOUS
  <2>1. ASSUME NEW o \in Ops, Step(o)
        PROVE  \/ published'[d] >= published[d]
               \/ /\ published'[d] = 0
                  /\ phase[o] = "unpublishing" /\ Covers(job[o], <<d, published[d]>>)
               \/ "rewound" \in faults'
    <3>1. Unpublish(o) /\ job[o].doc = d /\ job[o].version \in {0, published[d]} =>
            phase[o] = "unpublishing" /\ Covers(job[o], <<d, published[d]>>)
      BY DEF Unpublish, Covers
    <3> QED
      BY <2>1, <3>1, PublishedSteps DEF IInv
  <2> QED
    BY <2>1 DEF Next, Idle
<1>2. Spec => [][Grows]_vars
  BY <1>1, KnowledgeBase, PTL DEF Spec
<1> QED
  BY <1>2 DEF VersionsOnlyGrow

\* Inside one process the lock of the object store is enough: no rewrite of the
\* archive or of the tombstones loses another one.
THEOREM OneProcessLosesNothing == Spec => [](OneProcess => "torn" \notin faults)
<1>1. IInv => (OneProcess => "torn" \notin faults)
  BY DEF IInv, TornOnlyAcrossProcesses
<1> QED
  BY <1>1, KnowledgeBase, PTL
=============================================================================
