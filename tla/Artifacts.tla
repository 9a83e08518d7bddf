------------------------------ MODULE Artifacts ------------------------------
(***************************************************************************)
(* Mind maps and tables: rows of the table artifacts.  A request creates   *)
(* the row as "generating" and a background task finishes it; rows written *)
(* by earlier versions as files are copied into the table when they are    *)
(* asked for.  Every write is an upsert of the whole row, from what the    *)
(* call read or made before.  Ids are fresh (uuid4), so that an artifact   *)
(* has one tenant, and its workspace is the one its requests name: "" for  *)
(* those in files.                                                         *)
(***************************************************************************)
EXTENDS StoreCalls

CONSTANTS
  ArtifactIds,
  Legacy  \* ids of earlier versions, which may have a file

VARIABLES
  artifact,  \* id -> its row
  files,     \* ids with a file
  draft,     \* call -> the row it will save
  deleted,   \* history: ids whose row, and file, a call has deleted
  orphans    \* history: ids left "generating" by a fault or an overtaken rename

artifacts == <<artifact, files, draft, deleted, orphans>>

ArtifactKinds == {"generate", "read artifact", "list artifacts", "rename artifact",
                  "delete artifact"}

Absent == [status |-> "absent", title |-> "none"]
Pending == [status |-> "generating", title |-> "given"]
Filed == [status |-> "ready", title |-> "given"]   \* what files hold
Rows == [status : {"generating", "ready", "failed"}, title : {"given", "changed"}]

ArtifactsInit ==
  /\ files \in SUBSET Legacy
  /\ \E migrated \in SUBSET files :
       artifact = [a \in ArtifactIds |-> IF a \in migrated THEN Filed ELSE Absent]
  /\ draft = [c \in Calls |-> Absent]
  /\ deleted = {}
  /\ orphans = {}

Generating(c) == Under(c, {"generate"}) /\ step[c] \in {"building", "saving"}

-----------------------------------------------------------------------------
(* create_mindmap, create_table: the answer is given, then the task runs. *)
Create(c) ==
  /\ step[c] = "creating"
  /\ artifact' = [artifact EXCEPT ![target[c]] = Pending]
  /\ Overtake(c, target[c])
  /\ Go(c, "building")
  /\ UNCHANGED <<job, target, todo, files, draft, deleted, orphans>>

\* Mutant: a failed generation is not recorded.
BuildQuietly(c) ==
  /\ step[c] = "building"
  /\ \/ /\ draft' = [draft EXCEPT ![c] = [Pending EXCEPT !.status = "ready"]]
        /\ Go(c, "saving")
     \/ Go(c, "failed") /\ UNCHANGED draft
  /\ UNCHANGED <<job, target, todo, overtaken, artifact, files, deleted, orphans>>

(* build_mindmap_background, build_table_background: the model's answer, or *)
(* an exception, which fail_metadata_artifact records.                      *)
Build(c) ==
  /\ step[c] = "building"
  /\ \E outcome \in {"ready", "failed"} :
       draft' = [draft EXCEPT ![c] = [Pending EXCEPT !.status = outcome]]
  /\ Go(c, "saving")
  /\ UNCHANGED <<job, target, todo, overtaken, artifact, files, deleted, orphans>>

(* save_metadata_artifact. A rename that was overtaken may write back as   *)
(* "generating" a row that was finished, or deleted, meanwhile.            *)
Save(c) ==
  /\ step[c] = "saving"
  /\ artifact' = [artifact EXCEPT ![target[c]] = draft[c]]
  /\ orphans' = IF /\ Kind(c) = "rename artifact" /\ draft[c].status = "generating"
                   /\ artifact[target[c]].status # "generating"
                THEN orphans \cup {target[c]} ELSE orphans
  /\ Overtake(c, target[c])
  /\ Go(c, IF Kind(c) = "list artifacts" THEN "migrating" ELSE "done")
  /\ UNCHANGED <<job, target, todo, files, draft, deleted>>

(* The transaction of a background task raises: the failure is recorded, *)
(* unless it was that of the failure.                                    *)
SaveRaises(c) ==
  /\ step[c] = "saving" /\ Kind(c) = "generate"
  /\ IF draft[c].status = "ready"
     THEN draft' = [draft EXCEPT ![c].status = "failed"] /\ UNCHANGED <<step, orphans>>
     ELSE Go(c, "failed") /\ orphans' = orphans \cup {target[c]} /\ UNCHANGED draft
  /\ UNCHANGED <<job, target, todo, overtaken, artifact, files, deleted>>

-----------------------------------------------------------------------------
(* get_artifact and rename_artifact: load_metadata_artifact *)
LoadArtifact(c) ==
  /\ step[c] = "loading"
  /\ LET row == artifact[target[c]] IN
     \/ /\ row = Absent /\ Kind(c) = "rename artifact"
        /\ Go(c, "failed") /\ UNCHANGED draft
     \/ /\ row = Absent /\ Kind(c) = "read artifact"
        /\ Go(c, "reading file") /\ UNCHANGED draft
     \/ /\ row # Absent /\ Kind(c) = "read artifact"
        /\ Go(c, "done") /\ UNCHANGED draft
     \/ /\ row # Absent /\ Kind(c) = "rename artifact"
        /\ draft' = [draft EXCEPT ![c] = [row EXCEPT !.title = "changed"]]
        /\ Go(c, "saving")
  /\ UNCHANGED <<job, target, todo, overtaken, artifact, files, deleted, orphans>>

(* load_artifact *)
ReadFile(c) ==
  /\ step[c] = "reading file"
  /\ IF target[c] \in files
     THEN draft' = [draft EXCEPT ![c] = Filed] /\ Go(c, "saving")
     ELSE Go(c, "failed") /\ UNCHANGED draft
  /\ UNCHANGED <<job, target, todo, overtaken, artifact, files, deleted, orphans>>

(* migrate_legacy_artifacts: all files are read, then rows looked for. *)
ReadFiles(c) ==
  /\ step[c] = "listing"
  /\ todo' = [todo EXCEPT ![c] = files]
  /\ Go(c, "migrating")
  /\ UNCHANGED <<job, target, overtaken, artifacts>>

Migrate(c) ==
  /\ step[c] = "migrating" /\ Under(c, ArtifactKinds)
  /\ \/ todo[c] = {} /\ Go(c, "done") /\ UNCHANGED <<target, todo, draft>>
     \/ \E a \in todo[c] :
          /\ todo' = [todo EXCEPT ![c] = @ \ {a}]
          /\ IF artifact[a] = Absent
             THEN /\ target' = [target EXCEPT ![c] = a]
                  /\ draft' = [draft EXCEPT ![c] = Filed]
                  /\ Go(c, "saving")
             ELSE UNCHANGED <<target, draft, step>>
  /\ UNCHANGED <<job, overtaken, artifact, files, deleted, orphans>>

(* remove_artifact: the row, then the file. *)
DeleteRow(c) ==
  /\ step[c] = "deleting row"
  /\ artifact' = [artifact EXCEPT ![target[c]] = Absent]
  /\ deleted' = deleted \cup {target[c]}
  /\ Overtake(c, target[c])
  /\ Go(c, "deleting file")
  /\ UNCHANGED <<job, target, todo, files, draft, orphans>>

DeleteFile(c) ==
  /\ step[c] = "deleting file"
  /\ files' = files \ {target[c]}
  /\ Overtake(c, target[c])
  /\ Go(c, "done")
  /\ UNCHANGED <<job, target, todo, artifact, draft, deleted, orphans>>

ArtifactStep(c) ==
  \/ Create(c) \/ Build(c) \/ Save(c) \/ SaveRaises(c) \/ LoadArtifact(c)
  \/ ReadFile(c) \/ ReadFiles(c) \/ Migrate(c) \/ DeleteRow(c) \/ DeleteFile(c)

-----------------------------------------------------------------------------
(* An artifact that is "generating" is being generated, or it was left so   *)
(* by a process that died, by a database that refused even the failure, or  *)
(* by a rename that wrote back what it had read before the task was done.   *)
GeneratingIsGenerated ==
  \A a \in ArtifactIds :
    artifact[a].status = "generating" =>
      a \in orphans \/ \E c \in Calls : target[c] = a /\ Generating(c)

(* A step that takes back a result, a new title or a deletion. *)
Undoes(a) ==
  \/ artifact[a].status = "ready" /\ artifact'[a].status \in {"generating", "failed"}
  \/ artifact[a].title = "changed" /\ artifact'[a].title = "given"
  \/ a \in deleted /\ artifact[a] = Absent /\ artifact'[a] # Absent
=============================================================================
