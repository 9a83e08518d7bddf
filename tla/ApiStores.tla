------------------------------ MODULE ApiStores ------------------------------
(***************************************************************************)
(* The requests of the API for conversations, artifacts and admission to   *)
(* the query limit, side by side in the threads of any number of servers.  *)
(***************************************************************************)
EXTENDS RateLimits, Artifacts, Conversations

vars == <<calls, rates, artifacts, conversations>>

StoreKinds == RateKinds \cup ArtifactKinds \cup ConversationKinds
Items == ArtifactIds \cup ConversationIds

(* item: what a request names; scopes: of a query. *)
ASSUME StoreAssumption ==
  /\ Jobs \subseteq [kind : StoreKinds, item : Items \cup {NoJob}, tenant : Tenants,
                     workspace : Workspaces, scopes : SUBSET Scopes]
  /\ \A j \in Jobs :
       /\ j.kind \in ArtifactKinds \ {"list artifacts"} => j.item \in ArtifactIds
       /\ j.kind \in ConversationKinds \ {"list"} => j.item \in ConversationIds
       /\ j.kind = "generate" => j.item \notin Legacy
       /\ j.kind \in {"query", "list", "list artifacts"} => j.item = NoJob
  /\ ArtifactIds \cap ConversationIds = {}
  /\ Legacy \subseteq ArtifactIds
  /\ Default \in Workspaces
  /\ NoJob \notin Jobs \cup Items /\ Nobody \notin Calls /\ NoRow \notin Conversation
  /\ Limit \in [Scopes -> Nat]
  /\ MaxWindow \in Nat

Steps == {"idle", "counting", "creating", "building", "saving", "loading", "reading file",
          "listing", "migrating", "deleting row", "deleting file", "looking", "opening",
          "globbing", "asking", "checking", "upserting", "updating", "deleting",
          "unlinking", "done", "failed"}

Init ==
  /\ RatesInit /\ ArtifactsInit /\ ConversationsInit
  /\ job = [c \in Calls |-> NoJob]
  /\ step = [c \in Calls |-> "idle"]
  /\ target = [c \in Calls |-> NoJob]
  /\ todo = [c \in Calls |-> {}]
  /\ overtaken = [c \in Calls |-> {}]

Deleting(c) == step[c] \in {"deleting file", "unlinking"}

(* The client has seen the artifact it names: its creation is answered, and *)
(* it is listed, when its row is there.                                     *)
Seen(a) ==
  a \in Legacy \/ \E r \in Calls :
    Under(r, {"generate"}) /\ target[r] = a /\ step[r] # "creating"

(* A request. The id of a new artifact is new. *)
Start(c) ==
  /\ step[c] = "idle"
  /\ \E j \in Jobs :
       /\ j.kind \in {"read artifact", "rename artifact", "delete artifact"} => Seen(j.item)
       /\ j.kind = "generate" => \A r \in Calls : target[r] # j.item
       /\ job' = [job EXCEPT ![c] = j]
       /\ target' = [target EXCEPT ![c] = j.item]
       /\ Go(c, CASE j.kind = "query" -> "counting"
                  [] j.kind = "generate" -> "creating"
                  [] j.kind \in {"read artifact", "rename artifact"} -> "loading"
                  [] j.kind = "list artifacts" -> "listing"
                  [] j.kind = "delete artifact" -> "deleting row"
                  [] j.kind \in {"get", "save", "rename"} -> "looking"
                  [] j.kind = "list" -> "globbing"
                  [] j.kind = "delete" -> "deleting")
  /\ overtaken' = [overtaken EXCEPT ![c] = {target[r] : r \in {r \in Calls : Deleting(r)}}]
  /\ UNCHANGED <<todo, rates, artifacts, conversations>>

(* The process dies, or the database or a file raises what nobody handles. *)
(* A deletion that stopped half-way was not reported as done.              *)
Break(c) ==
  /\ step[c] \notin {"idle", "done", "failed"}
  /\ Go(c, "failed")
  /\ orphans' = IF Generating(c) THEN orphans \cup {target[c]} ELSE orphans
  /\ deleted' = IF step[c] = "deleting file" THEN deleted \ {target[c]} ELSE deleted
  /\ touched' = IF step[c] = "unlinking" THEN touched \ {Name(c)} ELSE touched
  /\ UNCHANGED <<job, target, todo, overtaken, rates, artifact, files, draft, conversation,
                 archives, legacy>>

Next ==
  \/ \E c \in Calls :
       \/ Start(c)
       \/ Count(c) /\ UNCHANGED <<artifacts, conversations>>
       \/ ArtifactStep(c) /\ UNCHANGED <<rates, conversations>>
       \/ ConversationStep(c) /\ UNCHANGED <<rates, artifacts>>
       \/ Break(c)
  \/ Tick /\ UNCHANGED <<artifacts, conversations>>

Spec == Init /\ [][Next]_vars

-----------------------------------------------------------------------------
TypeOK ==
  /\ job \in [Calls -> Jobs \cup {NoJob}]
  /\ step \in [Calls -> Steps]
  /\ target \in [Calls -> Items \cup {NoJob}]
  /\ todo \in [Calls -> SUBSET Items]
  /\ overtaken \in [Calls -> SUBSET Items]
  /\ now \in Windows
  /\ requests \in [Scopes -> [Windows -> Nat]]
  /\ admitted \in [Scopes -> [Windows -> Nat]]
  /\ artifact \in [ArtifactIds -> Rows \cup {Absent}]
  /\ files \subseteq Legacy
  /\ draft \in [Calls -> Rows \cup {Absent}]
  /\ deleted \subseteq ArtifactIds
  /\ orphans \subseteq ArtifactIds
  /\ conversation \in [ConversationIds -> Conversation \cup {NoRow}]
  /\ archives \subseteq Tenants \X ConversationIds
  /\ legacy \in [Calls -> BOOLEAN]
  /\ touched \subseteq Tenants \X ConversationIds

(* What a finished call wrote, renamed or deleted is undone only by a call   *)
(* that began before that and still holds what it had read: by a background  *)
(* task or a rename that writes a whole row, or by a migration. A migration  *)
(* that begins later finds the row, or no file.                              *)
OnlyOvertakenUndo ==
  [][/\ \A a \in ArtifactIds : Undoes(a) =>
          \E c \in Calls : /\ target[c] = a /\ a \in overtaken[c]
                           /\ step[c] = "saving" /\ step'[c] # "saving"
     /\ \A k \in ConversationIds : Restores(k) =>
          \E c \in Calls : /\ target[c] = k /\ k \in overtaken[c]
                           /\ step[c] = "upserting" /\ step'[c] # "upserting"]_vars

(* Tenants keep their conversations, see TenantsKeepTheirs. *)
TenantsApart == [][\A k \in ConversationIds : TenantsKeepTheirs(k)]_vars

-----------------------------------------------------------------------------
(* The inductive invariant: what each step may rely on, unless the item was *)
(* changed by another call since this one began.                            *)
StepsOf(kind) ==
  CASE kind = "query" -> {"counting"}
    [] kind = "generate" -> {"creating", "building", "saving"}
    [] kind = "read artifact" -> {"loading", "reading file", "saving"}
    [] kind = "rename artifact" -> {"loading", "saving"}
    [] kind = "list artifacts" -> {"listing", "migrating", "saving"}
    [] kind = "delete artifact" -> {"deleting row", "deleting file"}
    [] kind = "get" -> {"looking", "opening", "checking", "upserting"}
    [] kind = "save" -> {"looking", "opening", "checking", "upserting"}
    [] kind = "rename" -> {"looking", "opening", "checking", "upserting", "updating"}
    [] kind = "list" -> {"globbing", "migrating", "asking", "checking", "upserting"}
    [] kind = "delete" -> {"deleting", "unlinking"}

CallFits(c) ==
  IF job[c] = NoJob
  THEN step[c] = "idle" /\ target[c] = NoJob /\ todo[c] = {} /\ ~legacy[c]
  ELSE /\ step[c] \in StepsOf(Kind(c)) \cup {"done", "failed"}
       /\ Kind(c) \notin {"list", "list artifacts"} => target[c] = job[c].item
       /\ Kind(c) = "list artifacts" => todo[c] \subseteq Legacy /\ target[c] \in Legacy \cup {NoJob}
       /\ Kind(c) = "list artifacts" /\ step[c] = "saving" => target[c] \in Legacy
       /\ Kind(c) = "list" =>
            todo[c] \subseteq ConversationIds /\ target[c] \in ConversationIds \cup {NoJob}
       /\ Kind(c) = "list" /\ step[c] \in {"asking", "checking", "upserting"} =>
            target[c] \in ConversationIds
       /\ Under(c, {"read artifact", "rename artifact", "delete artifact"}) => Seen(target[c])
       /\ step[c] \in {"looking", "opening"} => ~legacy[c]

(* The id of an artifact that is, or was, there has been seen. *)
FreshIds ==
  \A a \in ArtifactIds : artifact[a] # Absent \/ a \in deleted => Seen(a)

(* What c has read of its artifact still stands. *)
DraftFits(c) ==
  LET a == target[c]
      fresh == a \notin overtaken[c]
  IN /\ step[c] = "creating" =>
          /\ artifact[a] = Absent /\ a \notin deleted
          /\ \A r \in Calls \ {c} : target[r] # a
     /\ Generating(c) /\ fresh => artifact[a] = Pending
     /\ Under(c, {"generate"}) /\ step[c] = "saving" =>
          draft[c] \in Rows /\ draft[c].title = "given" /\ draft[c].status # "generating"
     /\ Under(c, {"rename artifact"}) /\ step[c] = "saving" =>
          /\ draft[c] \in Rows /\ draft[c].title = "changed"
          /\ fresh => artifact[a] # Absent /\ artifact[a].status = draft[c].status
     /\ step[c] = "reading file" /\ fresh => artifact[a] = Absent
     /\ Under(c, {"read artifact", "list artifacts"}) /\ step[c] = "saving" =>
          draft[c] = Filed /\ (fresh => artifact[a] = Absent /\ a \notin deleted)
     /\ Under(c, {"list artifacts"}) => todo[c] \cap deleted \subseteq overtaken[c]

(* So does what it has read of its conversation. *)
CopyFits(c) ==
  LET fresh == target[c] \notin overtaken[c]
      mine == job[c].tenant
  IN /\ step[c] = "opening" \/ (step[c] = "checking" /\ legacy[c]) =>
          (Kind(c) \in {"get", "rename"} => job[c].workspace = Default)
     /\ fresh /\ (step[c] = "opening" \/ (step[c] = "checking" /\ legacy[c])) =>
          IF Kind(c) \in {"save", "list"} THEN ~Owned(c) ELSE ~Visible(c)
     /\ fresh /\ step[c] \in {"asking", "checking"} /\ legacy[c] =>
          (Name(c) \in touched => Owned(c))
     /\ step[c] = "asking" => legacy[c]
     /\ fresh /\ step[c] = "upserting" =>
          IF legacy[c] THEN Name(c) \notin touched
          ELSE Found(c) = NoRow \/ Visible(c)
     /\ step[c] \in {"checking", "upserting"} /\ ~legacy[c] => Kind(c) = "save"

(* A call that is under way while an item is being deleted was overtaken. *)
DeletionsOvertake ==
  \A r, c \in Calls : Deleting(r) /\ c # r /\ step[c] # "idle" => target[r] \in overtaken[c]

(* A file goes before the deletion of its item is over. *)
FilesGo ==
  \A a \in files \cap deleted :
    \E r \in Calls : step[r] = "deleting file" /\ target[r] = a

ArchivesGo ==
  \A m \in archives \cap touched :
    \/ conversation[m[2]] # NoRow /\ conversation[m[2]].tenant = m[1]
    \/ \E r \in Calls : step[r] = "unlinking" /\ Name(r) = m

SaversKnown ==
  \A k \in ConversationIds :
    conversation[k] # NoRow /\ conversation[k].by # Nobody =>
      Under(conversation[k].by, {"save", "rename"})

CallsInv == TypeOK /\ (\A c \in Calls : CallFits(c)) /\ DeletionsOvertake

ArtifactsInv ==
  (\A c \in Calls : DraftFits(c)) /\ FreshIds /\ FilesGo /\ GeneratingIsGenerated

ConversationsInv ==
  (\A c \in Calls : CopyFits(c)) /\ ArchivesGo /\ SaversKnown /\ SavedInPlace

IInv == CallsInv /\ ArtifactsInv /\ ConversationsInv /\ WindowsCountAdmissions
=============================================================================
