---------------------------- MODULE Conversations ----------------------------
(***************************************************************************)
(* Conversations: rows of the tables conversations and messages, saved     *)
(* whole by the client, which also chooses their ids.  Conversations that  *)
(* earlier versions kept in a file per tenant are copied into the tables   *)
(* when they are first asked for or listed; the file goes only with the    *)
(* conversation.  Whether there is a row, whose it is, and writing it are  *)
(* statements that other calls may come between.                           *)
(***************************************************************************)
EXTENDS StoreCalls

CONSTANTS
  ConversationIds,
  Tenants,
  Workspaces, Default,  \* Default: "default-workspace", that of all files
  Nobody,               \* whoever wrote the content of a file
  NoRow

VARIABLES
  conversation,  \* id -> its row, with its messages
  archives,      \* <<tenant, id>> of the files
  legacy,        \* call -> what it is about to write comes from a file
  touched        \* history: <<tenant, id>> of the rows saved, renamed or deleted

conversations == <<conversation, archives, legacy, touched>>

ConversationKinds == {"get", "list", "save", "rename", "delete"}

(* by: the call that saved or renamed it last. *)
Conversation == [tenant : Tenants, workspace : Workspaces, by : Calls \cup {Nobody}]

Name(c) == <<job[c].tenant, target[c]>>
Found(c) == conversation[target[c]]
(* WHERE tenant_id = ? AND id = ? *)
Owned(c) == Found(c) # NoRow /\ Found(c).tenant = job[c].tenant

(* ... AND workspace_id = ? *)
Visible(c) == Owned(c) /\ Found(c).workspace = job[c].workspace
(* The workspace of what c is about to write. *)
Place(c) == IF legacy[c] THEN Default ELSE job[c].workspace

ConversationsInit ==
  /\ archives \in SUBSET (Tenants \X ConversationIds)
  /\ \E migrated \in SUBSET archives :
       /\ \A m, n \in migrated : m[2] = n[2] => m = n
       /\ conversation = [k \in ConversationIds |->
            IF \E n \in Tenants : <<n, k>> \in migrated
            THEN [tenant |-> CHOOSE n \in Tenants : <<n, k>> \in migrated,
                  workspace |-> Default, by |-> Nobody]
            ELSE NoRow]
  /\ legacy = [c \in Calls |-> FALSE]
  /\ touched = {}

-----------------------------------------------------------------------------
(* load_conversation, and load_conversation_metadata, which a save calls *)
(* without a workspace.                                                  *)
Look(c) ==
  /\ step[c] = "looking"
  /\ LET there == IF Kind(c) = "save" THEN Owned(c) ELSE Visible(c)
         elsewhere == Kind(c) # "save" /\ job[c].workspace # Default
     IN Go(c, CASE there /\ Kind(c) = "get" -> "done"
                [] there /\ Kind(c) = "rename" -> "updating"
                [] there /\ Kind(c) = "save" -> IF Visible(c) THEN "checking" ELSE "failed"
                [] ~there /\ elsewhere -> "failed"
                [] OTHER -> "opening")
  /\ UNCHANGED <<job, target, todo, overtaken, conversations>>

(* load_legacy_conversation *)
Open(c) ==
  /\ step[c] = "opening"
  /\ legacy' = [legacy EXCEPT ![c] = Name(c) \in archives]
  /\ Go(c, IF Name(c) \in archives \/ Kind(c) = "save" THEN "checking" ELSE "failed")
  /\ UNCHANGED <<job, target, todo, overtaken, conversation, archives, touched>>

(* migrate_legacy_conversations: the names of the tenant's files ... *)
ListFiles(c) ==
  /\ step[c] = "globbing"
  /\ todo' = [todo EXCEPT ![c] =
       {k \in ConversationIds : <<job[c].tenant, k>> \in archives}]
  /\ Go(c, "migrating")
  /\ UNCHANGED <<job, target, overtaken, conversations>>

(* ... each of which is read; one that was removed meanwhile is an error. *)
OpenNext(c) ==
  /\ step[c] = "migrating" /\ Under(c, ConversationKinds)
  /\ \/ todo[c] = {} /\ Go(c, "done") /\ UNCHANGED <<target, todo, legacy>>
     \/ \E k \in todo[c] :
          /\ todo' = [todo EXCEPT ![c] = @ \ {k}]
          /\ target' = [target EXCEPT ![c] = k]
          /\ legacy' = [legacy EXCEPT ![c] = TRUE]
          /\ Go(c, IF <<job[c].tenant, k>> \in archives THEN "asking" ELSE "failed")
  /\ UNCHANGED <<job, overtaken, conversation, archives, touched>>

\* Mutant: what there is is not asked for.
AskNothing(c) ==
  /\ step[c] = "asking"
  /\ Go(c, "checking")
  /\ UNCHANGED <<job, target, todo, overtaken, conversations>>

(* conversation_exists *)
Ask(c) ==
  /\ step[c] = "asking"
  /\ Go(c, IF Owned(c) THEN "migrating" ELSE "checking")
  /\ UNCHANGED <<job, target, todo, overtaken, conversations>>

-----------------------------------------------------------------------------
(* save_conversation_row: its SELECT ... *)
Check(c) ==
  /\ step[c] = "checking"
  /\ Go(c, IF Found(c) = NoRow \/ (Owned(c) /\ Found(c).workspace = Place(c))
           THEN "upserting" ELSE "failed")
  /\ UNCHANGED <<job, target, todo, overtaken, conversations>>

(* A save that finds that the file it has just copied is in another *)
(* workspace fails.                                                 *)
AfterUpsert(c) ==
  CASE ~legacy[c] -> "done"
    [] legacy[c] /\ Kind(c) = "get" -> "done"
    [] legacy[c] /\ Kind(c) = "list" -> "migrating"
    [] legacy[c] /\ Kind(c) = "rename" -> "updating"
    [] legacy[c] /\ Kind(c) = "save" ->
         IF job[c].workspace = Default THEN "checking" ELSE "failed"

Written(c) ==
  [tenant |-> job[c].tenant,
   workspace |-> IF Found(c) = NoRow THEN Place(c) ELSE Found(c).workspace,
   by |-> IF legacy[c] THEN Nobody ELSE c]

\* Mutant: ON CONFLICT without its WHERE.
UpsertAnyway(c) ==
  /\ step[c] = "upserting"
  /\ conversation' = [conversation EXCEPT ![target[c]] = Written(c)]
  /\ touched' = IF legacy[c] THEN touched ELSE touched \cup {Name(c)}
  /\ legacy' = [legacy EXCEPT ![c] = FALSE]
  /\ Overtake(c, target[c])
  /\ Go(c, AfterUpsert(c))
  /\ UNCHANGED <<job, target, todo, archives>>

(* ... and its upsert, of the row and then of its messages. *)
Upsert(c) ==
  /\ step[c] = "upserting"
  /\ \/ /\ Found(c) = NoRow \/ Owned(c)
        /\ conversation' = [conversation EXCEPT ![target[c]] = Written(c)]
        /\ touched' = IF legacy[c] THEN touched ELSE touched \cup {Name(c)}
        /\ legacy' = [legacy EXCEPT ![c] = FALSE]
        /\ Overtake(c, target[c])
        /\ Go(c, AfterUpsert(c))
     \/ /\ Found(c) # NoRow /\ ~Owned(c)
        /\ Go(c, "failed")
        /\ UNCHANGED <<conversation, touched, legacy, overtaken>>
  /\ UNCHANGED <<job, target, todo, archives>>

(* rename_conversation: the UPDATE of the title only. *)
Update(c) ==
  /\ step[c] = "updating"
  /\ IF Visible(c)
     THEN /\ conversation' = [conversation EXCEPT ![target[c]].by = c]
          /\ touched' = touched \cup {Name(c)}
          /\ Overtake(c, target[c])
          /\ Go(c, "done")
     ELSE Go(c, "failed") /\ UNCHANGED <<conversation, touched, overtaken>>
  /\ UNCHANGED <<job, target, todo, archives, legacy>>

(* delete_conversation: the row, with its messages ... *)
Delete(c) ==
  /\ step[c] = "deleting"
  /\ IF Visible(c)
     THEN /\ conversation' = [conversation EXCEPT ![target[c]] = NoRow]
          /\ touched' = touched \cup {Name(c)}
          /\ Overtake(c, target[c])
          /\ Go(c, "unlinking")
     ELSE Go(c, "done") /\ UNCHANGED <<conversation, touched, overtaken>>
  /\ UNCHANGED <<job, target, todo, archives, legacy>>

(* ... and its file, if there was a row. *)
Unlink(c) ==
  /\ step[c] = "unlinking"
  /\ archives' = archives \ {Name(c)}
  /\ Overtake(c, target[c])
  /\ Go(c, "done")
  /\ UNCHANGED <<job, target, todo, conversation, legacy, touched>>

ConversationStep(c) ==
  \/ Look(c) \/ Open(c) \/ ListFiles(c) \/ OpenNext(c) \/ Ask(c) \/ Check(c)
  \/ Upsert(c) \/ Update(c) \/ Delete(c) \/ Unlink(c)

-----------------------------------------------------------------------------
(* A conversation is changed or removed only by calls of its tenant,       *)
(* though tenants may choose the same id and look before they write.       *)
TenantsKeepTheirs(k) ==
  conversation[k] # NoRow /\ conversation'[k] # conversation[k] =>
    \E c \in Calls :
      /\ target[c] = k /\ step'[c] # step[c]
      /\ Under(c, ConversationKinds) /\ job[c].tenant = conversation[k].tenant

(* A step that puts the content of a file back in the place of what was *)
(* saved, renamed or deleted.                                           *)
Restores(k) ==
  /\ conversation'[k] # conversation[k]
  /\ conversation'[k] # NoRow /\ conversation'[k].by = Nobody
  /\ <<conversation'[k].tenant, k>> \in touched

(* What a call saved is in the workspace it named, unless another call *)
(* came before it with the same id.                                    *)
SavedInPlace ==
  \A k \in ConversationIds :
    conversation[k] # NoRow =>
      LET c == conversation[k].by IN
      IF c = Nobody THEN TRUE
      ELSE job[c].workspace = conversation[k].workspace \/ k \in overtaken[c]
=============================================================================
