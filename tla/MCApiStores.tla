----------------------------- MODULE MCApiStores -----------------------------
(* Values of the constants of ApiStores for TLC. *)
EXTENDS ApiStores, TLC

CONSTANTS c1, c2, c3, old, new, k1, north, south, home, desk, all, user

Job(kind, item, tenant, workspace, scopes) ==
  [kind |-> kind, item |-> item, tenant |-> tenant, workspace |-> workspace,
   scopes |-> scopes]

Queries == {Job("query", NoJob, north, home, s) : s \in {{all, user}, {all}, {user}}}

OnArtifacts ==
  {Job("generate", new, north, home, {}), Job("list artifacts", NoJob, north, home, {})}
    \cup {Job(kind, item, north, home, {}) :
            kind \in {"read artifact", "rename artifact", "delete artifact"},
            item \in {old, new}}

\* Two tenants name the same conversation; one of them, in two workspaces.
OnConversations ==
  {Job(kind, k1, north, home, {}) : kind \in {"get", "save", "rename", "delete"}}
    \cup {Job(kind, k1, south, home, {}) : kind \in {"save", "delete"}}
    \cup {Job(kind, k1, north, desk, {}) : kind \in {"save", "rename"}}
    \cup {Job("list", NoJob, n, home, {}) : n \in {north, south}}

AllJobs == Queries \cup OnArtifacts \cup OnConversations

\* No two scopes have the same limit.
OneAndTwo == [s \in Scopes |-> IF s = user THEN 1 ELSE 2]

CallSymmetry == Permutations(Calls)

\* Bound: the calls of one behaviour are all about artifacts, about conversations
\* or about the limit, which share no rows.
Alike == \E kinds \in {RateKinds, ArtifactKinds, ConversationKinds} :
           \A c \in Calls : job'[c] # NoJob => job'[c].kind \in kinds
AlikeSpec == Init /\ (files = {} \/ archives = {}) /\ [][Next /\ Alike]_vars
=============================================================================
