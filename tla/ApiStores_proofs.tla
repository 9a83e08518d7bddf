-------------------------- MODULE ApiStores_proofs --------------------------
(***************************************************************************)
(* Proofs about ApiStores, for any number of calls, artifacts,             *)
(* conversations, tenants, workspaces, scopes, limits and windows.         *)
(***************************************************************************)
EXTENDS ApiStores, TLAPS

\* What a step says of the call that is at it.
LEMMA StepKinds ==
  ASSUME TypeOK, NEW c \in Calls, CallFits(c), step[c] # "idle"
  PROVE  /\ job[c] \in Jobs /\ job[c] # NoJob /\ Kind(c) \in StoreKinds
         /\ job[c].tenant \in Tenants /\ job[c].workspace \in Workspaces
         /\ job[c].scopes \subseteq Scopes
         /\ step[c] = "counting" => Kind(c) = "query"
         /\ step[c] \in {"creating", "building"} => Kind(c) = "generate"
         /\ step[c] = "saving" => Kind(c) \in {"generate", "read artifact", "rename artifact", "list artifacts"}
         /\ step[c] = "loading" => Kind(c) \in {"read artifact", "rename artifact"}
         /\ step[c] = "reading file" => Kind(c) = "read artifact"
         /\ step[c] = "listing" => Kind(c) = "list artifacts"
         /\ step[c] = "migrating" => Kind(c) \in {"list artifacts", "list"}
         /\ step[c] \in {"deleting row", "deleting file"} => Kind(c) = "delete artifact"
         /\ step[c] \in {"looking", "opening"} => Kind(c) \in {"get", "save", "rename"}
         /\ step[c] \in {"globbing", "asking"} => Kind(c) = "list"
         /\ step[c] \in {"checking", "upserting"} => Kind(c) \in {"get", "save", "rename", "list"}
         /\ step[c] = "updating" => Kind(c) = "rename"
         /\ step[c] \in {"deleting", "unlinking"} => Kind(c) = "delete"
<1>0. job[c] # NoJob /\ step[c] \in StepsOf(Kind(c)) \cup {"done", "failed"}
  BY DEF CallFits
<1>1. /\ job[c] # NoJob /\ job[c] \in Jobs /\ Kind(c) \in StoreKinds
      /\ step[c] \in StepsOf(Kind(c)) \cup {"done", "failed"}
  <2>1. job[c] \in Jobs
    BY <1>0 DEF TypeOK
  <2>2. job[c].kind \in StoreKinds
    BY <2>1, StoreAssumption
  <2> QED
    BY <1>0, <2>1, <2>2 DEF Kind
<1>2. /\ job[c].tenant \in Tenants /\ job[c].workspace \in Workspaces
      /\ job[c].scopes \subseteq Scopes
  BY <1>1, StoreAssumption
<1> QED
  BY <1>1, <1>2 DEF StepsOf, StoreKinds, RateKinds, ArtifactKinds, ConversationKinds

\* What it works on.
LEMMA StepTargets ==
  ASSUME TypeOK, NEW c \in Calls, CallFits(c), step[c] # "idle"
  PROVE  /\ step[c] \in {"creating", "building", "saving", "loading", "reading file",
                         "deleting row", "deleting file"} => target[c] \in ArtifactIds
         /\ (step[c] = "saving" /\ Kind(c) \in {"generate", "rename artifact"})
              \/ step[c] \in {"creating", "building"}
              => target[c] = job[c].item
         /\ Kind(c) = "generate" => target[c] \notin Legacy
         /\ step[c] \in {"looking", "opening", "asking", "checking", "upserting", "updating",
                         "deleting", "unlinking"} => target[c] \in ConversationIds
<1>1. /\ job[c] # NoJob /\ job[c] \in Jobs /\ job[c].kind = Kind(c)
  BY StepKinds DEF Kind
<1>2. /\ Kind(c) \in ArtifactKinds \ {"list artifacts"} => job[c].item \in ArtifactIds
      /\ Kind(c) \in ConversationKinds \ {"list"} => job[c].item \in ConversationIds
      /\ Kind(c) = "generate" => job[c].item \notin Legacy
      /\ Legacy \subseteq ArtifactIds
  BY <1>1, StoreAssumption
<1>3. /\ Kind(c) \notin {"list", "list artifacts"} => target[c] = job[c].item
      /\ Kind(c) = "list artifacts" /\ step[c] = "saving" => target[c] \in Legacy
      /\ Kind(c) = "list" /\ step[c] \in {"asking", "checking", "upserting"} =>
           target[c] \in ConversationIds
  BY <1>1 DEF CallFits
<1> QED
  BY <1>2, <1>3, StepKinds DEF ArtifactKinds, ConversationKinds

LEMMA ListTargets ==
  ASSUME NEW c \in Calls, CallFits(c), job[c] # NoJob
  PROVE  /\ Kind(c) = "list artifacts" => todo[c] \subseteq Legacy /\ target[c] \in Legacy \cup {NoJob}
         /\ Kind(c) = "list" => todo[c] \subseteq ConversationIds /\ target[c] \in ConversationIds \cup {NoJob}
         /\ Kind(c) = "list" /\ step[c] \in {"asking", "checking", "upserting"} => target[c] \in ConversationIds
         /\ Kind(c) = "list artifacts" /\ step[c] = "saving" => target[c] \in Legacy
         /\ step[c] \in {"looking", "opening"} => ~legacy[c]
BY DEF CallFits

LEMMA GoSteps ==
  ASSUME step \in [Calls -> Steps], NEW c \in Calls, NEW s \in Steps, Go(c, s)
  PROVE  step' \in [Calls -> Steps] /\ step'[c] = s
BY DEF Go

LEMMA OvertakeItems ==
  ASSUME overtaken \in [Calls -> SUBSET Items], NEW c \in Calls, NEW i \in Items, Overtake(c, i)
  PROVE  overtaken' \in [Calls -> SUBSET Items]
BY DEF Overtake

-----------------------------------------------------------------------------
(* What a step of c leaves to the other calls.                             *)

KeepsOthers(c) ==
  \A r \in Calls \ {c} :
    /\ job'[r] = job[r] /\ step'[r] = step[r] /\ target'[r] = target[r]
    /\ todo'[r] = todo[r] /\ legacy'[r] = legacy[r] /\ draft'[r] = draft[r]
    /\ overtaken[r] \subseteq overtaken'[r]

OvertakesWriters(c) ==
  /\ \A a \in ArtifactIds :
       artifact'[a] # artifact[a] \/ (a \in deleted' /\ a \notin deleted) =>
         a = target[c] /\ \A r \in Calls \ {c} : a \in overtaken'[r]
  /\ \A k \in ConversationIds :
       conversation'[k] # conversation[k]
         \/ (\E n \in Tenants : <<n, k>> \in touched' /\ <<n, k>> \notin touched) =>
         k = target[c] /\ \A r \in Calls \ {c} : k \in overtaken'[r]

\* A call that is under way takes a step of its kind.
Advance(c) ==
  /\ KeepsOthers(c) /\ OvertakesWriters(c)
  /\ job' = job /\ step[c] # "idle" /\ step'[c] \notin {"idle", "creating"}
  /\ overtaken'[c] = overtaken[c]
  /\ step'[c] \in StepsOf(Kind(c)) \cup {"done", "failed"}
  /\ Kind(c) \notin {"list", "list artifacts"} => target'[c] = target[c]
  /\ Kind(c) = "list artifacts" => todo'[c] \subseteq Legacy /\ target'[c] \in Legacy \cup {NoJob}
  /\ Kind(c) = "list artifacts" /\ step'[c] = "saving" => target'[c] \in Legacy
  /\ Kind(c) = "list" => todo'[c] \subseteq ConversationIds /\ target'[c] \in ConversationIds \cup {NoJob}
  /\ Kind(c) = "list" /\ step'[c] \in {"asking", "checking", "upserting"} =>
       target'[c] \in ConversationIds
  /\ step'[c] \in {"looking", "opening"} => ~legacy'[c]
  /\ step'[c] \in {"deleting file", "unlinking"} =>
       \A r \in Calls \ {c} : target'[c] \in overtaken'[r]

LEMMA SeenGrows ==
  ASSUME TypeOK, NEW c \in Calls, CallFits(c), KeepsOthers(c),
         \/ job[c] = NoJob
         \/ /\ job'[c] = job[c] /\ step'[c] # "creating"
            /\ Kind(c) = "generate" => target'[c] = target[c]
  PROVE  \A a : Seen(a) => Seen(a)'
<1> SUFFICES ASSUME NEW a, Seen(a) PROVE Seen(a)'
  OBVIOUS
<1>1. CASE a \in Legacy
  BY <1>1 DEF Seen
<1>2. CASE \E r \in Calls : Under(r, {"generate"}) /\ target[r] = a /\ step[r] # "creating"
  <2>1. PICK r \in Calls : Under(r, {"generate"}) /\ target[r] = a /\ step[r] # "creating"
    BY <1>2
  <2>2. /\ job[r] # NoJob /\ job[r].kind = "generate"
        /\ job'[r] = job[r] /\ target'[r] = a /\ step'[r] # "creating"
    BY <2>1 DEF KeepsOthers, Under, Kind
  <2> QED
    BY <2>2 DEF Seen, Under, Kind
<1> QED
  BY <1>1, <1>2 DEF Seen

LEMMA OthersFit ==
  ASSUME TypeOK, NEW c \in Calls, KeepsOthers(c), NEW r \in Calls, r # c, CallFits(r),
         \A a : Seen(a) => Seen(a)'
  PROVE  CallFits(r)'
<1>1. /\ job'[r] = job[r] /\ step'[r] = step[r] /\ target'[r] = target[r]
      /\ todo'[r] = todo[r] /\ legacy'[r] = legacy[r]
  BY DEF KeepsOthers
<1> QED
  BY <1>1 DEF CallFits, Under, Kind

LEMMA AdvanceKeepsCalls ==
  ASSUME CallsInv, NEW c \in Calls, Advance(c), TypeOK'
  PROVE  CallsInv' /\ \A a : Seen(a) => Seen(a)'
<1> USE DEF CallsInv
<1>1. \A a : Seen(a) => Seen(a)'
  <2>1. job'[c] = job[c] /\ step'[c] # "creating" /\ (Kind(c) = "generate" => target'[c] = target[c])
    BY DEF Advance
  <2> QED
    BY <2>1, SeenGrows DEF Advance
<1>2. job[c] # NoJob /\ job'[c] = job[c] /\ Kind(c)' = Kind(c)
  BY DEF Advance, CallFits, Kind
<1>3. CallFits(c)'
  <2>1. Under(c, {"read artifact", "rename artifact", "delete artifact"})' => Seen(target[c])'
    BY <1>1, <1>2 DEF Advance, CallFits, Under, Kind
  <2>2. Under(c, {"read artifact", "rename artifact", "delete artifact"})' => Seen(target'[c])
    BY <1>1, <1>2 DEF Advance, CallFits, Under, Kind
  <2> QED
    BY <1>1, <1>2, <2>1 DEF Advance, CallFits, Under, Kind
<1>4. \A r \in Calls : CallFits(r)'
  BY <1>1, <1>3, OthersFit DEF Advance
<1>5. DeletionsOvertake'
  <2> SUFFICES ASSUME NEW r \in Calls, NEW q \in Calls, Deleting(r)', q # r, step'[q] # "idle"
               PROVE  target'[r] \in overtaken'[q]
    BY DEF DeletionsOvertake
  <2>1. CASE r = c
    BY <2>1 DEF Advance, Deleting
  <2>2. CASE r # c
    <3>1. Deleting(r) /\ target'[r] = target[r] /\ step[q] # "idle"
      BY <2>2 DEF Advance, KeepsOthers, Deleting
    <3>2. target[r] \in overtaken[q]
      BY <3>1 DEF DeletionsOvertake
    <3>3. overtaken[q] \subseteq overtaken'[q]
      BY DEF Advance, KeepsOthers
    <3> QED
      BY <3>1, <3>2, <3>3
  <2> QED
    BY <2>1, <2>2
<1> QED
  BY <1>1, <1>4, <1>5

LEMMA ArtifactsAdvance ==
  ASSUME CallsInv, NEW c \in Calls, ArtifactStep(c), UNCHANGED <<rates, conversations>>
  PROVE  TypeOK' /\ Advance(c)
<1>a. /\ TypeOK /\ Legacy \subseteq ArtifactIds /\ Default \in Workspaces
      /\ Nobody \notin Calls /\ UNCHANGED <<now, requests, admitted, conversation, archives, legacy, touched>>
  BY StoreAssumption DEF CallsInv, rates, conversations
<1>1. CASE Create(c)
  <2> USE <1>1
  <2>0. step[c] = "creating" /\ CallFits(c)
    BY DEF Create, CallsInv
  <2>1. /\ step[c] = "creating" /\ step[c] # "idle" /\ CallFits(c) /\ job[c] # NoJob
        /\ Kind(c) \in {"generate"}
    BY <2>0, <1>a, StepKinds DEF Create, Under, ArtifactKinds, ConversationKinds
  <2>2. TypeOK'
    BY <2>1, StepKinds, StepTargets, <1>a DEF Create, TypeOK, Steps, Go, Overtake, Items, Rows, Pending, Filed, Under
  <2>3. KeepsOthers(c)
    BY <1>a DEF Create, KeepsOthers, Go, Overtake, TypeOK
  <2>4. OvertakesWriters(c)
    BY <1>a DEF Create, OvertakesWriters, Go, Overtake, TypeOK
  <2>5. /\ job' = job /\ overtaken'[c] = overtaken[c]
        /\ step'[c] \in {"building"}
    BY <2>1, <1>a DEF Create, Go, Overtake, TypeOK
  <2>6. step'[c] \in StepsOf(Kind(c)) \cup {"done", "failed"}
    BY <2>1, <2>5, <1>a, StepKinds DEF Create, Go, TypeOK, StepsOf, Under, ArtifactKinds, ConversationKinds
  <2>7. /\ target'[c] = target[c] /\ todo'[c] = todo[c]
        /\ Kind(c) = "list artifacts" => todo[c] \subseteq Legacy /\ target[c] \in Legacy \cup {NoJob}
        /\ Kind(c) = "list" => todo[c] \subseteq ConversationIds /\ target[c] \in ConversationIds \cup {NoJob}
        /\ Kind(c) = "list" /\ step[c] \in {"asking", "checking", "upserting"} => target[c] \in ConversationIds
    BY <2>1, <1>a, ListTargets DEF Create, TypeOK
  <2>8. step'[c] \in {"looking", "opening"} => ~legacy'[c]
    BY <2>1, <2>5, <1>a DEF Create
  <2>9. step'[c] \in {"deleting file", "unlinking"} => \A r \in Calls \ {c} : target'[c] \in overtaken'[r]
    BY <2>5, <1>a DEF Create, Go, Overtake, TypeOK
  <2> QED
    BY <2>1, <2>2, <2>3, <2>4, <2>5, <2>6, <2>7, <2>8, <2>9 DEF Advance
<1>2. CASE Build(c)
  <2> USE <1>2
  <2>0. step[c] = "building" /\ CallFits(c)
    BY DEF Build, CallsInv
  <2>1. /\ step[c] = "building" /\ step[c] # "idle" /\ CallFits(c) /\ job[c] # NoJob
        /\ Kind(c) \in {"generate"}
    BY <2>0, <1>a, StepKinds DEF Build, Under, ArtifactKinds, ConversationKinds
  <2>t. draft' \in [Calls -> Rows \cup {Absent}]
    <3>1. \A outcome \in {"ready", "failed"} : [Pending EXCEPT !.status = outcome] \in Rows
      BY DEF Pending, Rows
    <3> QED
      BY <3>1, <1>a DEF Build, TypeOK
  <2>s. step' \in [Calls -> Steps]
    <3>1. step' = step \/ \E s \in {"saving"} : Go(c, s)
      BY DEF Build
    <3>2. \A s \in {"saving"} : s \in Steps
      BY DEF Steps
    <3> QED
      BY <3>1, <3>2, <1>a, GoSteps DEF TypeOK
  <2>o. overtaken' \in [Calls -> SUBSET Items]
    <3>1. overtaken' = overtaken \/ Overtake(c, target[c])
      BY DEF Build
    <3>2. target[c] \in Items \/ overtaken' = overtaken
      BY <2>1, <1>a, StepTargets DEF Build, Items
    <3> QED
      BY <3>1, <3>2, <1>a, OvertakeItems DEF TypeOK
  <2>2. TypeOK'
    BY <2>t, <2>s, <2>o, <1>a DEF Build, TypeOK
  <2>3. KeepsOthers(c)
    BY <1>a DEF Build, KeepsOthers, Go, Overtake, TypeOK
  <2>4. OvertakesWriters(c)
    BY <1>a DEF Build, OvertakesWriters, Go, Overtake, TypeOK
  <2>5. /\ job' = job /\ overtaken'[c] = overtaken[c]
        /\ step'[c] \in {"saving"}
    BY <2>1, <1>a DEF Build, Go, Overtake, TypeOK
  <2>6. step'[c] \in StepsOf(Kind(c)) \cup {"done", "failed"}
    BY <2>1, <2>5, <1>a, StepKinds DEF Build, Go, TypeOK, StepsOf, Under, ArtifactKinds, ConversationKinds
  <2>7. /\ target'[c] = target[c] /\ todo'[c] = todo[c]
        /\ Kind(c) = "list artifacts" => todo[c] \subseteq Legacy /\ target[c] \in Legacy \cup {NoJob}
        /\ Kind(c) = "list" => todo[c] \subseteq ConversationIds /\ target[c] \in ConversationIds \cup {NoJob}
        /\ Kind(c) = "list" /\ step[c] \in {"asking", "checking", "upserting"} => target[c] \in ConversationIds
    BY <2>1, <1>a, ListTargets DEF Build, TypeOK
  <2>8. step'[c] \in {"looking", "opening"} => ~legacy'[c]
    BY <2>1, <2>5, <1>a DEF Build
  <2>9. step'[c] \in {"deleting file", "unlinking"} => \A r \in Calls \ {c} : target'[c] \in overtaken'[r]
    BY <2>5, <1>a DEF Build, Go, Overtake, TypeOK
  <2> QED
    BY <2>1, <2>2, <2>3, <2>4, <2>5, <2>6, <2>7, <2>8, <2>9 DEF Advance
<1>3. CASE Save(c)
  <2> USE <1>3
  <2>0. step[c] = "saving" /\ CallFits(c)
    BY DEF Save, CallsInv
  <2>1. /\ step[c] = "saving" /\ step[c] # "idle" /\ CallFits(c) /\ job[c] # NoJob
        /\ Kind(c) \in {"generate", "read artifact", "rename artifact", "list artifacts"}
    BY <2>0, <1>a, StepKinds DEF Save, Under, ArtifactKinds, ConversationKinds
  <2>2. TypeOK'
    BY <2>1, StepKinds, StepTargets, <1>a DEF Save, TypeOK, Steps, Go, Overtake, Items, Rows, Pending, Filed, Under
  <2>3. KeepsOthers(c)
    BY <1>a DEF Save, KeepsOthers, Go, Overtake, TypeOK
  <2>4. OvertakesWriters(c)
    BY <1>a DEF Save, OvertakesWriters, Go, Overtake, TypeOK
  <2>5. /\ job' = job /\ overtaken'[c] = overtaken[c]
        /\ step'[c] \in {"migrating", "done"}
    BY <2>1, <1>a DEF Save, Go, Overtake, TypeOK
  <2>6. step'[c] \in StepsOf(Kind(c)) \cup {"done", "failed"}
    BY <2>1, <2>5, <1>a, StepKinds DEF Save, Go, TypeOK, StepsOf, Under, ArtifactKinds, ConversationKinds
  <2>7. /\ target'[c] = target[c] /\ todo'[c] = todo[c]
        /\ Kind(c) = "list artifacts" => todo[c] \subseteq Legacy /\ target[c] \in Legacy \cup {NoJob}
        /\ Kind(c) = "list" => todo[c] \subseteq ConversationIds /\ target[c] \in ConversationIds \cup {NoJob}
        /\ Kind(c) = "list" /\ step[c] \in {"asking", "checking", "upserting"} => target[c] \in ConversationIds
    BY <2>1, <1>a, ListTargets DEF Save, TypeOK
  <2>8. step'[c] \in {"looking", "opening"} => ~legacy'[c]
    BY <2>1, <2>5, <1>a DEF Save
  <2>9. step'[c] \in {"deleting file", "unlinking"} => \A r \in Calls \ {c} : target'[c] \in overtaken'[r]
    BY <2>5, <1>a DEF Save, Go, Overtake, TypeOK
  <2> QED
    BY <2>1, <2>2, <2>3, <2>4, <2>5, <2>6, <2>7, <2>8, <2>9 DEF Advance
<1>4. CASE SaveRaises(c)
  <2> USE <1>4
  <2>0. step[c] = "saving" /\ CallFits(c)
    BY DEF SaveRaises, CallsInv
  <2>1. /\ step[c] = "saving" /\ step[c] # "idle" /\ CallFits(c) /\ job[c] # NoJob
        /\ Kind(c) \in {"generate"}
    BY <2>0, <1>a, StepKinds DEF SaveRaises, Under, ArtifactKinds, ConversationKinds
  <2>t. /\ draft' \in [Calls -> Rows \cup {Absent}] /\ orphans' \subseteq ArtifactIds
    <3>1. draft[c].status = "ready" => [draft[c] EXCEPT !.status = "failed"] \in Rows
      BY <1>a DEF TypeOK, Rows, Absent
    <3>2. target[c] \in ArtifactIds
      BY <2>1, <1>a, StepTargets
    <3> QED
      BY <3>1, <3>2, <1>a DEF SaveRaises, TypeOK
  <2>s. step' \in [Calls -> Steps]
    <3>1. step' = step \/ \E s \in {"saving", "failed"} : Go(c, s)
      BY DEF SaveRaises
    <3>2. \A s \in {"saving", "failed"} : s \in Steps
      BY DEF Steps
    <3> QED
      BY <3>1, <3>2, <1>a, GoSteps DEF TypeOK
  <2>o. overtaken' \in [Calls -> SUBSET Items]
    <3>1. overtaken' = overtaken \/ Overtake(c, target[c])
      BY DEF SaveRaises
    <3>2. target[c] \in Items \/ overtaken' = overtaken
      BY <2>1, <1>a, StepTargets DEF SaveRaises, Items
    <3> QED
      BY <3>1, <3>2, <1>a, OvertakeItems DEF TypeOK
  <2>2. TypeOK'
    BY <2>t, <2>s, <2>o, <1>a DEF SaveRaises, TypeOK
  <2>3. KeepsOthers(c)
    BY <1>a DEF SaveRaises, KeepsOthers, Go, Overtake, TypeOK
  <2>4. OvertakesWriters(c)
    BY <1>a DEF SaveRaises, OvertakesWriters, Go, Overtake, TypeOK
  <2>5. /\ job' = job /\ overtaken'[c] = overtaken[c]
        /\ step'[c] \in {"saving", "failed"}
    BY <2>1, <1>a DEF SaveRaises, Go, Overtake, TypeOK
  <2>6. step'[c] \in StepsOf(Kind(c)) \cup {"done", "failed"}
    BY <2>1, <2>5, <1>a, StepKinds DEF SaveRaises, Go, TypeOK, StepsOf, Under, ArtifactKinds, ConversationKinds
  <2>7. /\ target'[c] = target[c] /\ todo'[c] = todo[c]
        /\ Kind(c) = "list artifacts" => todo[c] \subseteq Legacy /\ target[c] \in Legacy \cup {NoJob}
        /\ Kind(c) = "list" => todo[c] \subseteq ConversationIds /\ target[c] \in ConversationIds \cup {NoJob}
        /\ Kind(c) = "list" /\ step[c] \in {"asking", "checking", "upserting"} => target[c] \in ConversationIds
    BY <2>1, <1>a, ListTargets DEF SaveRaises, TypeOK
  <2>8. step'[c] \in {"looking", "opening"} => ~legacy'[c]
    BY <2>1, <2>5, <1>a DEF SaveRaises
  <2>9. step'[c] \in {"deleting file", "unlinking"} => \A r \in Calls \ {c} : target'[c] \in overtaken'[r]
    BY <2>5, <1>a DEF SaveRaises, Go, Overtake, TypeOK
  <2> QED
    BY <2>1, <2>2, <2>3, <2>4, <2>5, <2>6, <2>7, <2>8, <2>9 DEF Advance
<1>5. CASE LoadArtifact(c)
  <2> USE <1>5
  <2>0. step[c] = "loading" /\ CallFits(c)
    BY DEF LoadArtifact, CallsInv
  <2>1. /\ step[c] = "loading" /\ step[c] # "idle" /\ CallFits(c) /\ job[c] # NoJob
        /\ Kind(c) \in {"read artifact", "rename artifact"}
    BY <2>0, <1>a, StepKinds DEF LoadArtifact, Under, ArtifactKinds, ConversationKinds
  <2>t. draft' \in [Calls -> Rows \cup {Absent}]
    <3>0. \A row \in Rows : [row EXCEPT !.title = "changed"] \in Rows
      BY DEF Rows
    <3>1. artifact[target[c]] # Absent => [artifact[target[c]] EXCEPT !.title = "changed"] \in Rows
      BY <2>1, <3>0, <1>a, StepTargets DEF TypeOK
    <3> QED
      BY <3>1, <1>a DEF LoadArtifact, TypeOK
  <2>s. step' \in [Calls -> Steps]
    <3>1. step' = step \/ \E s \in {"failed", "reading file", "done", "saving"} : Go(c, s)
      BY DEF LoadArtifact
    <3>2. \A s \in {"failed", "reading file", "done", "saving"} : s \in Steps
      BY DEF Steps
    <3> QED
      BY <3>1, <3>2, <1>a, GoSteps DEF TypeOK
  <2>o. overtaken' \in [Calls -> SUBSET Items]
    <3>1. overtaken' = overtaken \/ Overtake(c, target[c])
      BY DEF LoadArtifact
    <3>2. target[c] \in Items \/ overtaken' = overtaken
      BY <2>1, <1>a, StepTargets DEF LoadArtifact, Items
    <3> QED
      BY <3>1, <3>2, <1>a, OvertakeItems DEF TypeOK
  <2>2. TypeOK'
    BY <2>t, <2>s, <2>o, <1>a DEF LoadArtifact, TypeOK
  <2>3. KeepsOthers(c)
    BY <1>a DEF LoadArtifact, KeepsOthers, Go, Overtake, TypeOK
  <2>4. OvertakesWriters(c)
    BY <1>a DEF LoadArtifact, OvertakesWriters, Go, Overtake, TypeOK
  <2>5. /\ job' = job /\ overtaken'[c] = overtaken[c]
        /\ step'[c] \in {"failed", "reading file", "done", "saving"}
    BY <2>1, <1>a DEF LoadArtifact, Go, Overtake, TypeOK
  <2>6. step'[c] \in StepsOf(Kind(c)) \cup {"done", "failed"}
    BY <2>1, <2>5, <1>a, StepKinds DEF LoadArtifact, Go, TypeOK, StepsOf, Under, ArtifactKinds, ConversationKinds
  <2>7. /\ target'[c] = target[c] /\ todo'[c] = todo[c]
        /\ Kind(c) = "list artifacts" => todo[c] \subseteq Legacy /\ target[c] \in Legacy \cup {NoJob}
        /\ Kind(c) = "list" => todo[c] \subseteq ConversationIds /\ target[c] \in ConversationIds \cup {NoJob}
        /\ Kind(c) = "list" /\ step[c] \in {"asking", "checking", "upserting"} => target[c] \in ConversationIds
    BY <2>1, <1>a, ListTargets DEF LoadArtifact, TypeOK
  <2>8. step'[c] \in {"looking", "opening"} => ~legacy'[c]
    BY <2>1, <2>5, <1>a DEF LoadArtifact
  <2>9. step'[c] \in {"deleting file", "unlinking"} => \A r \in Calls \ {c} : target'[c] \in overtaken'[r]
    BY <2>5, <1>a DEF LoadArtifact, Go, Overtake, TypeOK
  <2> QED
    BY <2>1, <2>2, <2>3, <2>4, <2>5, <2>6, <2>7, <2>8, <2>9 DEF Advance
<1>6. CASE ReadFile(c)
  <2> USE <1>6
  <2>0. step[c] = "reading file" /\ CallFits(c)
    BY DEF ReadFile, CallsInv
  <2>1. /\ step[c] = "reading file" /\ step[c] # "idle" /\ CallFits(c) /\ job[c] # NoJob
        /\ Kind(c) \in {"read artifact"}
    BY <2>0, <1>a, StepKinds DEF ReadFile, Under, ArtifactKinds, ConversationKinds
  <2>t. draft' \in [Calls -> Rows \cup {Absent}]
    <3>1. Filed \in Rows
      BY DEF Filed, Rows
    <3> QED
      BY <3>1, <1>a DEF ReadFile, TypeOK
  <2>s. step' \in [Calls -> Steps]
    <3>1. step' = step \/ \E s \in {"saving", "failed"} : Go(c, s)
      BY DEF ReadFile
    <3>2. \A s \in {"saving", "failed"} : s \in Steps
      BY DEF Steps
    <3> QED
      BY <3>1, <3>2, <1>a, GoSteps DEF TypeOK
  <2>o. overtaken' \in [Calls -> SUBSET Items]
    <3>1. overtaken' = overtaken \/ Overtake(c, target[c])
      BY DEF ReadFile
    <3>2. target[c] \in Items \/ overtaken' = overtaken
      BY <2>1, <1>a, StepTargets DEF ReadFile, Items
    <3> QED
      BY <3>1, <3>2, <1>a, OvertakeItems DEF TypeOK
  <2>2. TypeOK'
    BY <2>t, <2>s, <2>o, <1>a DEF ReadFile, TypeOK
  <2>3. KeepsOthers(c)
    BY <1>a DEF ReadFile, KeepsOthers, Go, Overtake, TypeOK
  <2>4. OvertakesWriters(c)
    BY <1>a DEF ReadFile, OvertakesWriters, Go, Overtake, TypeOK
  <2>5. /\ job' = job /\ overtaken'[c] = overtaken[c]
        /\ step'[c] \in {"saving", "failed"}
    BY <2>1, <1>a DEF ReadFile, Go, Overtake, TypeOK
  <2>6. step'[c] \in StepsOf(Kind(c)) \cup {"done", "failed"}
    BY <2>1, <2>5, <1>a, StepKinds DEF ReadFile, Go, TypeOK, StepsOf, Under, ArtifactKinds, ConversationKinds
  <2>7. /\ target'[c] = target[c] /\ todo'[c] = todo[c]
        /\ Kind(c) = "list artifacts" => todo[c] \subseteq Legacy /\ target[c] \in Legacy \cup {NoJob}
        /\ Kind(c) = "list" => todo[c] \subseteq ConversationIds /\ target[c] \in ConversationIds \cup {NoJob}
        /\ Kind(c) = "list" /\ step[c] \in {"asking", "checking", "upserting"} => target[c] \in ConversationIds
    BY <2>1, <1>a, ListTargets DEF ReadFile, TypeOK
  <2>8. step'[c] \in {"looking", "opening"} => ~legacy'[c]
    BY <2>1, <2>5, <1>a DEF ReadFile
  <2>9. step'[c] \in {"deleting file", "unlinking"} => \A r \in Calls \ {c} : target'[c] \in overtaken'[r]
    BY <2>5, <1>a DEF ReadFile, Go, Overtake, TypeOK
  <2> QED
    BY <2>1, <2>2, <2>3, <2>4, <2>5, <2>6, <2>7, <2>8, <2>9 DEF Advance
<1>7. CASE ReadFiles(c)
  <2> USE <1>7
  <2>0. step[c] = "listing" /\ CallFits(c)
    BY DEF ReadFiles, CallsInv
  <2>1. /\ step[c] = "listing" /\ step[c] # "idle" /\ CallFits(c) /\ job[c] # NoJob
        /\ Kind(c) \in {"list artifacts"}
    BY <2>0, <1>a, StepKinds DEF ReadFiles, Under, ArtifactKinds, ConversationKinds
  <2>2. TypeOK'
    BY <2>1, StepKinds, StepTargets, <1>a DEF ReadFiles, TypeOK, Steps, Go, Overtake, Items, Rows, Pending, Filed, Under, artifacts
  <2>3. KeepsOthers(c)
    BY <1>a DEF ReadFiles, KeepsOthers, Go, Overtake, TypeOK, artifacts
  <2>4. OvertakesWriters(c)
    BY <1>a DEF ReadFiles, OvertakesWriters, Go, Overtake, TypeOK, artifacts
  <2>5. /\ job' = job /\ overtaken'[c] = overtaken[c]
        /\ step'[c] \in {"migrating"}
    BY <2>1, <1>a DEF ReadFiles, Go, Overtake, TypeOK, artifacts
  <2>6. step'[c] \in StepsOf(Kind(c)) \cup {"done", "failed"}
    BY <2>1, <2>5, <1>a, StepKinds DEF ReadFiles, Go, TypeOK, StepsOf, Under, ArtifactKinds, ConversationKinds, artifacts
  <2>7. target'[c] = target[c] /\ todo'[c] \subseteq Legacy /\ target[c] \in Legacy \cup {NoJob}
    BY <2>1, <1>a, ListTargets DEF ReadFiles, TypeOK
  <2>8. step'[c] \in {"looking", "opening"} => ~legacy'[c]
    BY <2>1, <2>5, <1>a DEF ReadFiles
  <2>9. step'[c] \in {"deleting file", "unlinking"} => \A r \in Calls \ {c} : target'[c] \in overtaken'[r]
    BY <2>5, <1>a DEF ReadFiles, Go, Overtake, TypeOK
  <2> QED
    BY <2>1, <2>2, <2>3, <2>4, <2>5, <2>6, <2>7, <2>8, <2>9 DEF Advance
<1>8. CASE Migrate(c)
  <2> USE <1>8
  <2>0. step[c] = "migrating" /\ CallFits(c)
    BY DEF Migrate, CallsInv
  <2>1. /\ step[c] = "migrating" /\ step[c] # "idle" /\ CallFits(c) /\ job[c] # NoJob
        /\ Kind(c) \in {"list artifacts"}
    BY <2>0, <1>a, StepKinds DEF Migrate, Under, ArtifactKinds, ConversationKinds
  <2>t. /\ draft' \in [Calls -> Rows \cup {Absent}] /\ target' \in [Calls -> Items \cup {NoJob}]
        /\ todo' \in [Calls -> SUBSET Items]
    <3>1. Filed \in Rows
      BY DEF Filed, Rows
    <3>2. CASE Go(c, "done") /\ UNCHANGED <<target, todo, draft>>
      BY <3>2, <1>a DEF TypeOK
    <3>3. CASE \E a \in todo[c] :
                 /\ todo' = [todo EXCEPT ![c] = @ \ {a}]
                 /\ \/ target' = [target EXCEPT ![c] = a] /\ draft' = [draft EXCEPT ![c] = Filed]
                    \/ UNCHANGED <<target, draft, step>>
      <4>1. PICK a \in todo[c] :
                 /\ todo' = [todo EXCEPT ![c] = @ \ {a}]
                 /\ \/ target' = [target EXCEPT ![c] = a] /\ draft' = [draft EXCEPT ![c] = Filed]
                    \/ UNCHANGED <<target, draft, step>>
        BY <3>3
      <4>2. todo[c] \subseteq Items /\ a \in Items
        BY <1>a DEF TypeOK
      <4>3. todo' \in [Calls -> SUBSET Items]
        BY <4>1, <4>2, <1>a DEF TypeOK
      <4> QED
        BY <3>1, <4>1, <4>2, <4>3, <1>a DEF TypeOK
    <3> QED
      BY <3>2, <3>3 DEF Migrate
  <2>s. step' \in [Calls -> Steps]
    <3>1. step' = step \/ \E s \in {"done", "saving", "migrating"} : Go(c, s)
      BY DEF Migrate
    <3>2. \A s \in {"done", "saving", "migrating"} : s \in Steps
      BY DEF Steps
    <3> QED
      BY <3>1, <3>2, <1>a, GoSteps DEF TypeOK
  <2>o. overtaken' \in [Calls -> SUBSET Items]
    <3>1. overtaken' = overtaken \/ Overtake(c, target[c])
      BY DEF Migrate
    <3>2. target[c] \in Items \/ overtaken' = overtaken
      BY <2>1, <1>a, StepTargets DEF Migrate, Items
    <3> QED
      BY <3>1, <3>2, <1>a, OvertakeItems DEF TypeOK
  <2>2. TypeOK'
    BY <2>t, <2>s, <2>o, <1>a DEF Migrate, TypeOK
  <2>3. KeepsOthers(c)
    BY <1>a DEF Migrate, KeepsOthers, Go, Overtake, TypeOK
  <2>4. OvertakesWriters(c)
    BY <1>a DEF Migrate, OvertakesWriters, Go, Overtake, TypeOK
  <2>5. /\ job' = job /\ overtaken'[c] = overtaken[c]
        /\ step'[c] \in {"done", "saving", "migrating"}
    BY <2>1, <1>a DEF Migrate, Go, Overtake, TypeOK
  <2>6. step'[c] \in StepsOf(Kind(c)) \cup {"done", "failed"}
    BY <2>1, <2>5, <1>a, StepKinds DEF Migrate, Go, TypeOK, StepsOf, Under, ArtifactKinds, ConversationKinds
  <2>7. /\ Kind(c) = "list artifacts" /\ todo'[c] \subseteq Legacy /\ target'[c] \in Legacy \cup {NoJob}
        /\ step'[c] = "saving" => target'[c] \in Legacy
    <3>1. todo[c] \subseteq Legacy /\ target[c] \in Legacy \cup {NoJob}
      BY <2>1, <1>a, ListTargets
    <3>2. CASE Go(c, "done") /\ UNCHANGED <<target, todo, draft>>
      BY <2>1, <3>1, <3>2, <1>a DEF Go, TypeOK
    <3>3. CASE \E a \in todo[c] :
                 /\ todo' = [todo EXCEPT ![c] = @ \ {a}]
                 /\ \/ target' = [target EXCEPT ![c] = a]
                    \/ UNCHANGED <<target, step>>
      BY <2>1, <3>1, <3>3, <1>a DEF TypeOK
    <3> QED
      BY <3>2, <3>3 DEF Migrate
  <2>8. step'[c] \in {"looking", "opening"} => ~legacy'[c]
    BY <2>1, <2>5, <1>a DEF Migrate
  <2>9. step'[c] \in {"deleting file", "unlinking"} => \A r \in Calls \ {c} : target'[c] \in overtaken'[r]
    BY <2>5, <1>a DEF Migrate, Go, Overtake, TypeOK
  <2> QED
    BY <2>1, <2>2, <2>3, <2>4, <2>5, <2>6, <2>7, <2>8, <2>9 DEF Advance
<1>9. CASE DeleteRow(c)
  <2> USE <1>9
  <2>0. step[c] = "deleting row" /\ CallFits(c)
    BY DEF DeleteRow, CallsInv
  <2>1. /\ step[c] = "deleting row" /\ step[c] # "idle" /\ CallFits(c) /\ job[c] # NoJob
        /\ Kind(c) \in {"delete artifact"}
    BY <2>0, <1>a, StepKinds DEF DeleteRow, Under, ArtifactKinds, ConversationKinds
  <2>2. TypeOK'
    BY <2>1, StepKinds, StepTargets, <1>a DEF DeleteRow, TypeOK, Steps, Go, Overtake, Items, Rows, Pending, Filed, Under
  <2>3. KeepsOthers(c)
    BY <1>a DEF DeleteRow, KeepsOthers, Go, Overtake, TypeOK
  <2>4. OvertakesWriters(c)
    BY <1>a DEF DeleteRow, OvertakesWriters, Go, Overtake, TypeOK
  <2>5. /\ job' = job /\ overtaken'[c] = overtaken[c]
        /\ step'[c] \in {"deleting file"}
    BY <2>1, <1>a DEF DeleteRow, Go, Overtake, TypeOK
  <2>6. step'[c] \in StepsOf(Kind(c)) \cup {"done", "failed"}
    BY <2>1, <2>5, <1>a, StepKinds DEF DeleteRow, Go, TypeOK, StepsOf, Under, ArtifactKinds, ConversationKinds
  <2>7. /\ target'[c] = target[c] /\ todo'[c] = todo[c]
        /\ Kind(c) = "list artifacts" => todo[c] \subseteq Legacy /\ target[c] \in Legacy \cup {NoJob}
        /\ Kind(c) = "list" => todo[c] \subseteq ConversationIds /\ target[c] \in ConversationIds \cup {NoJob}
        /\ Kind(c) = "list" /\ step[c] \in {"asking", "checking", "upserting"} => target[c] \in ConversationIds
    BY <2>1, <1>a, ListTargets DEF DeleteRow, TypeOK
  <2>8. step'[c] \in {"looking", "opening"} => ~legacy'[c]
    BY <2>1, <2>5, <1>a DEF DeleteRow
  <2>9. step'[c] \in {"deleting file", "unlinking"} => \A r \in Calls \ {c} : target'[c] \in overtaken'[r]
    BY <2>5, <1>a DEF DeleteRow, Go, Overtake, TypeOK
  <2> QED
    BY <2>1, <2>2, <2>3, <2>4, <2>5, <2>6, <2>7, <2>8, <2>9 DEF Advance
<1>10. CASE DeleteFile(c)
  <2> USE <1>10
  <2>0. step[c] = "deleting file" /\ CallFits(c)
    BY DEF DeleteFile, CallsInv
  <2>1. /\ step[c] = "deleting file" /\ step[c] # "idle" /\ CallFits(c) /\ job[c] # NoJob
        /\ Kind(c) \in {"delete artifact"}
    BY <2>0, <1>a, StepKinds DEF DeleteFile, Under, ArtifactKinds, ConversationKinds
  <2>2. TypeOK'
    BY <2>1, StepKinds, StepTargets, <1>a DEF DeleteFile, TypeOK, Steps, Go, Overtake, Items, Rows, Pending, Filed, Under
  <2>3. KeepsOthers(c)
    BY <1>a DEF DeleteFile, KeepsOthers, Go, Overtake, TypeOK
  <2>4. OvertakesWriters(c)
    BY <1>a DEF DeleteFile, OvertakesWriters, Go, Overtake, TypeOK
  <2>5. /\ job' = job /\ overtaken'[c] = overtaken[c]
        /\ step'[c] \in {"done"}
    BY <2>1, <1>a DEF DeleteFile, Go, Overtake, TypeOK
  <2>6. step'[c] \in StepsOf(Kind(c)) \cup {"done", "failed"}
    BY <2>1, <2>5, <1>a, StepKinds DEF DeleteFile, Go, TypeOK, StepsOf, Under, ArtifactKinds, ConversationKinds
  <2>7. /\ target'[c] = target[c] /\ todo'[c] = todo[c]
        /\ Kind(c) = "list artifacts" => todo[c] \subseteq Legacy /\ target[c] \in Legacy \cup {NoJob}
        /\ Kind(c) = "list" => todo[c] \subseteq ConversationIds /\ target[c] \in ConversationIds \cup {NoJob}
        /\ Kind(c) = "list" /\ step[c] \in {"asking", "checking", "upserting"} => target[c] \in ConversationIds
    BY <2>1, <1>a, ListTargets DEF DeleteFile, TypeOK
  <2>8. step'[c] \in {"looking", "opening"} => ~legacy'[c]
    BY <2>1, <2>5, <1>a DEF DeleteFile
  <2>9. step'[c] \in {"deleting file", "unlinking"} => \A r \in Calls \ {c} : target'[c] \in overtaken'[r]
    BY <2>5, <1>a DEF DeleteFile, Go, Overtake, TypeOK
  <2> QED
    BY <2>1, <2>2, <2>3, <2>4, <2>5, <2>6, <2>7, <2>8, <2>9 DEF Advance
<1> QED
  BY <1>1, <1>2, <1>3, <1>4, <1>5, <1>6, <1>7, <1>8, <1>9, <1>10 DEF ArtifactStep

LEMMA ConversationsAdvance ==
  ASSUME CallsInv, NEW c \in Calls, ConversationStep(c), UNCHANGED <<rates, artifacts>>
  PROVE  TypeOK' /\ Advance(c)
<1>a. /\ TypeOK /\ Legacy \subseteq ArtifactIds /\ Default \in Workspaces
      /\ Nobody \notin Calls /\ UNCHANGED <<now, requests, admitted, artifact, files, draft, deleted, orphans>>
  BY StoreAssumption DEF CallsInv, rates, artifacts
<1>1. CASE Look(c)
  <2> USE <1>1
  <2>0. step[c] = "looking" /\ CallFits(c)
    BY DEF Look, CallsInv
  <2>1. /\ step[c] = "looking" /\ step[c] # "idle" /\ CallFits(c) /\ job[c] # NoJob
        /\ Kind(c) \in {"get", "save", "rename"}
    BY <2>0, <1>a, StepKinds DEF Look, Under, ArtifactKinds, ConversationKinds
  <2>2. TypeOK'
    BY <2>1, StepKinds, StepTargets, <1>a DEF Look, TypeOK, Steps, Go, Overtake, Items, Rows, Pending, Filed, Under, conversations, Owned, Visible, Found
  <2>3. KeepsOthers(c)
    BY <1>a DEF Look, KeepsOthers, Go, Overtake, TypeOK, conversations, Owned, Visible, Found
  <2>4. OvertakesWriters(c)
    BY <1>a DEF Look, OvertakesWriters, Go, Overtake, TypeOK, conversations, Owned, Visible, Found
  <2>5. /\ job' = job /\ overtaken'[c] = overtaken[c]
        /\ step'[c] \in {"done", "updating", "checking", "failed", "opening"}
    BY <2>1, <1>a DEF Look, Go, Overtake, TypeOK, conversations, Owned, Visible, Found
  <2>6. step'[c] \in StepsOf(Kind(c)) \cup {"done", "failed"}
    BY <2>1, <2>5, <1>a, StepKinds DEF Look, Go, TypeOK, StepsOf, Under, ArtifactKinds, ConversationKinds, conversations, Owned, Visible, Found
  <2>7. /\ target'[c] = target[c] /\ todo'[c] = todo[c]
        /\ Kind(c) = "list artifacts" => todo[c] \subseteq Legacy /\ target[c] \in Legacy \cup {NoJob}
        /\ Kind(c) = "list" => todo[c] \subseteq ConversationIds /\ target[c] \in ConversationIds \cup {NoJob}
        /\ Kind(c) = "list" /\ step[c] \in {"asking", "checking", "upserting"} => target[c] \in ConversationIds
    BY <2>1, <1>a, ListTargets DEF Look, TypeOK
  <2>8. step'[c] \in {"looking", "opening"} => ~legacy'[c]
    BY <2>1, <2>5, <1>a, ListTargets DEF Look, conversations
  <2>9. step'[c] \in {"deleting file", "unlinking"} => \A r \in Calls \ {c} : target'[c] \in overtaken'[r]
    BY <2>5, <1>a DEF Look, Go, Overtake, TypeOK
  <2> QED
    BY <2>1, <2>2, <2>3, <2>4, <2>5, <2>6, <2>7, <2>8, <2>9 DEF Advance
<1>2. CASE Open(c)
  <2> USE <1>2
  <2>0. step[c] = "opening" /\ CallFits(c)
    BY DEF Open, CallsInv
  <2>1. /\ step[c] = "opening" /\ step[c] # "idle" /\ CallFits(c) /\ job[c] # NoJob
        /\ Kind(c) \in {"get", "save", "rename"}
    BY <2>0, <1>a, StepKinds DEF Open, Under, ArtifactKinds, ConversationKinds
  <2>t. legacy' \in [Calls -> BOOLEAN]
    <3>1. (Name(c) \in archives) \in BOOLEAN
      OBVIOUS
    <3> QED
      BY <3>1, <1>a DEF Open, TypeOK
  <2>s. step' \in [Calls -> Steps]
    <3>1. step' = step \/ \E s \in {"checking", "failed"} : Go(c, s)
      BY DEF Open, Name
    <3>2. \A s \in {"checking", "failed"} : s \in Steps
      BY DEF Steps
    <3> QED
      BY <3>1, <3>2, <1>a, GoSteps DEF TypeOK
  <2>o. overtaken' \in [Calls -> SUBSET Items]
    <3>1. overtaken' = overtaken \/ Overtake(c, target[c])
      BY DEF Open, Name
    <3>2. target[c] \in Items \/ overtaken' = overtaken
      BY <2>1, <1>a, StepTargets DEF Open, Items
    <3> QED
      BY <3>1, <3>2, <1>a, OvertakeItems DEF TypeOK
  <2>2. TypeOK'
    BY <2>t, <2>s, <2>o, <1>a DEF Open, TypeOK
  <2>3. KeepsOthers(c)
    BY <1>a DEF Open, KeepsOthers, Go, Overtake, TypeOK, Name
  <2>4. OvertakesWriters(c)
    BY <1>a DEF Open, OvertakesWriters, Go, Overtake, TypeOK, Name
  <2>5. /\ job' = job /\ overtaken'[c] = overtaken[c]
        /\ step'[c] \in {"checking", "failed"}
    BY <2>1, <1>a DEF Open, Go, Overtake, TypeOK, Name
  <2>6. step'[c] \in StepsOf(Kind(c)) \cup {"done", "failed"}
    BY <2>1, <2>5, <1>a, StepKinds DEF Open, Go, TypeOK, StepsOf, Under, ArtifactKinds, ConversationKinds, Name
  <2>7. /\ target'[c] = target[c] /\ todo'[c] = todo[c]
        /\ Kind(c) = "list artifacts" => todo[c] \subseteq Legacy /\ target[c] \in Legacy \cup {NoJob}
        /\ Kind(c) = "list" => todo[c] \subseteq ConversationIds /\ target[c] \in ConversationIds \cup {NoJob}
        /\ Kind(c) = "list" /\ step[c] \in {"asking", "checking", "upserting"} => target[c] \in ConversationIds
    BY <2>1, <1>a, ListTargets DEF Open, TypeOK
  <2>8. step'[c] \in {"looking", "opening"} => ~legacy'[c]
    BY <2>1, <2>5, <1>a DEF Open
  <2>9. step'[c] \in {"deleting file", "unlinking"} => \A r \in Calls \ {c} : target'[c] \in overtaken'[r]
    BY <2>5, <1>a DEF Open, Go, Overtake, TypeOK
  <2> QED
    BY <2>1, <2>2, <2>3, <2>4, <2>5, <2>6, <2>7, <2>8, <2>9 DEF Advance
<1>3. CASE ListFiles(c)
  <2> USE <1>3
  <2>0. step[c] = "globbing" /\ CallFits(c)
    BY DEF ListFiles, CallsInv
  <2>1. /\ step[c] = "globbing" /\ step[c] # "idle" /\ CallFits(c) /\ job[c] # NoJob
        /\ Kind(c) \in {"list"}
    BY <2>0, <1>a, StepKinds DEF ListFiles, Under, ArtifactKinds, ConversationKinds
  <2>t. /\ UNCHANGED <<conversation, archives, legacy, touched>>
        /\ todo' \in [Calls -> SUBSET Items]
    BY <1>a DEF ListFiles, TypeOK, conversations, Items
  <2>s. step' \in [Calls -> Steps]
    <3>1. step' = step \/ \E s \in {"migrating"} : Go(c, s)
      BY DEF ListFiles, conversations
    <3>2. \A s \in {"migrating"} : s \in Steps
      BY DEF Steps
    <3> QED
      BY <3>1, <3>2, <1>a, GoSteps DEF TypeOK
  <2>o. overtaken' \in [Calls -> SUBSET Items]
    <3>1. overtaken' = overtaken \/ Overtake(c, target[c])
      BY DEF ListFiles, conversations
    <3>2. target[c] \in Items \/ overtaken' = overtaken
      BY <2>1, <1>a, StepTargets DEF ListFiles, Items
    <3> QED
      BY <3>1, <3>2, <1>a, OvertakeItems DEF TypeOK
  <2>2. TypeOK'
    BY <2>t, <2>s, <2>o, <1>a DEF ListFiles, TypeOK, conversations
  <2>3. KeepsOthers(c)
    BY <1>a DEF ListFiles, KeepsOthers, Go, Overtake, TypeOK, conversations
  <2>4. OvertakesWriters(c)
    BY <1>a DEF ListFiles, OvertakesWriters, Go, Overtake, TypeOK, conversations
  <2>5. /\ job' = job /\ overtaken'[c] = overtaken[c]
        /\ step'[c] \in {"migrating"}
    BY <2>1, <1>a DEF ListFiles, Go, Overtake, TypeOK, conversations
  <2>6. step'[c] \in StepsOf(Kind(c)) \cup {"done", "failed"}
    BY <2>1, <2>5, <1>a, StepKinds DEF ListFiles, Go, TypeOK, StepsOf, Under, ArtifactKinds, ConversationKinds, conversations
  <2>7. /\ target'[c] = target[c] /\ todo'[c] \subseteq ConversationIds
        /\ target[c] \in ConversationIds \cup {NoJob}
    BY <2>1, <1>a, ListTargets DEF ListFiles, TypeOK
  <2>8. step'[c] \in {"looking", "opening"} => ~legacy'[c]
    BY <2>1, <2>5, <1>a DEF ListFiles
  <2>9. step'[c] \in {"deleting file", "unlinking"} => \A r \in Calls \ {c} : target'[c] \in overtaken'[r]
    BY <2>5, <1>a DEF ListFiles, Go, Overtake, TypeOK
  <2> QED
    BY <2>1, <2>2, <2>3, <2>4, <2>5, <2>6, <2>7, <2>8, <2>9 DEF Advance
<1>4. CASE OpenNext(c)
  <2> USE <1>4
  <2>0. step[c] = "migrating" /\ CallFits(c)
    BY DEF OpenNext, CallsInv
  <2>1. /\ step[c] = "migrating" /\ step[c] # "idle" /\ CallFits(c) /\ job[c] # NoJob
        /\ Kind(c) \in {"list"}
    BY <2>0, <1>a, StepKinds DEF OpenNext, Under, ArtifactKinds, ConversationKinds
  <2>t. /\ legacy' \in [Calls -> BOOLEAN] /\ target' \in [Calls -> Items \cup {NoJob}]
        /\ todo' \in [Calls -> SUBSET Items]
    <3>1. todo[c] \subseteq Items
      BY <1>a DEF TypeOK
    <3>2. CASE Go(c, "done") /\ UNCHANGED <<target, todo, legacy>>
      BY <3>2, <1>a DEF TypeOK
    <3>3. CASE \E k \in todo[c] :
                 /\ todo' = [todo EXCEPT ![c] = @ \ {k}]
                 /\ target' = [target EXCEPT ![c] = k]
                 /\ legacy' = [legacy EXCEPT ![c] = TRUE]
      BY <3>1, <3>3, <1>a DEF TypeOK
    <3> QED
      BY <3>2, <3>3 DEF OpenNext
  <2>s. step' \in [Calls -> Steps]
    <3>1. step' = step \/ \E s \in {"done", "asking", "failed"} : Go(c, s)
      BY DEF OpenNext
    <3>2. \A s \in {"done", "asking", "failed"} : s \in Steps
      BY DEF Steps
    <3> QED
      BY <3>1, <3>2, <1>a, GoSteps DEF TypeOK
  <2>o. overtaken' \in [Calls -> SUBSET Items]
    <3>1. overtaken' = overtaken \/ Overtake(c, target[c])
      BY DEF OpenNext
    <3>2. target[c] \in Items \/ overtaken' = overtaken
      BY <2>1, <1>a, StepTargets DEF OpenNext, Items
    <3> QED
      BY <3>1, <3>2, <1>a, OvertakeItems DEF TypeOK
  <2>2. TypeOK'
    BY <2>t, <2>s, <2>o, <1>a DEF OpenNext, TypeOK
  <2>3. KeepsOthers(c)
    BY <1>a DEF OpenNext, KeepsOthers, Go, Overtake, TypeOK
  <2>4. OvertakesWriters(c)
    BY <1>a DEF OpenNext, OvertakesWriters, Go, Overtake, TypeOK
  <2>5. /\ job' = job /\ overtaken'[c] = overtaken[c]
        /\ step'[c] \in {"done", "asking", "failed"}
    BY <2>1, <1>a DEF OpenNext, Go, Overtake, TypeOK
  <2>6. step'[c] \in StepsOf(Kind(c)) \cup {"done", "failed"}
    BY <2>1, <2>5, <1>a, StepKinds DEF OpenNext, Go, TypeOK, StepsOf, Under, ArtifactKinds, ConversationKinds
  <2>7. /\ Kind(c) = "list" /\ todo'[c] \subseteq ConversationIds
        /\ target'[c] \in ConversationIds \cup {NoJob}
        /\ step'[c] = "asking" => target'[c] \in ConversationIds
    <3>1. todo[c] \subseteq ConversationIds /\ target[c] \in ConversationIds \cup {NoJob}
      BY <2>1, <1>a, ListTargets
    <3>2. CASE todo[c] = {} /\ Go(c, "done") /\ UNCHANGED <<target, todo, legacy>>
      BY <2>1, <3>1, <3>2, <1>a DEF Go, TypeOK
    <3>3. CASE \E k \in todo[c] :
                 /\ todo' = [todo EXCEPT ![c] = @ \ {k}]
                 /\ target' = [target EXCEPT ![c] = k]
      BY <2>1, <3>1, <3>3, <1>a DEF TypeOK
    <3> QED
      BY <3>2, <3>3 DEF OpenNext
  <2>8. step'[c] \in {"looking", "opening"} => ~legacy'[c]
    BY <2>1, <2>5, <1>a DEF OpenNext
  <2>9. step'[c] \in {"deleting file", "unlinking"} => \A r \in Calls \ {c} : target'[c] \in overtaken'[r]
    BY <2>5, <1>a DEF OpenNext, Go, Overtake, TypeOK
  <2> QED
    BY <2>1, <2>2, <2>3, <2>4, <2>5, <2>6, <2>7, <2>8, <2>9 DEF Advance
<1>5. CASE Ask(c)
  <2> USE <1>5
  <2>0. step[c] = "asking" /\ CallFits(c)
    BY DEF Ask, CallsInv
  <2>1. /\ step[c] = "asking" /\ step[c] # "idle" /\ CallFits(c) /\ job[c] # NoJob
        /\ Kind(c) \in {"list"}
    BY <2>0, <1>a, StepKinds DEF Ask, Under, ArtifactKinds, ConversationKinds
  <2>2. TypeOK'
    BY <2>1, StepKinds, StepTargets, <1>a DEF Ask, TypeOK, Steps, Go, Overtake, Items, Rows, Pending, Filed, Under, conversations, Owned, Found
  <2>3. KeepsOthers(c)
    BY <1>a DEF Ask, KeepsOthers, Go, Overtake, TypeOK, conversations, Owned, Found
  <2>4. OvertakesWriters(c)
    BY <1>a DEF Ask, OvertakesWriters, Go, Overtake, TypeOK, conversations, Owned, Found
  <2>5. /\ job' = job /\ overtaken'[c] = overtaken[c]
        /\ step'[c] \in {"migrating", "checking"}
    BY <2>1, <1>a DEF Ask, Go, Overtake, TypeOK, conversations, Owned, Found
  <2>6. step'[c] \in StepsOf(Kind(c)) \cup {"done", "failed"}
    BY <2>1, <2>5, <1>a, StepKinds DEF Ask, Go, TypeOK, StepsOf, Under, ArtifactKinds, ConversationKinds, conversations, Owned, Found
  <2>7. /\ target'[c] = target[c] /\ todo'[c] = todo[c]
        /\ Kind(c) = "list artifacts" => todo[c] \subseteq Legacy /\ target[c] \in Legacy \cup {NoJob}
        /\ Kind(c) = "list" => todo[c] \subseteq ConversationIds /\ target[c] \in ConversationIds \cup {NoJob}
        /\ Kind(c) = "list" /\ step[c] \in {"asking", "checking", "upserting"} => target[c] \in ConversationIds
    BY <2>1, <1>a, ListTargets DEF Ask, TypeOK
  <2>8. step'[c] \in {"looking", "opening"} => ~legacy'[c]
    BY <2>1, <2>5, <1>a DEF Ask
  <2>9. step'[c] \in {"deleting file", "unlinking"} => \A r \in Calls \ {c} : target'[c] \in overtaken'[r]
    BY <2>5, <1>a DEF Ask, Go, Overtake, TypeOK
  <2> QED
    BY <2>1, <2>2, <2>3, <2>4, <2>5, <2>6, <2>7, <2>8, <2>9 DEF Advance
<1>6. CASE Check(c)
  <2> USE <1>6
  <2>0. step[c] = "checking" /\ CallFits(c)
    BY DEF Check, CallsInv
  <2>1. /\ step[c] = "checking" /\ step[c] # "idle" /\ CallFits(c) /\ job[c] # NoJob
        /\ Kind(c) \in {"get", "save", "rename", "list"}
    BY <2>0, <1>a, StepKinds DEF Check, Under, ArtifactKinds, ConversationKinds
  <2>2. TypeOK'
    BY <2>1, StepKinds, StepTargets, <1>a DEF Check, TypeOK, Steps, Go, Overtake, Items, Rows, Pending, Filed, Under, conversations, Owned, Found, Place
  <2>3. KeepsOthers(c)
    BY <1>a DEF Check, KeepsOthers, Go, Overtake, TypeOK, conversations, Owned, Found, Place
  <2>4. OvertakesWriters(c)
    BY <1>a DEF Check, OvertakesWriters, Go, Overtake, TypeOK, conversations, Owned, Found, Place
  <2>5. /\ job' = job /\ overtaken'[c] = overtaken[c]
        /\ step'[c] \in {"upserting", "failed"}
    BY <2>1, <1>a DEF Check, Go, Overtake, TypeOK, conversations, Owned, Found, Place
  <2>6. step'[c] \in StepsOf(Kind(c)) \cup {"done", "failed"}
    BY <2>1, <2>5, <1>a, StepKinds DEF Check, Go, TypeOK, StepsOf, Under, ArtifactKinds, ConversationKinds, conversations, Owned, Found, Place
  <2>7. /\ target'[c] = target[c] /\ todo'[c] = todo[c]
        /\ Kind(c) = "list artifacts" => todo[c] \subseteq Legacy /\ target[c] \in Legacy \cup {NoJob}
        /\ Kind(c) = "list" => todo[c] \subseteq ConversationIds /\ target[c] \in ConversationIds \cup {NoJob}
        /\ Kind(c) = "list" /\ step[c] \in {"asking", "checking", "upserting"} => target[c] \in ConversationIds
    BY <2>1, <1>a, ListTargets DEF Check, TypeOK
  <2>8. step'[c] \in {"looking", "opening"} => ~legacy'[c]
    BY <2>1, <2>5, <1>a DEF Check
  <2>9. step'[c] \in {"deleting file", "unlinking"} => \A r \in Calls \ {c} : target'[c] \in overtaken'[r]
    BY <2>5, <1>a DEF Check, Go, Overtake, TypeOK
  <2> QED
    BY <2>1, <2>2, <2>3, <2>4, <2>5, <2>6, <2>7, <2>8, <2>9 DEF Advance
<1>7. CASE Upsert(c)
  <2> USE <1>7
  <2>0. step[c] = "upserting" /\ CallFits(c)
    BY DEF Upsert, CallsInv
  <2>1. /\ step[c] = "upserting" /\ step[c] # "idle" /\ CallFits(c) /\ job[c] # NoJob
        /\ Kind(c) \in {"get", "save", "rename", "list"}
    BY <2>0, <1>a, StepKinds DEF Upsert, Under, ArtifactKinds, ConversationKinds
  <2>t. /\ legacy' \in [Calls -> BOOLEAN]
        /\ conversation' \in [ConversationIds -> Conversation \cup {NoRow}]
        /\ touched' \subseteq Tenants \X ConversationIds
    <3>1. target[c] \in ConversationIds /\ job[c].tenant \in Tenants /\ job[c].workspace \in Workspaces
      BY <2>1, StepKinds, StepTargets, <1>a DEF Upsert
    <3>2. Found(c) = NoRow \/ Found(c) \in Conversation
      BY <3>1, <1>a DEF Found, TypeOK
    <3>3. Written(c) \in Conversation
      BY <3>1, <3>2, <1>a DEF Written, Conversation, Place
    <3>4. Name(c) \in Tenants \X ConversationIds
      BY <3>1 DEF Name
    <3>5. CASE /\ conversation' = [conversation EXCEPT ![target[c]] = Written(c)]
               /\ touched' = IF legacy[c] THEN touched ELSE touched \cup {Name(c)}
               /\ legacy' = [legacy EXCEPT ![c] = FALSE]
      BY <3>3, <3>4, <3>5, <1>a DEF TypeOK
    <3>6. CASE UNCHANGED <<conversation, touched, legacy>>
      BY <3>6, <1>a DEF TypeOK
    <3> QED
      BY <3>5, <3>6 DEF Upsert
  <2>s. step' \in [Calls -> Steps]
    <3>1. step' = step \/ \E s \in {"done", "migrating", "updating", "checking", "failed"} : Go(c, s)
      BY <2>1, <1>a DEF TypeOK, Upsert, AfterUpsert
    <3>2. \A s \in {"done", "migrating", "updating", "checking", "failed"} : s \in Steps
      BY DEF Steps
    <3> QED
      BY <3>1, <3>2, <1>a, GoSteps DEF TypeOK
  <2>o. overtaken' \in [Calls -> SUBSET Items]
    <3>1. overtaken' = overtaken \/ Overtake(c, target[c])
      BY DEF Upsert, AfterUpsert
    <3>2. target[c] \in Items \/ overtaken' = overtaken
      BY <2>1, <1>a, StepTargets DEF Upsert, Items
    <3> QED
      BY <3>1, <3>2, <1>a, OvertakeItems DEF TypeOK
  <2>2. TypeOK'
    BY <2>t, <2>s, <2>o, <1>a DEF Upsert, TypeOK
  <2>3. KeepsOthers(c)
    BY <1>a DEF Upsert, KeepsOthers, Go, Overtake, TypeOK, AfterUpsert
  <2>4. OvertakesWriters(c)
    <3>1. /\ conversation' = conversation /\ touched' = touched
          \/ /\ \A k \in ConversationIds : k # target[c] => conversation'[k] = conversation[k]
             /\ touched' \subseteq touched \cup {Name(c)}
             /\ \A r \in Calls \ {c} : target[c] \in overtaken'[r]
      BY <1>a DEF Upsert, Overtake, TypeOK
    <3>2. Name(c) = <<job[c].tenant, target[c]>>
      BY DEF Name
    <3>3. \A a \in ArtifactIds : ~(artifact'[a] # artifact[a] \/ (a \in deleted' /\ a \notin deleted))
      BY <1>a
    <3>4. ASSUME NEW k \in ConversationIds, NEW n \in Tenants, <<n, k>> \in touched', <<n, k>> \notin touched
          PROVE  k = target[c]
      BY <3>1, <3>2, <3>4
    <3>5. ASSUME NEW k \in ConversationIds,
                 conversation'[k] # conversation[k] \/ \E n \in Tenants : <<n, k>> \in touched' /\ <<n, k>> \notin touched
          PROVE  k = target[c] /\ \A r \in Calls \ {c} : k \in overtaken'[r]
      BY <3>1, <3>4, <3>5
    <3> QED
      BY <3>3, <3>5 DEF OvertakesWriters
  <2>5. /\ job' = job /\ overtaken'[c] = overtaken[c]
        /\ step'[c] \in {"done", "migrating", "updating", "checking", "failed"}
    BY <2>1, <1>a DEF Upsert, Go, Overtake, TypeOK, AfterUpsert
  <2>6. step'[c] \in StepsOf(Kind(c)) \cup {"done", "failed"}
    BY <2>1, <2>5, <1>a, StepKinds DEF Upsert, Go, TypeOK, StepsOf, Under, ArtifactKinds, ConversationKinds, AfterUpsert
  <2>7. /\ target'[c] = target[c] /\ todo'[c] = todo[c]
        /\ Kind(c) = "list artifacts" => todo[c] \subseteq Legacy /\ target[c] \in Legacy \cup {NoJob}
        /\ Kind(c) = "list" => todo[c] \subseteq ConversationIds /\ target[c] \in ConversationIds \cup {NoJob}
        /\ Kind(c) = "list" /\ step[c] \in {"asking", "checking", "upserting"} => target[c] \in ConversationIds
    BY <2>1, <1>a, ListTargets DEF Upsert, TypeOK
  <2>8. step'[c] \in {"looking", "opening"} => ~legacy'[c]
    BY <2>1, <2>5, <1>a DEF Upsert
  <2>9. step'[c] \in {"deleting file", "unlinking"} => \A r \in Calls \ {c} : target'[c] \in overtaken'[r]
    BY <2>5, <1>a DEF Upsert, Go, Overtake, TypeOK
  <2> QED
    BY <2>1, <2>2, <2>3, <2>4, <2>5, <2>6, <2>7, <2>8, <2>9 DEF Advance
<1>8. CASE Update(c)
  <2> USE <1>8
  <2>0. step[c] = "updating" /\ CallFits(c)
    BY DEF Update, CallsInv
  <2>1. /\ step[c] = "updating" /\ step[c] # "idle" /\ CallFits(c) /\ job[c] # NoJob
        /\ Kind(c) \in {"rename"}
    BY <2>0, <1>a, StepKinds DEF Update, Under, ArtifactKinds, ConversationKinds
  <2>t. /\ conversation' \in [ConversationIds -> Conversation \cup {NoRow}]
        /\ touched' \subseteq Tenants \X ConversationIds
    <3>1. target[c] \in ConversationIds /\ job[c].tenant \in Tenants
      BY <2>1, StepKinds, StepTargets, <1>a DEF Update
    <3>2. Visible(c) => Found(c) \in Conversation
      BY <3>1, <1>a DEF Visible, Owned, Found, TypeOK
    <3>3. Visible(c) => [Found(c) EXCEPT !.by = c] \in Conversation
      BY <3>2 DEF Conversation
    <3>4. Name(c) \in Tenants \X ConversationIds
      BY <3>1 DEF Name
    <3>5. Visible(c) => conversation' = [conversation EXCEPT ![target[c]] = [Found(c) EXCEPT !.by = c]]
      BY DEF Update, Found
    <3>6. CASE Visible(c)
      <4>1. touched' = touched \cup {Name(c)}
        BY <3>6 DEF Update
      <4> QED
        BY <3>1, <3>3, <3>4, <3>5, <3>6, <4>1, <1>a DEF TypeOK
    <3>7. CASE ~Visible(c)
      BY <3>7, <1>a DEF Update, TypeOK
    <3> QED
      BY <3>6, <3>7
  <2>s. step' \in [Calls -> Steps]
    <3>1. step' = step \/ \E s \in {"done", "failed"} : Go(c, s)
      BY DEF Update
    <3>2. \A s \in {"done", "failed"} : s \in Steps
      BY DEF Steps
    <3> QED
      BY <3>1, <3>2, <1>a, GoSteps DEF TypeOK
  <2>o. overtaken' \in [Calls -> SUBSET Items]
    <3>1. overtaken' = overtaken \/ Overtake(c, target[c])
      BY DEF Update
    <3>2. target[c] \in Items \/ overtaken' = overtaken
      BY <2>1, <1>a, StepTargets DEF Update, Items
    <3> QED
      BY <3>1, <3>2, <1>a, OvertakeItems DEF TypeOK
  <2>2. TypeOK'
    BY <2>t, <2>s, <2>o, <1>a DEF Update, TypeOK
  <2>3. KeepsOthers(c)
    BY <1>a DEF Update, KeepsOthers, Go, Overtake, TypeOK
  <2>4. OvertakesWriters(c)
    <3>1. /\ conversation' = conversation /\ touched' = touched
          \/ /\ \A k \in ConversationIds : k # target[c] => conversation'[k] = conversation[k]
             /\ touched' \subseteq touched \cup {Name(c)}
             /\ \A r \in Calls \ {c} : target[c] \in overtaken'[r]
      BY <1>a DEF Update, Overtake, TypeOK
    <3>2. Name(c) = <<job[c].tenant, target[c]>>
      BY DEF Name
    <3>3. \A a \in ArtifactIds : ~(artifact'[a] # artifact[a] \/ (a \in deleted' /\ a \notin deleted))
      BY <1>a
    <3>4. ASSUME NEW k \in ConversationIds, NEW n \in Tenants, <<n, k>> \in touched', <<n, k>> \notin touched
          PROVE  k = target[c]
      BY <3>1, <3>2, <3>4
    <3>5. ASSUME NEW k \in ConversationIds,
                 conversation'[k] # conversation[k] \/ \E n \in Tenants : <<n, k>> \in touched' /\ <<n, k>> \notin touched
          PROVE  k = target[c] /\ \A r \in Calls \ {c} : k \in overtaken'[r]
      BY <3>1, <3>4, <3>5
    <3> QED
      BY <3>3, <3>5 DEF OvertakesWriters
  <2>5. /\ job' = job /\ overtaken'[c] = overtaken[c]
        /\ step'[c] \in {"done", "failed"}
    BY <2>1, <1>a DEF Update, Go, Overtake, TypeOK
  <2>6. step'[c] \in StepsOf(Kind(c)) \cup {"done", "failed"}
    BY <2>1, <2>5, <1>a, StepKinds DEF Update, Go, TypeOK, StepsOf, Under, ArtifactKinds, ConversationKinds
  <2>7. /\ target'[c] = target[c] /\ todo'[c] = todo[c]
        /\ Kind(c) = "list artifacts" => todo[c] \subseteq Legacy /\ target[c] \in Legacy \cup {NoJob}
        /\ Kind(c) = "list" => todo[c] \subseteq ConversationIds /\ target[c] \in ConversationIds \cup {NoJob}
        /\ Kind(c) = "list" /\ step[c] \in {"asking", "checking", "upserting"} => target[c] \in ConversationIds
    BY <2>1, <1>a, ListTargets DEF Update, TypeOK
  <2>8. step'[c] \in {"looking", "opening"} => ~legacy'[c]
    BY <2>1, <2>5, <1>a DEF Update
  <2>9. step'[c] \in {"deleting file", "unlinking"} => \A r \in Calls \ {c} : target'[c] \in overtaken'[r]
    BY <2>5, <1>a DEF Update, Go, Overtake, TypeOK
  <2> QED
    BY <2>1, <2>2, <2>3, <2>4, <2>5, <2>6, <2>7, <2>8, <2>9 DEF Advance
<1>9. CASE Delete(c)
  <2> USE <1>9
  <2>0. step[c] = "deleting" /\ CallFits(c)
    BY DEF Delete, CallsInv
  <2>1. /\ step[c] = "deleting" /\ step[c] # "idle" /\ CallFits(c) /\ job[c] # NoJob
        /\ Kind(c) \in {"delete"}
    BY <2>0, <1>a, StepKinds DEF Delete, Under, ArtifactKinds, ConversationKinds
  <2>t. /\ conversation' \in [ConversationIds -> Conversation \cup {NoRow}]
        /\ touched' \subseteq Tenants \X ConversationIds
    <3>1. target[c] \in ConversationIds /\ job[c].tenant \in Tenants
      BY <2>1, StepKinds, StepTargets, <1>a DEF Delete
    <3>2. Name(c) \in Tenants \X ConversationIds
      BY <3>1 DEF Name
    <3> QED
      BY <3>2, <1>a DEF Delete, TypeOK
  <2>s. step' \in [Calls -> Steps]
    <3>1. step' = step \/ \E s \in {"unlinking", "done"} : Go(c, s)
      BY DEF Delete
    <3>2. \A s \in {"unlinking", "done"} : s \in Steps
      BY DEF Steps
    <3> QED
      BY <3>1, <3>2, <1>a, GoSteps DEF TypeOK
  <2>o. overtaken' \in [Calls -> SUBSET Items]
    <3>1. overtaken' = overtaken \/ Overtake(c, target[c])
      BY DEF Delete
    <3>2. target[c] \in Items \/ overtaken' = overtaken
      BY <2>1, <1>a, StepTargets DEF Delete, Items
    <3> QED
      BY <3>1, <3>2, <1>a, OvertakeItems DEF TypeOK
  <2>2. TypeOK'
    BY <2>t, <2>s, <2>o, <1>a DEF Delete, TypeOK
  <2>3. KeepsOthers(c)
    BY <1>a DEF Delete, KeepsOthers, Go, Overtake, TypeOK
  <2>4. OvertakesWriters(c)
    <3>1. /\ conversation' = conversation /\ touched' = touched
          \/ /\ \A k \in ConversationIds : k # target[c] => conversation'[k] = conversation[k]
             /\ touched' \subseteq touched \cup {Name(c)}
             /\ \A r \in Calls \ {c} : target[c] \in overtaken'[r]
      BY <1>a DEF Delete, Overtake, TypeOK
    <3>2. Name(c) = <<job[c].tenant, target[c]>>
      BY DEF Name
    <3>3. \A a \in ArtifactIds : ~(artifact'[a] # artifact[a] \/ (a \in deleted' /\ a \notin deleted))
      BY <1>a
    <3>4. ASSUME NEW k \in ConversationIds, NEW n \in Tenants, <<n, k>> \in touched', <<n, k>> \notin touched
          PROVE  k = target[c]
      BY <3>1, <3>2, <3>4
    <3>5. ASSUME NEW k \in ConversationIds,
                 conversation'[k] # conversation[k] \/ \E n \in Tenants : <<n, k>> \in touched' /\ <<n, k>> \notin touched
          PROVE  k = target[c] /\ \A r \in Calls \ {c} : k \in overtaken'[r]
      BY <3>1, <3>4, <3>5
    <3> QED
      BY <3>3, <3>5 DEF OvertakesWriters
  <2>5. /\ job' = job /\ overtaken'[c] = overtaken[c]
        /\ step'[c] \in {"unlinking", "done"}
    BY <2>1, <1>a DEF Delete, Go, Overtake, TypeOK
  <2>6. step'[c] \in StepsOf(Kind(c)) \cup {"done", "failed"}
    BY <2>1, <2>5, <1>a, StepKinds DEF Delete, Go, TypeOK, StepsOf, Under, ArtifactKinds, ConversationKinds
  <2>7. /\ target'[c] = target[c] /\ todo'[c] = todo[c]
        /\ Kind(c) = "list artifacts" => todo[c] \subseteq Legacy /\ target[c] \in Legacy \cup {NoJob}
        /\ Kind(c) = "list" => todo[c] \subseteq ConversationIds /\ target[c] \in ConversationIds \cup {NoJob}
        /\ Kind(c) = "list" /\ step[c] \in {"asking", "checking", "upserting"} => target[c] \in ConversationIds
    BY <2>1, <1>a, ListTargets DEF Delete, TypeOK
  <2>8. step'[c] \in {"looking", "opening"} => ~legacy'[c]
    BY <2>1, <2>5, <1>a DEF Delete
  <2>9. step'[c] \in {"deleting file", "unlinking"} => \A r \in Calls \ {c} : target'[c] \in overtaken'[r]
    <3>1. CASE Visible(c)
      <4>1. Overtake(c, target[c]) /\ target' = target
        BY <3>1 DEF Delete
      <4> QED
        BY <4>1, <1>a DEF Overtake, TypeOK
    <3>2. CASE ~Visible(c)
      BY <3>2, <1>a DEF Delete, Go, TypeOK
    <3> QED
      BY <3>1, <3>2
  <2> QED
    BY <2>1, <2>2, <2>3, <2>4, <2>5, <2>6, <2>7, <2>8, <2>9 DEF Advance
<1>10. CASE Unlink(c)
  <2> USE <1>10
  <2>0. step[c] = "unlinking" /\ CallFits(c)
    BY DEF Unlink, CallsInv
  <2>1. /\ step[c] = "unlinking" /\ step[c] # "idle" /\ CallFits(c) /\ job[c] # NoJob
        /\ Kind(c) \in {"delete"}
    BY <2>0, <1>a, StepKinds DEF Unlink, Under, ArtifactKinds, ConversationKinds
  <2>t. archives' \subseteq Tenants \X ConversationIds
    BY <1>a DEF Unlink, TypeOK
  <2>s. step' \in [Calls -> Steps]
    <3>1. step' = step \/ \E s \in {"done"} : Go(c, s)
      BY DEF Unlink, Name
    <3>2. \A s \in {"done"} : s \in Steps
      BY DEF Steps
    <3> QED
      BY <3>1, <3>2, <1>a, GoSteps DEF TypeOK
  <2>o. overtaken' \in [Calls -> SUBSET Items]
    <3>1. overtaken' = overtaken \/ Overtake(c, target[c])
      BY DEF Unlink, Name
    <3>2. target[c] \in Items \/ overtaken' = overtaken
      BY <2>1, <1>a, StepTargets DEF Unlink, Items
    <3> QED
      BY <3>1, <3>2, <1>a, OvertakeItems DEF TypeOK
  <2>2. TypeOK'
    BY <2>t, <2>s, <2>o, <1>a DEF Unlink, TypeOK
  <2>3. KeepsOthers(c)
    BY <1>a DEF Unlink, KeepsOthers, Go, Overtake, TypeOK, Name
  <2>4. OvertakesWriters(c)
    BY <1>a DEF Unlink, OvertakesWriters, Go, Overtake, TypeOK, Name
  <2>5. /\ job' = job /\ overtaken'[c] = overtaken[c]
        /\ step'[c] \in {"done"}
    BY <2>1, <1>a DEF Unlink, Go, Overtake, TypeOK, Name
  <2>6. step'[c] \in StepsOf(Kind(c)) \cup {"done", "failed"}
    BY <2>1, <2>5, <1>a, StepKinds DEF Unlink, Go, TypeOK, StepsOf, Under, ArtifactKinds, ConversationKinds, Name
  <2>7. /\ target'[c] = target[c] /\ todo'[c] = todo[c]
        /\ Kind(c) = "list artifacts" => todo[c] \subseteq Legacy /\ target[c] \in Legacy \cup {NoJob}
        /\ Kind(c) = "list" => todo[c] \subseteq ConversationIds /\ target[c] \in ConversationIds \cup {NoJob}
        /\ Kind(c) = "list" /\ step[c] \in {"asking", "checking", "upserting"} => target[c] \in ConversationIds
    BY <2>1, <1>a, ListTargets DEF Unlink, TypeOK
  <2>8. step'[c] \in {"looking", "opening"} => ~legacy'[c]
    BY <2>1, <2>5, <1>a DEF Unlink
  <2>9. step'[c] \in {"deleting file", "unlinking"} => \A r \in Calls \ {c} : target'[c] \in overtaken'[r]
    BY <2>5, <1>a DEF Unlink, Go, Overtake, TypeOK
  <2> QED
    BY <2>1, <2>2, <2>3, <2>4, <2>5, <2>6, <2>7, <2>8, <2>9 DEF Advance
<1> QED
  BY <1>1, <1>2, <1>3, <1>4, <1>5, <1>6, <1>7, <1>8, <1>9, <1>10 DEF ConversationStep

LEMMA BreakAdvances ==
  ASSUME CallsInv, NEW c \in Calls, Break(c)
  PROVE  TypeOK' /\ Advance(c)
<1> USE DEF CallsInv
<1>1. /\ step[c] # "idle" /\ CallFits(c) /\ job[c] # NoJob /\ step'[c] = "failed"
      /\ UNCHANGED <<job, target, todo, overtaken, artifact, draft, conversation, legacy>>
      /\ deleted' \subseteq deleted /\ touched' \subseteq touched
  BY DEF Break, Go, CallFits, TypeOK
<1>2. step' \in [Calls -> Steps]
  <2>1. "failed" \in Steps
    BY DEF Steps
  <2> QED
    BY <2>1, GoSteps DEF Break, TypeOK
<1>3. orphans' \subseteq ArtifactIds
  <2>1. Generating(c) => step[c] \in {"building", "saving"} 
    BY DEF Generating
  <2>2. Generating(c) => target[c] \in ArtifactIds
    BY <1>1, <2>1, StepTargets
  <2> QED
    BY <2>2 DEF Break, TypeOK
<1>4. TypeOK'
  BY <1>1, <1>2, <1>3 DEF Break, TypeOK, rates
<1>5. KeepsOthers(c) /\ OvertakesWriters(c)
  BY <1>1 DEF KeepsOthers, OvertakesWriters, Break, Go, TypeOK
<1> QED
  BY <1>1, <1>4, <1>5, ListTargets DEF Advance

LEMMA CountAdvances ==
  ASSUME CallsInv, NEW c \in Calls, Count(c), UNCHANGED <<artifacts, conversations>>
  PROVE  TypeOK' /\ Advance(c)
<1> USE DEF CallsInv
<1>1. /\ step[c] = "counting" /\ CallFits(c) /\ job[c] # NoJob /\ Kind(c) = "query"
      /\ UNCHANGED <<job, target, todo, overtaken, artifact, draft, conversation, legacy,
                    deleted, touched, files, orphans, archives, now>>
      /\ \E s \in {"done", "failed"} : Go(c, s)
  BY StepKinds DEF Count, artifacts, conversations
<1>2. step' \in [Calls -> Steps] /\ step'[c] \in {"done", "failed"}
  <2>1. {"done", "failed"} \subseteq Steps
    BY DEF Steps
  <2> QED
    BY <1>1, <2>1, GoSteps DEF TypeOK
<1>3. /\ requests' \in [Scopes -> [Windows -> Nat]]
      /\ admitted' \in [Scopes -> [Windows -> Nat]]
  <2>1. \A w \in Windows, counts \in [Scopes -> [Windows -> Nat]] :
          Counted(counts, c, w) \in [Scopes -> [Windows -> Nat]]
    BY DEF Counted
  <2>2. \A w \in Windows : Purged(w) \in [Scopes -> [Windows -> Nat]]
    BY DEF Purged, TypeOK
  <2>3. PICK w \in Readings :
          \/ requests' = Counted(Purged(w), c, w) /\ admitted' = Counted(admitted, c, w)
          \/ UNCHANGED <<requests, admitted>>
    BY DEF Count
  <2>4. w \in Windows
    BY DEF Readings
  <2>5. /\ Counted(Purged(w), c, w) \in [Scopes -> [Windows -> Nat]]
        /\ Counted(admitted, c, w) \in [Scopes -> [Windows -> Nat]]
    BY <2>1, <2>2, <2>4 DEF TypeOK
  <2> QED
    BY <2>3, <2>5 DEF TypeOK
<1>4. TypeOK'
  BY <1>1, <1>2, <1>3 DEF TypeOK
<1>5. KeepsOthers(c) /\ OvertakesWriters(c)
  BY <1>1 DEF KeepsOthers, OvertakesWriters, Go, TypeOK
<1> QED
  BY <1>1, <1>2, <1>4, <1>5 DEF Advance

\* A request begins.
LEMMA StartKeepsCalls ==
  ASSUME CallsInv, NEW c \in Calls, Start(c)
  PROVE  CallsInv' /\ KeepsOthers(c) /\ OvertakesWriters(c) /\ \A a : Seen(a) => Seen(a)'
<1> USE DEF CallsInv
<1>1. /\ step[c] = "idle" /\ CallFits(c)
      /\ UNCHANGED <<todo, now, requests, admitted, artifact, files, draft, deleted, orphans,
                    conversation, archives, legacy, touched>>
  BY DEF Start, rates, artifacts, conversations
<1>2. job[c] = NoJob /\ target[c] = NoJob /\ todo[c] = {} /\ ~legacy[c]
  <2>1. ASSUME job[c] # NoJob PROVE FALSE
    <3>0. job[c] \in Jobs
      BY <2>1 DEF TypeOK
    <3>1. Kind(c) \in StoreKinds
      BY <3>0, StoreAssumption DEF Kind
    <3>2. "idle" \in StepsOf(Kind(c)) \cup {"done", "failed"}
      BY <1>1, <2>1 DEF CallFits
    <3> QED
      BY <3>1, <3>2 DEF StepsOf, StoreKinds, RateKinds, ArtifactKinds, ConversationKinds
  <2> QED
    BY <1>1, <2>1 DEF CallFits
<1>3. PICK j \in Jobs :
       /\ j.kind \in {"read artifact", "rename artifact", "delete artifact"} => Seen(j.item)
       /\ j.kind = "generate" => \A r \in Calls : target[r] # j.item
       /\ job' = [job EXCEPT ![c] = j]
       /\ target' = [target EXCEPT ![c] = j.item]
       /\ Go(c, CASE j.kind = "query" -> "counting"
                  [] j.kind = "generate" -> "creating"
                  [] j.kind \in {"read artifact", "rename artifact"} -> "loading"
                  [] j.kind = "list artifacts" -> "listing"
                  [] j.kind = "delete artifact" -> "deleting row"
                  [] j.kind \in {"get", "save", "rename"} -> "looking"
                  [] j.kind = "list" -> "globbing"
                  [] j.kind = "delete" -> "deleting")
  BY DEF Start
<1>4. /\ j # NoJob /\ j.kind \in StoreKinds /\ j.item \in Items \cup {NoJob}
      /\ j.kind \in {"list", "list artifacts"} => j.item = NoJob
  BY StoreAssumption
<1>5. /\ job'[c] = j /\ target'[c] = j.item
      /\ overtaken'[c] = {target[r] : r \in {r \in Calls : Deleting(r)}}
      /\ step'[c] \in StepsOf(j.kind) \cap Steps
      /\ step'[c] \in {"counting", "creating", "loading", "listing", "deleting row", "looking",
                       "globbing", "deleting"}
  <2>1. /\ job'[c] = j /\ target'[c] = j.item
        /\ overtaken'[c] = {target[r] : r \in {r \in Calls : Deleting(r)}}
    BY <1>3 DEF Start, TypeOK
  <2>2. /\ step'[c] \in StepsOf(j.kind)
        /\ step'[c] \in {"counting", "creating", "loading", "listing", "deleting row", "looking",
                         "globbing", "deleting"}
    BY <1>3, <1>4 DEF Go, TypeOK, StepsOf, StoreKinds, RateKinds, ArtifactKinds, ConversationKinds
  <2> QED
    BY <2>1, <2>2 DEF Steps
<1>6. KeepsOthers(c) /\ OvertakesWriters(c)
  BY <1>1, <1>3 DEF Start, KeepsOthers, OvertakesWriters, Go, TypeOK
<1>7. \A r \in Calls : Deleting(r) => target[r] \in Items
  BY StepTargets DEF Deleting, Items
<1>8. TypeOK'
  <2>1. overtaken' \in [Calls -> SUBSET Items]
    <3>1. {target[r] : r \in {r \in Calls : Deleting(r)}} \in SUBSET Items
      BY <1>7
    <3>2. overtaken' = [overtaken EXCEPT ![c] = {target[r] : r \in {r \in Calls : Deleting(r)}}]
      BY DEF Start
    <3> QED
      BY <3>1, <3>2 DEF TypeOK
  <2>2. step' \in [Calls -> Steps]
    BY <1>3, <1>5 DEF Go, TypeOK
  <2> QED
    BY <1>1, <1>3, <1>4, <2>1, <2>2 DEF TypeOK
<1>9. \A a : Seen(a) => Seen(a)'
  BY <1>1, <1>2, <1>6, SeenGrows
<1>10. CallFits(c)'
  <2>1. Under(c, {"read artifact", "rename artifact", "delete artifact"})' => Seen(target[c])'
    BY <1>3, <1>5, <1>9 DEF Under, Kind
  <2> QED
    BY <1>1, <1>2, <1>4, <1>5, <2>1 DEF CallFits, Kind, Under
<1>11. \A r \in Calls : CallFits(r)'
  BY <1>6, <1>9, <1>10, OthersFit
<1>12. DeletionsOvertake'
  <2> SUFFICES ASSUME NEW r \in Calls, NEW q \in Calls, Deleting(r)', q # r, step'[q] # "idle"
               PROVE  target'[r] \in overtaken'[q]
    BY DEF DeletionsOvertake
  <2>1. r # c
    BY <1>5 DEF Deleting
  <2>2. Deleting(r) /\ target'[r] = target[r]
    BY <1>6, <2>1 DEF KeepsOthers, Deleting
  <2>3. CASE q = c
    BY <1>5, <2>2, <2>3
  <2>4. CASE q # c
    BY <1>6, <2>2, <2>4 DEF KeepsOthers, DeletionsOvertake
  <2> QED
    BY <2>3, <2>4
<1> QED
  BY <1>6, <1>8, <1>9, <1>11, <1>12

-----------------------------------------------------------------------------
(* Artifacts.                                                              *)

LEMMA DraftFrame ==
  ASSUME CallsInv, NEW c \in Calls, NEW r \in Calls, r # c,
         KeepsOthers(c), OvertakesWriters(c), DraftFits(r),
         step[r] = "creating" =>
           /\ target[c] # target[r] /\ target'[c] # target[r]
  PROVE  DraftFits(r)'
<1> DEFINE a == target[r]
<1> USE DEF CallsInv
<1>1. /\ job'[r] = job[r] /\ step'[r] = step[r] /\ target'[r] = a /\ todo'[r] = todo[r]
      /\ draft'[r] = draft[r] /\ overtaken[r] \subseteq overtaken'[r]
      /\ Kind(r)' = Kind(r)
  BY DEF KeepsOthers, Kind
<1>2. step[r] \in {"creating", "building", "saving", "reading file"} => a \in ArtifactIds
  BY StepTargets
<1>3. a \in ArtifactIds /\ a \notin overtaken'[r] =>
        artifact'[a] = artifact[a] /\ (a \in deleted' => a \in deleted)
  BY DEF OvertakesWriters
<1>4. step[r] = "creating" =>
        /\ artifact'[a] = Absent /\ a \notin deleted' /\ \A q \in Calls \ {r} : target'[q] # a
  BY <1>2 DEF OvertakesWriters, KeepsOthers, DraftFits
<1>5. Under(r, {"list artifacts"}) => todo[r] \cap deleted' \subseteq overtaken'[r]
  <2> SUFFICES ASSUME Under(r, {"list artifacts"}), NEW b \in todo[r], b \in deleted'
               PROVE  b \in overtaken'[r]
    OBVIOUS
  <2>1. b \in ArtifactIds
    BY StoreAssumption, ListTargets DEF Under
  <2>2. CASE b \in deleted
    BY <1>1, <2>2 DEF DraftFits
  <2>3. CASE b \notin deleted
    BY <2>1, <2>3 DEF OvertakesWriters
  <2> QED
    BY <2>2, <2>3
<1>6. Generating(r)' = Generating(r) /\ \A kinds : Under(r, kinds)' = Under(r, kinds)
  BY <1>1 DEF Generating, Under
<1>7. /\ Generating(r) /\ a \notin overtaken'[r] => artifact'[a] = Pending
      /\ Under(r, {"generate"}) /\ step[r] = "saving" =>
           draft[r] \in Rows /\ draft[r].title = "given" /\ draft[r].status # "generating"
      /\ Under(r, {"rename artifact"}) /\ step[r] = "saving" =>
           /\ draft[r] \in Rows /\ draft[r].title = "changed"
           /\ a \notin overtaken'[r] => artifact'[a] # Absent /\ artifact'[a].status = draft[r].status
      /\ step[r] = "reading file" /\ a \notin overtaken'[r] => artifact'[a] = Absent
      /\ Under(r, {"read artifact", "list artifacts"}) /\ step[r] = "saving" =>
           draft[r] = Filed /\ (a \notin overtaken'[r] => artifact'[a] = Absent /\ a \notin deleted')
  BY <1>1, <1>2, <1>3 DEF DraftFits, Generating
<1> QED
  BY <1>1, <1>4, <1>5, <1>6, <1>7 DEF DraftFits

LEMMA CreatingApart ==
  ASSUME CallsInv, NEW c \in Calls, Advance(c), NEW r \in Calls, r # c, DraftFits(r),
         step[r] = "creating"
  PROVE  target[c] # target[r] /\ target'[c] # target[r]
<1> USE DEF CallsInv
<1>1. target[c] # target[r]
  BY DEF DraftFits
<1>2. target[r] \in ArtifactIds /\ target[r] \notin Legacy
  BY StepKinds, StepTargets
<1>3. ArtifactIds \cap ConversationIds = {} /\ NoJob \notin ArtifactIds
  BY StoreAssumption DEF Items
<1>4. target'[c] = target[c] \/ target'[c] \in Legacy \cup ConversationIds \cup {NoJob}
  BY DEF Advance
<1> QED
  BY <1>1, <1>2, <1>3, <1>4

LEMMA OtherDrafts ==
  ASSUME CallsInv, NEW c \in Calls, Advance(c), \A r \in Calls : DraftFits(r), DraftFits(c)'
  PROVE  \A r \in Calls : DraftFits(r)'
<1> SUFFICES ASSUME NEW r \in Calls, r # c PROVE DraftFits(r)'
  OBVIOUS
<1> QED
  BY CreatingApart, DraftFrame DEF Advance

\* What an artifact's call works on has been seen.
LEMMA TargetSeen ==
  ASSUME TypeOK, NEW c \in Calls, CallFits(c), job[c] # NoJob, step[c] # "creating",
         \/ Kind(c) \in {"generate", "read artifact", "rename artifact", "delete artifact"}
         \/ Kind(c) = "list artifacts" /\ step[c] = "saving"
  PROVE  Seen(target[c])
<1>1. CASE Kind(c) = "generate"
  BY <1>1 DEF Seen, Under
<1>2. CASE Kind(c) \in {"read artifact", "rename artifact", "delete artifact"}
  BY <1>2 DEF CallFits, Under
<1>3. CASE Kind(c) = "list artifacts" /\ step[c] = "saving"
  BY <1>3, ListTargets DEF Seen
<1> QED
  BY <1>1, <1>2, <1>3

LEMMA FreshKept ==
  ASSUME CallsInv, CallsInv', FreshIds, NEW c \in Calls, OvertakesWriters(c),
         \A a : Seen(a) => Seen(a)',
         \A a \in ArtifactIds :
           artifact'[a] # artifact[a] \/ (a \in deleted' /\ a \notin deleted) =>
             /\ target'[c] = target[c] /\ Seen(target[c])'
  PROVE  FreshIds'
<1> SUFFICES ASSUME NEW a \in ArtifactIds, artifact'[a] # Absent \/ a \in deleted'
             PROVE  Seen(a)'
  BY DEF FreshIds
<1>1. CASE artifact'[a] = artifact[a] /\ (a \in deleted' => a \in deleted)
  BY <1>1 DEF FreshIds
<1>2. CASE artifact'[a] # artifact[a] \/ (a \in deleted' /\ a \notin deleted)
  BY <1>2 DEF OvertakesWriters
<1> QED
  BY <1>1, <1>2

\* What leaves the artifacts alone.
LEMMA ArtifactsRest ==
  ASSUME CallsInv, ArtifactsInv, NEW c \in Calls, Advance(c), TypeOK', UNCHANGED artifacts,
         Kind(c) \notin ArtifactKinds
  PROVE  ArtifactsInv'
<1> USE DEF CallsInv, ArtifactsInv
<1>1. /\ UNCHANGED <<artifact, files, draft, deleted, orphans>> /\ KeepsOthers(c) /\ OvertakesWriters(c)
      /\ job' = job /\ job[c] # NoJob /\ Kind(c)' = Kind(c) /\ CallsInv'
      /\ \A a : Seen(a) => Seen(a)'
  BY AdvanceKeepsCalls, StepKinds DEF Advance, artifacts, Kind
<1>2. /\ step'[c] \notin {"creating", "reading file", "deleting file"} /\ step[c] # "deleting file"
      /\ ~Generating(c) /\ ~Generating(c)'
      /\ \A kinds \in SUBSET ArtifactKinds : ~Under(c, kinds) /\ ~Under(c, kinds)'
  <2>1. Kind(c) \in RateKinds \cup ConversationKinds
    BY StepKinds DEF Advance, StoreKinds
  <2>2. step'[c] \notin {"creating", "reading file", "deleting file"}
    BY <2>1 DEF Advance, StepsOf, RateKinds, ConversationKinds
  <2>3. step[c] # "deleting file"
    BY <2>1, StepKinds DEF Advance, RateKinds, ConversationKinds
  <2> QED
    BY <1>1, <2>2, <2>3 DEF ArtifactKinds, Generating, Under
<1>3. DraftFits(c)'
  BY <1>2 DEF DraftFits, ArtifactKinds
<1>4. \A r \in Calls : DraftFits(r)'
  BY <1>3, OtherDrafts
<1>5. FreshIds'
  BY <1>1, FreshKept
<1>6. FilesGo'
  <2> SUFFICES ASSUME NEW a \in files \cap deleted
               PROVE  \E r \in Calls : step'[r] = "deleting file" /\ target'[r] = a
    BY <1>1 DEF FilesGo
  <2>1. PICK r \in Calls : step[r] = "deleting file" /\ target[r] = a
    BY DEF FilesGo
  <2> QED
    BY <1>1, <1>2, <2>1 DEF KeepsOthers
<1>7. GeneratingIsGenerated'
  <2> SUFFICES ASSUME NEW a \in ArtifactIds, artifact[a].status = "generating", a \notin orphans
               PROVE  \E r \in Calls : target'[r] = a /\ Generating(r)'
    BY <1>1 DEF GeneratingIsGenerated
  <2>1. PICK r \in Calls : target[r] = a /\ Generating(r)
    BY DEF GeneratingIsGenerated
  <2>2. r # c
    BY <1>2, <2>1
  <2> QED
    BY <1>1, <2>1, <2>2 DEF KeepsOthers, Generating, Under, Kind
<1> QED
  BY <1>4, <1>5, <1>6, <1>7

LEMMA ArtifactsBreak ==
  ASSUME CallsInv, ArtifactsInv, NEW c \in Calls, Break(c)
  PROVE  ArtifactsInv'
<1> USE DEF CallsInv, ArtifactsInv
<1>1. /\ Advance(c) /\ TypeOK' /\ CallsInv' /\ KeepsOthers(c) /\ OvertakesWriters(c)
      /\ \A a : Seen(a) => Seen(a)'
  BY BreakAdvances, AdvanceKeepsCalls DEF Advance
<1>2. /\ step'[c] = "failed" /\ UNCHANGED <<job, target, todo, overtaken, artifact, files, draft>>
      /\ deleted' = IF step[c] = "deleting file" THEN deleted \ {target[c]} ELSE deleted
      /\ orphans' = IF Generating(c) THEN orphans \cup {target[c]} ELSE orphans
  BY DEF Break, Go, TypeOK
<1>3. DraftFits(c)'
  BY <1>2 DEF DraftFits, Generating, Under, Kind
<1>4. \A r \in Calls : DraftFits(r)'
  BY <1>1, <1>3, OtherDrafts
<1>5. FreshIds'
  BY <1>1, <1>2, FreshKept
<1>6. FilesGo'
  <2> SUFFICES ASSUME NEW a \in files \cap deleted'
               PROVE  \E r \in Calls : step'[r] = "deleting file" /\ target'[r] = a
    BY <1>2 DEF FilesGo
  <2>1. PICK r \in Calls : step[r] = "deleting file" /\ target[r] = a
    BY <1>2 DEF FilesGo
  <2>2. r # c
    BY <1>2, <2>1
  <2> QED
    BY <1>1, <2>1, <2>2 DEF KeepsOthers
<1>7. GeneratingIsGenerated'
  <2> SUFFICES ASSUME NEW a \in ArtifactIds, artifact[a].status = "generating", a \notin orphans'
               PROVE  \E r \in Calls : target'[r] = a /\ Generating(r)'
    BY <1>2 DEF GeneratingIsGenerated
  <2>1. PICK r \in Calls : target[r] = a /\ Generating(r)
    BY <1>2 DEF GeneratingIsGenerated
  <2>2. r # c
    BY <1>2, <2>1
  <2> QED
    BY <1>1, <2>1, <2>2 DEF KeepsOthers, Generating, Under, Kind
<1> QED
  BY <1>4, <1>5, <1>6, <1>7

LEMMA ArtifactsStart ==
  ASSUME CallsInv, ArtifactsInv, NEW c \in Calls, Start(c)
  PROVE  ArtifactsInv'
<1> USE DEF CallsInv, ArtifactsInv
<1>1. /\ CallsInv' /\ KeepsOthers(c) /\ OvertakesWriters(c) /\ \A a : Seen(a) => Seen(a)'
  BY StartKeepsCalls
<1>2. /\ UNCHANGED <<artifact, files, draft, deleted, orphans, todo>> /\ step[c] = "idle"
      /\ \A r \in Calls \ {c} : target'[r] = target[r]
  BY DEF Start, artifacts, TypeOK
<1>3. PICK j \in Jobs :
       /\ j.kind \in {"read artifact", "rename artifact", "delete artifact"} => Seen(j.item)
       /\ j.kind = "generate" => \A r \in Calls : target[r] # j.item
       /\ job'[c] = j /\ target'[c] = j.item
       /\ step'[c] = "creating" => j.kind = "generate"
       /\ step'[c] \notin {"building", "saving", "reading file"}
  <2>1. PICK j \in Jobs :
       /\ j.kind \in {"read artifact", "rename artifact", "delete artifact"} => Seen(j.item)
       /\ j.kind = "generate" => \A r \in Calls : target[r] # j.item
       /\ job' = [job EXCEPT ![c] = j] /\ target' = [target EXCEPT ![c] = j.item]
       /\ Go(c, CASE j.kind = "query" -> "counting"
                  [] j.kind = "generate" -> "creating"
                  [] j.kind \in {"read artifact", "rename artifact"} -> "loading"
                  [] j.kind = "list artifacts" -> "listing"
                  [] j.kind = "delete artifact" -> "deleting row"
                  [] j.kind \in {"get", "save", "rename"} -> "looking"
                  [] j.kind = "list" -> "globbing"
                  [] j.kind = "delete" -> "deleting")
    BY DEF Start
  <2>2. j.kind \in StoreKinds
    BY StoreAssumption
  <2>3. /\ step'[c] = "creating" => j.kind = "generate"
        /\ step'[c] \notin {"building", "saving", "reading file"}
    BY <2>1, <2>2 DEF Go, TypeOK, StoreKinds, RateKinds, ArtifactKinds, ConversationKinds
  <2> QED
    BY <2>1, <2>3 DEF TypeOK
<1>4. /\ j.kind \in StoreKinds
      /\ j.kind \in ArtifactKinds \ {"list artifacts"} => j.item \in ArtifactIds
      /\ j.kind \in ConversationKinds \ {"list"} => j.item \in ConversationIds
      /\ j.kind = "generate" => j.item \notin Legacy
      /\ j.kind \in {"query", "list", "list artifacts"} => j.item = NoJob
      /\ ArtifactIds \cap ConversationIds = {} /\ NoJob \notin ArtifactIds
  BY StoreAssumption DEF Items
<1>5. DraftFits(c)'
  <2>1. ASSUME j.kind = "generate"
        PROVE  /\ artifact[j.item] = Absent /\ j.item \notin deleted
               /\ \A r \in Calls \ {c} : target[r] # j.item
    <3>1. ~Seen(j.item)
      BY <1>3, <1>4, <2>1 DEF Seen
    <3> QED
      BY <1>3, <1>4, <2>1, <3>1 DEF FreshIds, ArtifactKinds
  <2>2. todo'[c] = {}
    <3>1. CallFits(c) /\ (job[c] = NoJob \/ step[c] # "idle")
      <4>1. ASSUME job[c] # NoJob PROVE step[c] # "idle"
        <5>0. job[c] \in Jobs
          BY <4>1 DEF TypeOK
        <5>1. Kind(c) \in StoreKinds
          BY <5>0, StoreAssumption DEF Kind
        <5> QED
          BY <4>1, <5>1 DEF CallFits, StepsOf, StoreKinds, RateKinds, ArtifactKinds, ConversationKinds
      <4> QED
        BY <4>1
    <3> QED
      BY <1>2, <3>1 DEF CallFits
  <2> QED
    BY <1>2, <1>3, <2>1, <2>2 DEF DraftFits, Generating
<1>6. ASSUME NEW r \in Calls, r # c PROVE DraftFits(r)'
  <2>1. ASSUME step[r] = "creating" PROVE target[c] # target[r] /\ target'[c] # target[r]
    <3>1. target[r] \in ArtifactIds /\ target[r] \notin Legacy
      BY <2>1, StepKinds, StepTargets
    <3>2. \A q \in Calls \ {r} : target[q] # target[r]
      BY <2>1 DEF DraftFits
    <3>3. ~Seen(target[r])
      BY <2>1, <3>1, <3>2 DEF Seen
    <3>4. j.item # target[r]
      BY <1>3, <1>4, <3>1, <3>3 DEF StoreKinds, RateKinds, ArtifactKinds, ConversationKinds
    <3> QED
      BY <1>3, <1>6, <3>2, <3>4
  <2> QED
    BY <1>1, <1>6, <2>1, DraftFrame
<1>7. FreshIds'
  BY <1>1, <1>2 DEF FreshIds
<1>8. FilesGo'
  <2> SUFFICES ASSUME NEW a \in files \cap deleted
               PROVE  \E r \in Calls : step'[r] = "deleting file" /\ target'[r] = a
    BY <1>2 DEF FilesGo
  <2>1. PICK r \in Calls : step[r] = "deleting file" /\ target[r] = a
    BY DEF FilesGo
  <2>2. r # c
    BY <1>2, <2>1
  <2> QED
    BY <1>1, <2>1, <2>2 DEF KeepsOthers
<1>9. GeneratingIsGenerated'
  <2> SUFFICES ASSUME NEW a \in ArtifactIds, artifact[a].status = "generating", a \notin orphans
               PROVE  \E r \in Calls : target'[r] = a /\ Generating(r)'
    BY <1>2 DEF GeneratingIsGenerated
  <2>1. PICK r \in Calls : target[r] = a /\ Generating(r)
    BY DEF GeneratingIsGenerated
  <2>2. r # c
    BY <1>2, <2>1 DEF Generating
  <2> QED
    BY <1>1, <2>1, <2>2 DEF KeepsOthers, Generating, Under, Kind
<1> QED
  BY <1>5, <1>6, <1>7, <1>8, <1>9

\* What the steps on artifacts have in common.
LEMMA ArtifactStepFacts ==
  ASSUME CallsInv, ArtifactsInv, NEW c \in Calls, ArtifactStep(c), UNCHANGED <<rates, conversations>>
  PROVE  /\ TypeOK' /\ Advance(c) /\ CallsInv' /\ KeepsOthers(c) /\ OvertakesWriters(c)
         /\ \A a : Seen(a) => Seen(a)'
         /\ CallFits(c) /\ job' = job /\ job[c] # NoJob /\ Kind(c)' = Kind(c)
         /\ overtaken'[c] = overtaken[c]
BY ArtifactsAdvance, AdvanceKeepsCalls, StepKinds DEF CallsInv, Advance, Kind

LEMMA BuildKept ==
  ASSUME CallsInv, ArtifactsInv, NEW c \in Calls, Build(c), UNCHANGED <<rates, conversations>>
  PROVE  ArtifactsInv'
<1> USE DEF CallsInv, ArtifactsInv
<1>1. ArtifactStep(c)
  BY DEF ArtifactStep
<1>2. /\ TypeOK' /\ Advance(c) /\ CallsInv' /\ KeepsOthers(c) /\ OvertakesWriters(c)
      /\ \A a : Seen(a) => Seen(a)'
      /\ CallFits(c) /\ job' = job /\ job[c] # NoJob /\ Kind(c)' = Kind(c)
      /\ overtaken'[c] = overtaken[c]
  BY <1>1, ArtifactStepFacts
<1>3. step[c] = "building" /\ Kind(c) \in {"generate"}
  BY <1>2, StepKinds DEF Build, Under, ArtifactKinds
<1>4. DraftFits(c)'
  <2>1. /\ draft'[c] \in Rows /\ draft'[c].title = "given" /\ draft'[c].status # "generating"
        /\ step'[c] = "saving" /\ target'[c] = target[c] /\ artifact' = artifact
    BY DEF Build, Go, TypeOK, Pending, Rows
  <2>2. Generating(c) /\ Kind(c) = "generate"
    BY <1>2, <1>3 DEF Generating, Under
  <2> QED
    BY <1>2, <2>1, <2>2 DEF DraftFits, Generating, Under
<1>5. \A r \in Calls : DraftFits(r)'
  BY <1>2, <1>4, OtherDrafts
<1>6. FreshIds'
  BY <1>2 DEF Build, FreshIds
<1>7. FilesGo'
  <2> SUFFICES ASSUME NEW a \in files \cap deleted
               PROVE  \E r \in Calls : step'[r] = "deleting file" /\ target'[r] = a
    BY DEF FilesGo, Build
  <2>1. PICK r \in Calls : step[r] = "deleting file" /\ target[r] = a
    BY DEF FilesGo
  <2> QED
    BY <1>2, <1>3, <2>1 DEF KeepsOthers
<1>8. GeneratingIsGenerated'
  <2> SUFFICES ASSUME NEW a \in ArtifactIds, artifact'[a].status = "generating", a \notin orphans'
               PROVE  \E r \in Calls : target'[r] = a /\ Generating(r)'
    BY DEF GeneratingIsGenerated
  <2>1. PICK r \in Calls : target[r] = a /\ Generating(r)
    BY DEF GeneratingIsGenerated, Build
  <2>2. CASE r # c
    BY <1>2, <2>1, <2>2 DEF KeepsOthers, Generating, Under, Kind
  <2>3. CASE r = c
    BY <1>2, <1>3, <2>1, <2>3 DEF Build, Generating, Under, Go, TypeOK, Kind
  <2> QED
    BY <2>2, <2>3
<1> QED
  BY <1>5, <1>6, <1>7, <1>8

LEMMA SaveRaisesKept ==
  ASSUME CallsInv, ArtifactsInv, NEW c \in Calls, SaveRaises(c), UNCHANGED <<rates, conversations>>
  PROVE  ArtifactsInv'
<1> USE DEF CallsInv, ArtifactsInv
<1>1. ArtifactStep(c)
  BY DEF ArtifactStep
<1>2. /\ TypeOK' /\ Advance(c) /\ CallsInv' /\ KeepsOthers(c) /\ OvertakesWriters(c)
      /\ \A a : Seen(a) => Seen(a)'
      /\ CallFits(c) /\ job' = job /\ job[c] # NoJob /\ Kind(c)' = Kind(c)
      /\ overtaken'[c] = overtaken[c]
  BY <1>1, ArtifactStepFacts
<1>3. step[c] = "saving" /\ Kind(c) \in {"generate"}
  BY <1>2, StepKinds DEF SaveRaises, Under, ArtifactKinds
<1>4. DraftFits(c)'
  <2>1. /\ Generating(c) /\ Kind(c) = "generate" /\ target'[c] = target[c] /\ artifact' = artifact
        /\ draft[c] \in Rows /\ draft[c].title = "given" /\ draft[c].status # "generating"
    BY <1>2, <1>3 DEF Generating, Under, SaveRaises, DraftFits
  <2>2. CASE draft[c].status = "ready"
    <3>1. /\ draft'[c] \in Rows /\ draft'[c].title = "given" /\ draft'[c].status = "failed"
          /\ step'[c] = "saving"
      BY <1>3, <2>1, <2>2 DEF SaveRaises, TypeOK, Rows
    <3> QED
      BY <1>2, <2>1, <3>1 DEF DraftFits, Generating, Under
  <2>3. CASE draft[c].status # "ready"
    <3>1. step'[c] = "failed"
      BY <2>3 DEF SaveRaises, Go, TypeOK
    <3> QED
      BY <1>2, <2>1, <3>1 DEF DraftFits, Generating, Under
  <2> QED
    BY <2>2, <2>3
<1>5. \A r \in Calls : DraftFits(r)'
  BY <1>2, <1>4, OtherDrafts
<1>6. FreshIds'
  BY <1>2 DEF SaveRaises, FreshIds
<1>7. FilesGo'
  <2> SUFFICES ASSUME NEW a \in files \cap deleted
               PROVE  \E r \in Calls : step'[r] = "deleting file" /\ target'[r] = a
    BY DEF FilesGo, SaveRaises
  <2>1. PICK r \in Calls : step[r] = "deleting file" /\ target[r] = a
    BY DEF FilesGo
  <2> QED
    BY <1>2, <1>3, <2>1 DEF KeepsOthers
<1>8. GeneratingIsGenerated'
  <2> SUFFICES ASSUME NEW a \in ArtifactIds, artifact'[a].status = "generating", a \notin orphans'
               PROVE  \E r \in Calls : target'[r] = a /\ Generating(r)'
    BY DEF GeneratingIsGenerated
  <2>1. PICK r \in Calls : target[r] = a /\ Generating(r)
    BY DEF GeneratingIsGenerated, SaveRaises
  <2>2. CASE r # c
    BY <1>2, <2>1, <2>2 DEF KeepsOthers, Generating, Under, Kind
  <2>3. CASE r = c
    BY <1>2, <1>3, <2>1, <2>3 DEF SaveRaises, Generating, Under, Go, TypeOK, Kind
  <2> QED
    BY <2>2, <2>3
<1> QED
  BY <1>5, <1>6, <1>7, <1>8

LEMMA LoadArtifactKept ==
  ASSUME CallsInv, ArtifactsInv, NEW c \in Calls, LoadArtifact(c), UNCHANGED <<rates, conversations>>
  PROVE  ArtifactsInv'
<1> USE DEF CallsInv, ArtifactsInv
<1>1. ArtifactStep(c)
  BY DEF ArtifactStep
<1>2. /\ TypeOK' /\ Advance(c) /\ CallsInv' /\ KeepsOthers(c) /\ OvertakesWriters(c)
      /\ \A a : Seen(a) => Seen(a)'
      /\ CallFits(c) /\ job' = job /\ job[c] # NoJob /\ Kind(c)' = Kind(c)
      /\ overtaken'[c] = overtaken[c]
  BY <1>1, ArtifactStepFacts
<1>3. step[c] = "loading" /\ Kind(c) \in {"read artifact", "rename artifact"}
  BY <1>2, StepKinds DEF LoadArtifact, Under, ArtifactKinds
<1>4. DraftFits(c)'
  <2>1. target'[c] = target[c] /\ artifact' = artifact /\ target[c] \in ArtifactIds
    BY <1>2, <1>3, StepTargets DEF LoadArtifact
  <2>2. artifact[target[c]] \in Rows \cup {Absent}
    BY <2>1 DEF TypeOK
  <2>3. CASE step'[c] = "saving"
    <3>1. /\ artifact[target[c]] # Absent /\ Kind(c) = "rename artifact"
          /\ draft'[c] = [artifact[target[c]] EXCEPT !.title = "changed"]
      BY <2>3 DEF LoadArtifact, Go, TypeOK
    <3>2. /\ draft'[c] \in Rows /\ draft'[c].title = "changed"
          /\ draft'[c].status = artifact[target[c]].status
      BY <2>2, <3>1 DEF Rows
    <3> QED
      BY <1>2, <2>1, <2>3, <3>1, <3>2 DEF DraftFits, Generating, Under
  <2>4. CASE step'[c] # "saving"
    <3>1. /\ step'[c] \in {"failed", "reading file", "done"}
          /\ step'[c] = "reading file" => artifact[target[c]] = Absent
      BY <2>4 DEF LoadArtifact, Go, TypeOK
    <3> QED
      BY <1>2, <1>3, <2>1, <3>1 DEF DraftFits, Generating, Under
  <2> QED
    BY <2>3, <2>4
<1>5. \A r \in Calls : DraftFits(r)'
  BY <1>2, <1>4, OtherDrafts
<1>6. FreshIds'
  BY <1>2 DEF LoadArtifact, FreshIds
<1>7. FilesGo'
  <2> SUFFICES ASSUME NEW a \in files \cap deleted
               PROVE  \E r \in Calls : step'[r] = "deleting file" /\ target'[r] = a
    BY DEF FilesGo, LoadArtifact
  <2>1. PICK r \in Calls : step[r] = "deleting file" /\ target[r] = a
    BY DEF FilesGo
  <2> QED
    BY <1>2, <1>3, <2>1 DEF KeepsOthers
<1>8. GeneratingIsGenerated'
  <2> SUFFICES ASSUME NEW a \in ArtifactIds, artifact'[a].status = "generating", a \notin orphans'
               PROVE  \E r \in Calls : target'[r] = a /\ Generating(r)'
    BY DEF GeneratingIsGenerated
  <2>1. PICK r \in Calls : target[r] = a /\ Generating(r)
    BY DEF GeneratingIsGenerated, LoadArtifact
  <2>2. CASE r # c
    BY <1>2, <2>1, <2>2 DEF KeepsOthers, Generating, Under, Kind
  <2>3. CASE r = c
    BY <1>3, <2>1, <2>3 DEF Generating, Under
  <2> QED
    BY <2>2, <2>3
<1> QED
  BY <1>5, <1>6, <1>7, <1>8

LEMMA ReadFileKept ==
  ASSUME CallsInv, ArtifactsInv, NEW c \in Calls, ReadFile(c), UNCHANGED <<rates, conversations>>
  PROVE  ArtifactsInv'
<1> USE DEF CallsInv, ArtifactsInv
<1>1. ArtifactStep(c)
  BY DEF ArtifactStep
<1>2. /\ TypeOK' /\ Advance(c) /\ CallsInv' /\ KeepsOthers(c) /\ OvertakesWriters(c)
      /\ \A a : Seen(a) => Seen(a)'
      /\ CallFits(c) /\ job' = job /\ job[c] # NoJob /\ Kind(c)' = Kind(c)
      /\ overtaken'[c] = overtaken[c]
  BY <1>1, ArtifactStepFacts
<1>3. step[c] = "reading file" /\ Kind(c) \in {"read artifact"}
  BY <1>2, StepKinds DEF ReadFile, Under, ArtifactKinds
<1>4. DraftFits(c)'
  <2>1. /\ target'[c] = target[c] /\ UNCHANGED <<artifact, files, deleted>>
        /\ target[c] \in ArtifactIds
    BY <1>2, <1>3, StepTargets DEF ReadFile
  <2>2. CASE target[c] \in files
    <3>1. draft'[c] = Filed /\ step'[c] = "saving"
      BY <2>2 DEF ReadFile, Go, TypeOK
    <3>2. target[c] \notin overtaken[c] => artifact[target[c]] = Absent
      BY <1>3 DEF DraftFits
    <3>3. target[c] \in deleted => target[c] \in overtaken[c]
      BY <1>3, <2>2 DEF FilesGo, DeletionsOvertake, Deleting
    <3> QED
      BY <1>2, <1>3, <2>1, <3>1, <3>2, <3>3 DEF DraftFits, Generating, Under
  <2>3. CASE target[c] \notin files
    <3>1. step'[c] = "failed"
      BY <2>3 DEF ReadFile, Go, TypeOK
    <3> QED
      BY <1>2, <1>3, <2>1, <3>1 DEF DraftFits, Generating, Under
  <2> QED
    BY <2>2, <2>3
<1>5. \A r \in Calls : DraftFits(r)'
  BY <1>2, <1>4, OtherDrafts
<1>6. FreshIds'
  BY <1>2 DEF ReadFile, FreshIds
<1>7. FilesGo'
  <2> SUFFICES ASSUME NEW a \in files \cap deleted
               PROVE  \E r \in Calls : step'[r] = "deleting file" /\ target'[r] = a
    BY DEF FilesGo, ReadFile
  <2>1. PICK r \in Calls : step[r] = "deleting file" /\ target[r] = a
    BY DEF FilesGo
  <2> QED
    BY <1>2, <1>3, <2>1 DEF KeepsOthers
<1>8. GeneratingIsGenerated'
  <2> SUFFICES ASSUME NEW a \in ArtifactIds, artifact'[a].status = "generating", a \notin orphans'
               PROVE  \E r \in Calls : target'[r] = a /\ Generating(r)'
    BY DEF GeneratingIsGenerated
  <2>1. PICK r \in Calls : target[r] = a /\ Generating(r)
    BY DEF GeneratingIsGenerated, ReadFile
  <2>2. CASE r # c
    BY <1>2, <2>1, <2>2 DEF KeepsOthers, Generating, Under, Kind
  <2>3. CASE r = c
    BY <1>3, <2>1, <2>3 DEF Generating, Under
  <2> QED
    BY <2>2, <2>3
<1> QED
  BY <1>5, <1>6, <1>7, <1>8

LEMMA ReadFilesKept ==
  ASSUME CallsInv, ArtifactsInv, NEW c \in Calls, ReadFiles(c), UNCHANGED <<rates, conversations>>
  PROVE  ArtifactsInv'
<1> USE DEF CallsInv, ArtifactsInv
<1>1. ArtifactStep(c)
  BY DEF ArtifactStep
<1>2. /\ TypeOK' /\ Advance(c) /\ CallsInv' /\ KeepsOthers(c) /\ OvertakesWriters(c)
      /\ \A a : Seen(a) => Seen(a)'
      /\ CallFits(c) /\ job' = job /\ job[c] # NoJob /\ Kind(c)' = Kind(c)
      /\ overtaken'[c] = overtaken[c]
  BY <1>1, ArtifactStepFacts
<1>3. step[c] = "listing" /\ Kind(c) \in {"list artifacts"}
  BY <1>2, StepKinds DEF ReadFiles, Under, ArtifactKinds
<1>4. DraftFits(c)'
  <2>1. step'[c] = "migrating" /\ todo'[c] = files /\ deleted' = deleted
    BY DEF ReadFiles, Go, TypeOK, artifacts
  <2>2. files \cap deleted \subseteq overtaken[c]
    <3> SUFFICES ASSUME NEW a \in files \cap deleted PROVE a \in overtaken[c]
      OBVIOUS
    <3>1. PICK r \in Calls : step[r] = "deleting file" /\ target[r] = a
      BY DEF FilesGo
    <3>2. r # c /\ step[c] # "idle" /\ Deleting(r)
      BY <1>3, <3>1 DEF Deleting
    <3> QED
      BY <3>1, <3>2 DEF DeletionsOvertake
  <2> QED
    BY <1>2, <1>3, <2>1, <2>2 DEF DraftFits, Generating, Under
<1>5. \A r \in Calls : DraftFits(r)'
  BY <1>2, <1>4, OtherDrafts
<1>6. FreshIds'
  BY <1>2 DEF ReadFiles, artifacts, FreshIds
<1>7. FilesGo'
  <2> SUFFICES ASSUME NEW a \in files \cap deleted
               PROVE  \E r \in Calls : step'[r] = "deleting file" /\ target'[r] = a
    BY DEF FilesGo, ReadFiles, artifacts
  <2>1. PICK r \in Calls : step[r] = "deleting file" /\ target[r] = a
    BY DEF FilesGo
  <2> QED
    BY <1>2, <1>3, <2>1 DEF KeepsOthers
<1>8. GeneratingIsGenerated'
  <2> SUFFICES ASSUME NEW a \in ArtifactIds, artifact'[a].status = "generating", a \notin orphans'
               PROVE  \E r \in Calls : target'[r] = a /\ Generating(r)'
    BY DEF GeneratingIsGenerated
  <2>1. PICK r \in Calls : target[r] = a /\ Generating(r)
    BY DEF GeneratingIsGenerated, ReadFiles, artifacts
  <2>2. CASE r # c
    BY <1>2, <2>1, <2>2 DEF KeepsOthers, Generating, Under, Kind
  <2>3. CASE r = c
    BY <1>3, <2>1, <2>3 DEF Generating, Under
  <2> QED
    BY <2>2, <2>3
<1> QED
  BY <1>5, <1>6, <1>7, <1>8

LEMMA MigrateKept ==
  ASSUME CallsInv, ArtifactsInv, NEW c \in Calls, Migrate(c), UNCHANGED <<rates, conversations>>
  PROVE  ArtifactsInv'
<1> USE DEF CallsInv, ArtifactsInv
<1>1. ArtifactStep(c)
  BY DEF ArtifactStep
<1>2. /\ TypeOK' /\ Advance(c) /\ CallsInv' /\ KeepsOthers(c) /\ OvertakesWriters(c)
      /\ \A a : Seen(a) => Seen(a)'
      /\ CallFits(c) /\ job' = job /\ job[c] # NoJob /\ Kind(c)' = Kind(c)
      /\ overtaken'[c] = overtaken[c]
  BY <1>1, ArtifactStepFacts
<1>3. step[c] = "migrating" /\ Kind(c) \in {"list artifacts"}
  BY <1>2, StepKinds DEF Migrate, Under, ArtifactKinds
<1>4. DraftFits(c)'
  <2>1. UNCHANGED <<artifact, deleted>> /\ todo[c] \cap deleted \subseteq overtaken[c]
    BY <1>2, <1>3 DEF Migrate, DraftFits, Under
  <2>2. CASE Go(c, "done") /\ UNCHANGED <<target, todo, draft>>
    <3>1. step'[c] = "done" /\ todo'[c] = todo[c]
      BY <2>2 DEF Go, TypeOK
    <3> QED
      BY <1>2, <1>3, <2>1, <3>1 DEF DraftFits, Generating, Under
  <2>3. ASSUME NEW a \in todo[c],
               /\ todo' = [todo EXCEPT ![c] = @ \ {a}]
               /\ IF artifact[a] = Absent
                  THEN /\ target' = [target EXCEPT ![c] = a]
                       /\ draft' = [draft EXCEPT ![c] = Filed]
                       /\ Go(c, "saving")
                  ELSE UNCHANGED <<target, draft, step>>
        PROVE  DraftFits(c)'
    <3>1. todo'[c] \cap deleted' \subseteq overtaken'[c]
      BY <1>2, <2>1, <2>3 DEF TypeOK
    <3>2. CASE artifact[a] = Absent
      <4>1. step'[c] = "saving" /\ target'[c] = a /\ draft'[c] = Filed
        BY <2>3, <3>2 DEF Go, TypeOK
      <4> QED
        BY <1>2, <1>3, <2>1, <3>1, <3>2, <4>1 DEF DraftFits, Generating, Under
    <3>3. CASE artifact[a] # Absent
      BY <1>2, <1>3, <2>1, <2>3, <3>1, <3>3 DEF DraftFits, Generating, Under
    <3> QED
      BY <3>2, <3>3
  <2> QED
    BY <2>2, <2>3 DEF Migrate
<1>5. \A r \in Calls : DraftFits(r)'
  BY <1>2, <1>4, OtherDrafts
<1>6. FreshIds'
  BY <1>2 DEF Migrate, FreshIds
<1>7. FilesGo'
  <2> SUFFICES ASSUME NEW a \in files \cap deleted
               PROVE  \E r \in Calls : step'[r] = "deleting file" /\ target'[r] = a
    BY DEF FilesGo, Migrate
  <2>1. PICK r \in Calls : step[r] = "deleting file" /\ target[r] = a
    BY DEF FilesGo
  <2> QED
    BY <1>2, <1>3, <2>1 DEF KeepsOthers
<1>8. GeneratingIsGenerated'
  <2> SUFFICES ASSUME NEW a \in ArtifactIds, artifact'[a].status = "generating", a \notin orphans'
               PROVE  \E r \in Calls : target'[r] = a /\ Generating(r)'
    BY DEF GeneratingIsGenerated
  <2>1. PICK r \in Calls : target[r] = a /\ Generating(r)
    BY DEF GeneratingIsGenerated, Migrate
  <2>2. CASE r # c
    BY <1>2, <2>1, <2>2 DEF KeepsOthers, Generating, Under, Kind
  <2>3. CASE r = c
    BY <1>3, <2>1, <2>3 DEF Generating, Under
  <2> QED
    BY <2>2, <2>3
<1> QED
  BY <1>5, <1>6, <1>7, <1>8

LEMMA CreateKept ==
  ASSUME CallsInv, ArtifactsInv, NEW c \in Calls, Create(c), UNCHANGED <<rates, conversations>>
  PROVE  ArtifactsInv'
<1> USE DEF CallsInv, ArtifactsInv
<1>1. ArtifactStep(c)
  BY DEF ArtifactStep
<1>2. /\ TypeOK' /\ Advance(c) /\ CallsInv' /\ KeepsOthers(c) /\ OvertakesWriters(c)
      /\ \A a : Seen(a) => Seen(a)'
      /\ CallFits(c) /\ job' = job /\ job[c] # NoJob /\ Kind(c)' = Kind(c)
      /\ overtaken'[c] = overtaken[c]
  BY <1>1, ArtifactStepFacts
<1>3. step[c] = "creating" /\ Kind(c) \in {"generate"}
  BY <1>2, StepKinds DEF Create, Under, ArtifactKinds
<1>4. DraftFits(c)'
  <2>1. /\ step'[c] = "building" /\ target'[c] = target[c] /\ artifact'[target[c]] = Pending
    BY <1>2, <1>3, StepTargets DEF Create, Go, TypeOK
  <2> QED
    BY <1>2, <1>3, <2>1 DEF DraftFits, Generating, Under
<1>5. \A r \in Calls : DraftFits(r)'
  BY <1>2, <1>4, OtherDrafts
<1>6. FreshIds'
  <2>1. target'[c] = target[c] /\ Seen(target[c])'
    <3>1. step'[c] = "building" /\ target'[c] = target[c]
      BY DEF Create, Go, TypeOK
    <3> QED
      BY <1>2, <1>3, <3>1 DEF Seen, Under
  <2> QED
    BY <1>2, <2>1, FreshKept
<1>7. FilesGo'
  <2> SUFFICES ASSUME NEW a \in files \cap deleted
               PROVE  \E r \in Calls : step'[r] = "deleting file" /\ target'[r] = a
    BY DEF FilesGo, Create
  <2>1. PICK r \in Calls : step[r] = "deleting file" /\ target[r] = a
    BY DEF FilesGo
  <2> QED
    BY <1>2, <1>3, <2>1 DEF KeepsOthers
<1>8. GeneratingIsGenerated'
  <2> SUFFICES ASSUME NEW a \in ArtifactIds, artifact'[a].status = "generating", a \notin orphans'
               PROVE  \E r \in Calls : target'[r] = a /\ Generating(r)'
    BY DEF GeneratingIsGenerated
  <2>1. CASE a = target[c]
    BY <1>2, <1>3, <2>1 DEF Create, Go, Generating, Under, TypeOK
  <2>2. CASE a # target[c]
    <3>1. PICK r \in Calls : target[r] = a /\ Generating(r)
      BY <2>2 DEF GeneratingIsGenerated, Create, TypeOK
    <3>2. r # c
      BY <2>2, <3>1
    <3> QED
      BY <1>2, <3>1, <3>2 DEF KeepsOthers, Generating, Under, Kind
  <2> QED
    BY <2>1, <2>2
<1> QED
  BY <1>5, <1>6, <1>7, <1>8

LEMMA SaveKept ==
  ASSUME CallsInv, ArtifactsInv, NEW c \in Calls, Save(c), UNCHANGED <<rates, conversations>>
  PROVE  ArtifactsInv'
<1> USE DEF CallsInv, ArtifactsInv
<1>1. ArtifactStep(c)
  BY DEF ArtifactStep
<1>2. /\ TypeOK' /\ Advance(c) /\ CallsInv' /\ KeepsOthers(c) /\ OvertakesWriters(c)
      /\ \A a : Seen(a) => Seen(a)'
      /\ CallFits(c) /\ job' = job /\ job[c] # NoJob /\ Kind(c)' = Kind(c)
      /\ overtaken'[c] = overtaken[c]
  BY <1>1, ArtifactStepFacts
<1>3. step[c] = "saving" /\ Kind(c) \in {"generate", "read artifact", "rename artifact", "list artifacts"}
  BY <1>2, StepKinds DEF Save, Under, ArtifactKinds
<1>4. DraftFits(c)'
  <2>1. step'[c] \in {"migrating", "done"} /\ UNCHANGED <<todo, deleted>>
    BY DEF Save, Go, TypeOK
  <2> QED
    BY <1>2, <2>1 DEF DraftFits, Generating, Under
<1>5. \A r \in Calls : DraftFits(r)'
  BY <1>2, <1>4, OtherDrafts
<1>6. FreshIds'
  <2>1. target'[c] = target[c] /\ Seen(target[c])'
    BY <1>2, <1>3, TargetSeen DEF Save
  <2> QED
    BY <1>2, <2>1, FreshKept
<1>7. FilesGo'
  <2> SUFFICES ASSUME NEW a \in files \cap deleted
               PROVE  \E r \in Calls : step'[r] = "deleting file" /\ target'[r] = a
    BY DEF FilesGo, Save
  <2>1. PICK r \in Calls : step[r] = "deleting file" /\ target[r] = a
    BY DEF FilesGo
  <2> QED
    BY <1>2, <1>3, <2>1 DEF KeepsOthers
<1>8. GeneratingIsGenerated'
  <2> SUFFICES ASSUME NEW a \in ArtifactIds, artifact'[a].status = "generating", a \notin orphans'
               PROVE  \E r \in Calls : target'[r] = a /\ Generating(r)'
    BY DEF GeneratingIsGenerated
  <2>0. target[c] \in ArtifactIds
    BY <1>2, <1>3, StepTargets
  <2>1. CASE a # target[c]
    <3>1. PICK r \in Calls : target[r] = a /\ Generating(r)
      BY <2>1 DEF GeneratingIsGenerated, Save, TypeOK
    <3>2. r # c
      BY <2>1, <3>1
    <3> QED
      BY <1>2, <3>1, <3>2 DEF KeepsOthers, Generating, Under, Kind
  <2>2. CASE a = target[c]
    <3>1. artifact'[a] = draft[c]
      BY <2>0, <2>2 DEF Save, TypeOK
    <3>2. Kind(c) = "rename artifact"
      <4>1. Kind(c) = "generate" => draft[c].status # "generating"
        BY <1>2, <1>3 DEF DraftFits, Under
      <4>2. Kind(c) \in {"read artifact", "list artifacts"} => draft[c] = Filed
        BY <1>2, <1>3 DEF DraftFits, Under
      <4>3. draft[c].status = "generating" /\ Filed.status = "ready"
        BY <3>1 DEF Filed
      <4> QED
        BY <1>3, <4>1, <4>2, <4>3
    <3>3. artifact[a].status = "generating" /\ a \notin orphans
      BY <2>2, <3>1, <3>2 DEF Save
    <3>4. PICK r \in Calls : target[r] = a /\ Generating(r)
      BY <3>3 DEF GeneratingIsGenerated
    <3>5. r # c
      BY <3>2, <3>4 DEF Generating, Under
    <3> QED
      BY <1>2, <3>4, <3>5 DEF KeepsOthers, Generating, Under, Kind
  <2> QED
    BY <2>1, <2>2
<1> QED
  BY <1>5, <1>6, <1>7, <1>8

LEMMA DeleteRowKept ==
  ASSUME CallsInv, ArtifactsInv, NEW c \in Calls, DeleteRow(c), UNCHANGED <<rates, conversations>>
  PROVE  ArtifactsInv'
<1> USE DEF CallsInv, ArtifactsInv
<1>1. ArtifactStep(c)
  BY DEF ArtifactStep
<1>2. /\ TypeOK' /\ Advance(c) /\ CallsInv' /\ KeepsOthers(c) /\ OvertakesWriters(c)
      /\ \A a : Seen(a) => Seen(a)'
      /\ CallFits(c) /\ job' = job /\ job[c] # NoJob /\ Kind(c)' = Kind(c)
      /\ overtaken'[c] = overtaken[c]
  BY <1>1, ArtifactStepFacts
<1>3. step[c] = "deleting row" /\ Kind(c) \in {"delete artifact"}
  BY <1>2, StepKinds DEF DeleteRow, Under, ArtifactKinds
<1>4. DraftFits(c)'
  <2>1. step'[c] = "deleting file"
    BY DEF DeleteRow, Go, TypeOK
  <2> QED
    BY <1>2, <1>3, <2>1 DEF DraftFits, Generating, Under
<1>5. \A r \in Calls : DraftFits(r)'
  BY <1>2, <1>4, OtherDrafts
<1>6. FreshIds'
  <2>1. target'[c] = target[c] /\ Seen(target[c])'
    BY <1>2, <1>3, TargetSeen DEF DeleteRow
  <2> QED
    BY <1>2, <2>1, FreshKept
<1>7. FilesGo'
  <2> SUFFICES ASSUME NEW a \in files \cap deleted'
               PROVE  \E r \in Calls : step'[r] = "deleting file" /\ target'[r] = a
    BY DEF FilesGo, DeleteRow
  <2>1. CASE a = target[c]
    BY <2>1 DEF DeleteRow, Go, TypeOK
  <2>2. CASE a # target[c]
    <3>1. PICK r \in Calls : step[r] = "deleting file" /\ target[r] = a
      BY <2>2 DEF FilesGo, DeleteRow
    <3> QED
      BY <1>2, <1>3, <3>1 DEF KeepsOthers
  <2> QED
    BY <2>1, <2>2
<1>8. GeneratingIsGenerated'
  <2> SUFFICES ASSUME NEW a \in ArtifactIds, artifact'[a].status = "generating", a \notin orphans'
               PROVE  \E r \in Calls : target'[r] = a /\ Generating(r)'
    BY DEF GeneratingIsGenerated
  <2>0. artifact[a].status = "generating"
    BY DEF DeleteRow, TypeOK, Absent
  <2>1. PICK r \in Calls : target[r] = a /\ Generating(r)
    BY <2>0 DEF GeneratingIsGenerated, DeleteRow
  <2>2. CASE r # c
    BY <1>2, <2>1, <2>2 DEF KeepsOthers, Generating, Under, Kind
  <2>3. CASE r = c
    BY <1>3, <2>1, <2>3 DEF Generating, Under
  <2> QED
    BY <2>2, <2>3
<1> QED
  BY <1>5, <1>6, <1>7, <1>8

LEMMA DeleteFileKept ==
  ASSUME CallsInv, ArtifactsInv, NEW c \in Calls, DeleteFile(c), UNCHANGED <<rates, conversations>>
  PROVE  ArtifactsInv'
<1> USE DEF CallsInv, ArtifactsInv
<1>1. ArtifactStep(c)
  BY DEF ArtifactStep
<1>2. /\ TypeOK' /\ Advance(c) /\ CallsInv' /\ KeepsOthers(c) /\ OvertakesWriters(c)
      /\ \A a : Seen(a) => Seen(a)'
      /\ CallFits(c) /\ job' = job /\ job[c] # NoJob /\ Kind(c)' = Kind(c)
      /\ overtaken'[c] = overtaken[c]
  BY <1>1, ArtifactStepFacts
<1>3. step[c] = "deleting file" /\ Kind(c) \in {"delete artifact"}
  BY <1>2, StepKinds DEF DeleteFile, Under, ArtifactKinds
<1>4. DraftFits(c)'
  <2>1. step'[c] = "done"
    BY DEF DeleteFile, Go, TypeOK
  <2> QED
    BY <1>2, <1>3, <2>1 DEF DraftFits, Generating, Under
<1>5. \A r \in Calls : DraftFits(r)'
  BY <1>2, <1>4, OtherDrafts
<1>6. FreshIds'
  BY <1>2 DEF DeleteFile, FreshIds
<1>7. FilesGo'
  <2> SUFFICES ASSUME NEW a \in files \cap deleted, a # target[c]
               PROVE  \E r \in Calls : step'[r] = "deleting file" /\ target'[r] = a
    BY DEF FilesGo, DeleteFile
  <2>1. PICK r \in Calls : step[r] = "deleting file" /\ target[r] = a
    BY DEF FilesGo
  <2> QED
    BY <1>2, <2>1 DEF KeepsOthers
<1>8. GeneratingIsGenerated'
  <2> SUFFICES ASSUME NEW a \in ArtifactIds, artifact'[a].status = "generating", a \notin orphans'
               PROVE  \E r \in Calls : target'[r] = a /\ Generating(r)'
    BY DEF GeneratingIsGenerated
  <2>1. PICK r \in Calls : target[r] = a /\ Generating(r)
    BY DEF GeneratingIsGenerated, DeleteFile
  <2>2. CASE r # c
    BY <1>2, <2>1, <2>2 DEF KeepsOthers, Generating, Under, Kind
  <2>3. CASE r = c
    BY <1>3, <2>1, <2>3 DEF Generating, Under
  <2> QED
    BY <2>2, <2>3
<1> QED
  BY <1>5, <1>6, <1>7, <1>8

LEMMA ArtifactsKept ==
  ASSUME CallsInv, ArtifactsInv, NEW c \in Calls, ArtifactStep(c), UNCHANGED <<rates, conversations>>
  PROVE  ArtifactsInv'
BY CreateKept, BuildKept, SaveKept, SaveRaisesKept, LoadArtifactKept, ReadFileKept, ReadFilesKept,
   MigrateKept, DeleteRowKept, DeleteFileKept DEF ArtifactStep

-----------------------------------------------------------------------------
(* Conversations.                                                          *)

LEMMA CopyFrame ==
  ASSUME CallsInv, NEW c \in Calls, NEW r \in Calls, r # c,
         KeepsOthers(c), OvertakesWriters(c), CopyFits(r)
  PROVE  CopyFits(r)'
<1> DEFINE k == target[r]
<1> USE DEF CallsInv
<1>1. /\ job'[r] = job[r] /\ step'[r] = step[r] /\ target'[r] = k /\ legacy'[r] = legacy[r]
      /\ overtaken[r] \subseteq overtaken'[r] /\ Kind(r)' = Kind(r) /\ Name(r)' = Name(r)
  BY DEF KeepsOthers, Kind, Name
<1>2. CASE step[r] \in {"opening", "asking", "checking", "upserting"}
  <2>1. k \in ConversationIds /\ job[r].tenant \in Tenants
    BY <1>2, StepKinds, StepTargets
  <2>2. k \notin overtaken'[r] =>
          conversation'[k] = conversation[k] /\ (Name(r) \in touched' => Name(r) \in touched)
    BY <2>1 DEF OvertakesWriters, Name
  <2>3. k \notin overtaken'[r] =>
          /\ k \notin overtaken[r]
          /\ Found(r)' = Found(r) /\ Owned(r)' = Owned(r) /\ Visible(r)' = Visible(r)
    BY <1>1, <2>2 DEF Found, Owned, Visible
  <2> QED
    BY <1>1, <2>2, <2>3 DEF CopyFits
<1>3. CASE step[r] \notin {"opening", "asking", "checking", "upserting"}
  BY <1>1, <1>3 DEF CopyFits
<1> QED
  BY <1>2, <1>3

LEMMA OtherCopies ==
  ASSUME CallsInv, NEW c \in Calls, KeepsOthers(c), OvertakesWriters(c),
         \A r \in Calls : CopyFits(r), CopyFits(c)'
  PROVE  \A r \in Calls : CopyFits(r)'
BY CopyFrame

\* A call that stands somewhere else relies on nothing.
LEMMA CopyElsewhere ==
  ASSUME NEW c \in Calls, step'[c] \notin {"opening", "asking", "checking", "upserting"}
  PROVE  CopyFits(c)'
BY DEF CopyFits

\* What changes no row, no file and nothing that is promised of them.
LEMMA ConversationsRest ==
  ASSUME CallsInv, ConversationsInv, NEW c \in Calls, Advance(c),
         UNCHANGED <<conversation, archives, touched>>, step[c] # "unlinking", CopyFits(c)'
  PROVE  ConversationsInv'
<1> USE DEF ConversationsInv
<1>1. KeepsOthers(c) /\ OvertakesWriters(c) /\ job' = job /\ overtaken'[c] = overtaken[c]
  BY DEF Advance
<1>2. \A r \in Calls : CopyFits(r)'
  BY <1>1, OtherCopies
<1>3. ArchivesGo'
  <2> SUFFICES ASSUME NEW m \in archives \cap touched,
                      ~(conversation[m[2]] # NoRow /\ conversation[m[2]].tenant = m[1])
               PROVE  \E r \in Calls : step'[r] = "unlinking" /\ Name(r)' = m
    BY DEF ArchivesGo
  <2>1. PICK r \in Calls : step[r] = "unlinking" /\ Name(r) = m
    BY DEF ArchivesGo
  <2> QED
    BY <1>1, <2>1 DEF KeepsOthers, Name
<1>4. SaversKnown'
  BY <1>1 DEF SaversKnown, Under, Kind
<1>5. SavedInPlace'
  <2> SUFFICES ASSUME NEW k \in ConversationIds, conversation[k] # NoRow,
                      conversation[k].by # Nobody
               PROVE  \/ job[conversation[k].by].workspace = conversation[k].workspace
                      \/ k \in overtaken'[conversation[k].by]
    BY <1>1 DEF SavedInPlace
  <2>1. conversation[k].by \in Calls
    BY DEF CallsInv, TypeOK, Conversation
  <2> QED
    BY <1>1, <2>1 DEF KeepsOthers, SavedInPlace
<1> QED
  BY <1>2, <1>3, <1>4, <1>5

LEMMA ConversationsBreak ==
  ASSUME CallsInv, ConversationsInv, NEW c \in Calls, Break(c)
  PROVE  ConversationsInv'
<1> USE DEF ConversationsInv
<1>1. Advance(c) /\ KeepsOthers(c) /\ OvertakesWriters(c)
  BY BreakAdvances DEF Advance
<1>2. /\ UNCHANGED <<job, target, overtaken, conversation, archives>> /\ step'[c] = "failed"
      /\ touched' = IF step[c] = "unlinking" THEN touched \ {Name(c)} ELSE touched
  BY DEF Break, Go, CallsInv, TypeOK
<1>3. \A r \in Calls : CopyFits(r)'
  BY <1>1, <1>2, CopyElsewhere, OtherCopies
<1>4. ArchivesGo'
  <2> SUFFICES ASSUME NEW m \in archives \cap touched',
                      ~(conversation[m[2]] # NoRow /\ conversation[m[2]].tenant = m[1])
               PROVE  \E r \in Calls : step'[r] = "unlinking" /\ Name(r)' = m
    BY <1>2 DEF ArchivesGo
  <2>1. PICK r \in Calls : step[r] = "unlinking" /\ Name(r) = m
    BY <1>2 DEF ArchivesGo
  <2>2. r # c
    BY <1>2, <2>1
  <2> QED
    BY <1>1, <2>1, <2>2 DEF KeepsOthers, Name
<1>5. SaversKnown' /\ SavedInPlace'
  BY <1>2 DEF SaversKnown, SavedInPlace, Under, Kind
<1> QED
  BY <1>3, <1>4, <1>5

LEMMA ConversationsStart ==
  ASSUME CallsInv, ConversationsInv, NEW c \in Calls, Start(c)
  PROVE  ConversationsInv'
<1> USE DEF CallsInv, ConversationsInv
<1>1. KeepsOthers(c) /\ OvertakesWriters(c) /\ CallsInv'
  BY StartKeepsCalls
<1>2. /\ UNCHANGED <<conversation, archives, touched>> /\ step[c] = "idle"
      /\ \A r \in Calls \ {c} : overtaken'[r] = overtaken[r]
  BY DEF Start, conversations, TypeOK
<1>3. step'[c] \notin {"opening", "asking", "checking", "upserting"}
  <2>1. PICK j \in Jobs :
          Go(c, CASE j.kind = "query" -> "counting"
                  [] j.kind = "generate" -> "creating"
                  [] j.kind \in {"read artifact", "rename artifact"} -> "loading"
                  [] j.kind = "list artifacts" -> "listing"
                  [] j.kind = "delete artifact" -> "deleting row"
                  [] j.kind \in {"get", "save", "rename"} -> "looking"
                  [] j.kind = "list" -> "globbing"
                  [] j.kind = "delete" -> "deleting")
    BY DEF Start
  <2>2. j.kind \in StoreKinds
    BY StoreAssumption
  <2> QED
    BY <2>1, <2>2 DEF Go, TypeOK, StoreKinds, RateKinds, ArtifactKinds, ConversationKinds
<1>4. \A r \in Calls : CopyFits(r)'
  BY <1>1, <1>3, CopyElsewhere, OtherCopies
<1>5. job[c] = NoJob
  <2>1. ASSUME job[c] # NoJob PROVE FALSE
    <3>0. job[c] \in Jobs
      BY <2>1 DEF TypeOK
    <3>1. Kind(c) \in StoreKinds
      BY <3>0, StoreAssumption DEF Kind
    <3>2. "idle" \in StepsOf(Kind(c)) \cup {"done", "failed"}
      BY <1>2, <2>1 DEF CallFits
    <3> QED
      BY <3>1, <3>2 DEF StepsOf, StoreKinds, RateKinds, ArtifactKinds, ConversationKinds
  <2> QED
    BY <2>1
<1>6. ArchivesGo'
  <2> SUFFICES ASSUME NEW m \in archives \cap touched,
                      ~(conversation[m[2]] # NoRow /\ conversation[m[2]].tenant = m[1])
               PROVE  \E r \in Calls : step'[r] = "unlinking" /\ Name(r)' = m
    BY <1>2 DEF ArchivesGo
  <2>1. PICK r \in Calls : step[r] = "unlinking" /\ Name(r) = m
    BY DEF ArchivesGo
  <2> QED
    BY <1>1, <1>2, <2>1 DEF KeepsOthers, Name
<1>7. ASSUME NEW k \in ConversationIds, conversation[k] # NoRow, conversation[k].by # Nobody
      PROVE  /\ Under(conversation[k].by, {"save", "rename"})'
             /\ \/ job'[conversation[k].by].workspace = conversation[k].workspace
                \/ k \in overtaken'[conversation[k].by]
  <2> DEFINE r == conversation[k].by
  <2>1. r \in Calls
    BY <1>7 DEF TypeOK, Conversation
  <2>2. Under(r, {"save", "rename"}) /\ r # c
    BY <1>5, <1>7 DEF SaversKnown, Under
  <2>3. job'[r] = job[r] /\ overtaken'[r] = overtaken[r]
    BY <1>1, <1>2, <2>1, <2>2 DEF KeepsOthers
  <2>4. job[r].workspace = conversation[k].workspace \/ k \in overtaken[r]
    BY <1>7 DEF SavedInPlace
  <2>5. Under(r, {"save", "rename"})'
    BY <1>2, <2>2, <2>3 DEF Under, Kind
  <2> QED
    BY <1>2, <2>3, <2>4, <2>5
<1>8. SaversKnown' /\ SavedInPlace'
  BY <1>2, <1>7 DEF SaversKnown, SavedInPlace, Under, Kind
<1> QED
  BY <1>4, <1>6, <1>8

\* What the steps on conversations have in common.
LEMMA ConversationStepFacts ==
  ASSUME CallsInv, NEW c \in Calls, ConversationStep(c), UNCHANGED <<rates, artifacts>>
  PROVE  /\ TypeOK' /\ Advance(c) /\ CallsInv' /\ KeepsOthers(c) /\ OvertakesWriters(c)
         /\ CallFits(c) /\ CallFits(c)' /\ job' = job /\ job[c] # NoJob /\ Kind(c)' = Kind(c)
         /\ overtaken'[c] = overtaken[c]
<1>1. TypeOK' /\ Advance(c)
  BY ConversationsAdvance
<1>2. CallsInv'
  BY <1>1, AdvanceKeepsCalls
<1>3. job' = job /\ job[c] # NoJob
  BY <1>1 DEF CallsInv, Advance, CallFits
<1> QED
  BY <1>1, <1>2, <1>3 DEF CallsInv, Advance, Kind

\* Whoever sees a file of a name that was touched finds its row, or was overtaken.
LEMMA FileOfTouched ==
  ASSUME CallsInv, ArchivesGo, NEW c \in Calls, step[c] \notin {"idle", "unlinking"}, NEW n, NEW k,
         <<n, k>> \in archives, <<n, k>> \in touched, k \notin overtaken[c]
  PROVE  conversation[k] # NoRow /\ conversation[k].tenant = n
<1> SUFFICES ASSUME ~(conversation[k] # NoRow /\ conversation[k].tenant = n) PROVE FALSE
  OBVIOUS
<1>1. <<n, k>> \in archives \cap touched /\ <<n, k>>[1] = n /\ <<n, k>>[2] = k
  OBVIOUS
<1>2. PICK r \in Calls : step[r] = "unlinking" /\ Name(r) = <<n, k>>
  BY <1>1 DEF ArchivesGo
<1>3. r # c /\ Deleting(r) /\ target[r] = k
  BY <1>2 DEF Deleting, Name
<1> QED
  BY <1>3 DEF CallsInv, DeletionsOvertake

LEMMA LookKept ==
  ASSUME CallsInv, ConversationsInv, NEW c \in Calls, Look(c), UNCHANGED <<rates, artifacts>>
  PROVE  ConversationsInv'
<1> USE DEF CallsInv, ConversationsInv
<1>1. ConversationStep(c)
  BY DEF ConversationStep
<1>2. /\ TypeOK' /\ Advance(c) /\ CallsInv' /\ KeepsOthers(c) /\ OvertakesWriters(c)
      /\ CallFits(c) /\ CallFits(c)' /\ job' = job /\ job[c] # NoJob /\ Kind(c)' = Kind(c)
      /\ overtaken'[c] = overtaken[c]
  BY <1>1, ConversationStepFacts
<1>3. step[c] = "looking" /\ CopyFits(c)
  BY DEF Look
<1>4. /\ Kind(c) \in ConversationKinds /\ job[c].tenant \in Tenants
      /\ step[c] \notin {"globbing", "migrating"} => target[c] \in ConversationIds
  BY <1>2, <1>3, StepKinds, StepTargets DEF ConversationKinds
<1>5. /\ target'[c] = target[c] /\ conversation' = conversation /\ ~legacy'[c]
      /\ Found(c)' = Found(c) /\ Owned(c)' = Owned(c) /\ Visible(c)' = Visible(c)
  BY <1>2, <1>3 DEF Look, conversations, CallFits, Found, Owned, Visible
<1>6. CopyFits(c)'
  <2>1. Kind(c) \in {"get", "save", "rename"}
    BY <1>2, <1>3, StepKinds
  <2>2. step'[c] \in {"done", "updating", "checking", "failed", "opening"}
    BY <2>1 DEF Look, Go, TypeOK
  <2>3. step'[c] = "checking" => Kind(c) = "save"
    BY <2>1 DEF Look, Go, TypeOK
  <2>4. step'[c] = "opening" =>
          IF Kind(c) = "save" THEN ~Owned(c) ELSE ~Visible(c) /\ job[c].workspace = Default
    BY <2>1 DEF Look, Go, TypeOK
  <2> QED
    BY <1>2, <1>5, <2>1, <2>2, <2>3, <2>4 DEF CopyFits
<1> QED
  BY <1>2, <1>3, <1>6, ConversationsRest DEF Look, conversations

LEMMA OpenKept ==
  ASSUME CallsInv, ConversationsInv, NEW c \in Calls, Open(c), UNCHANGED <<rates, artifacts>>
  PROVE  ConversationsInv'
<1> USE DEF CallsInv, ConversationsInv
<1>1. ConversationStep(c)
  BY DEF ConversationStep
<1>2. /\ TypeOK' /\ Advance(c) /\ CallsInv' /\ KeepsOthers(c) /\ OvertakesWriters(c)
      /\ CallFits(c) /\ CallFits(c)' /\ job' = job /\ job[c] # NoJob /\ Kind(c)' = Kind(c)
      /\ overtaken'[c] = overtaken[c]
  BY <1>1, ConversationStepFacts
<1>3. step[c] = "opening" /\ CopyFits(c)
  BY DEF Open
<1>4. /\ Kind(c) \in ConversationKinds /\ job[c].tenant \in Tenants
      /\ step[c] \notin {"globbing", "migrating"} => target[c] \in ConversationIds
  BY <1>2, <1>3, StepKinds, StepTargets DEF ConversationKinds
<1>5. /\ target'[c] = target[c] /\ UNCHANGED <<conversation, archives, touched>>
      /\ legacy'[c] = (Name(c) \in archives) /\ Name(c)' = Name(c)
      /\ Found(c)' = Found(c) /\ Owned(c)' = Owned(c) /\ Visible(c)' = Visible(c)
  BY <1>2 DEF Open, TypeOK, Found, Owned, Visible, Name
<1>5a. step'[c] = "failed" \/ (step'[c] = "checking" /\ (legacy'[c] \/ Kind(c) = "save"))
  <2>1. CASE Name(c) \in archives
    BY <1>5, <2>1 DEF Open, Go, TypeOK
  <2>2. CASE Name(c) \notin archives
    <3>1. Go(c, IF Kind(c) = "save" THEN "checking" ELSE "failed")
      BY <2>2 DEF Open
    <3>t. step \in [Calls -> Steps]
      BY DEF TypeOK
    <3>2. CASE Kind(c) = "save"
      BY <3>1, <3>2, <3>t DEF Go
    <3>3. CASE Kind(c) # "save"
      <4>1. Go(c, "failed")
        BY <3>1, <3>3
      <4>2. step'[c] = "failed"
        BY <3>t, <4>1 DEF Go
      <4> QED
        BY <4>2
    <3> QED
      BY <3>2, <3>3
  <2> QED
    BY <2>1, <2>2
<1>6. CopyFits(c)'
  <2>1. CASE step'[c] = "failed"
    BY <2>1, CopyElsewhere
  <2>2. CASE step'[c] = "checking" /\ ~legacy'[c]
    BY <1>2, <1>5, <1>5a, <2>2 DEF CopyFits
  <2>3. CASE step'[c] = "checking" /\ legacy'[c]
    <3>1. target[c] \notin overtaken[c] /\ Name(c) \in touched => Owned(c)
      <4>1. <<job[c].tenant, target[c]>> \in archives /\ Name(c) = <<job[c].tenant, target[c]>>
        BY <1>5, <2>3 DEF Name
      <4> QED
        BY <1>3, <4>1, FileOfTouched DEF Owned, Found
    <3>2. /\ Kind(c) \in {"get", "rename"} => job[c].workspace = Default
          /\ target[c] \notin overtaken[c] =>
               IF Kind(c) \in {"save", "list"} THEN ~Owned(c) ELSE ~Visible(c)
      BY <1>3 DEF CopyFits
    <3> QED
      BY <1>2, <1>5, <2>3, <3>1, <3>2 DEF CopyFits
  <2> QED
    BY <1>5a, <2>1, <2>2, <2>3
<1> QED
  BY <1>2, <1>3, <1>6, ConversationsRest DEF Open

LEMMA ListFilesKept ==
  ASSUME CallsInv, ConversationsInv, NEW c \in Calls, ListFiles(c), UNCHANGED <<rates, artifacts>>
  PROVE  ConversationsInv'
<1> USE DEF CallsInv, ConversationsInv
<1>1. ConversationStep(c)
  BY DEF ConversationStep
<1>2. /\ TypeOK' /\ Advance(c) /\ CallsInv' /\ KeepsOthers(c) /\ OvertakesWriters(c)
      /\ CallFits(c) /\ CallFits(c)' /\ job' = job /\ job[c] # NoJob /\ Kind(c)' = Kind(c)
      /\ overtaken'[c] = overtaken[c]
  BY <1>1, ConversationStepFacts
<1>3. step[c] = "globbing" /\ CopyFits(c)
  BY DEF ListFiles
<1>4. /\ Kind(c) \in ConversationKinds /\ job[c].tenant \in Tenants
      /\ step[c] \notin {"globbing", "migrating"} => target[c] \in ConversationIds
  BY <1>2, <1>3, StepKinds, StepTargets DEF ConversationKinds
<1>6. CopyFits(c)'
  <2>1. step'[c] = "migrating"
    BY DEF ListFiles, Go, TypeOK
  <2> QED
    BY <2>1, CopyElsewhere
<1> QED
  BY <1>2, <1>3, <1>6, ConversationsRest DEF ListFiles, conversations

LEMMA OpenNextKept ==
  ASSUME CallsInv, ConversationsInv, NEW c \in Calls, OpenNext(c), UNCHANGED <<rates, artifacts>>
  PROVE  ConversationsInv'
<1> USE DEF CallsInv, ConversationsInv
<1>1. ConversationStep(c)
  BY DEF ConversationStep
<1>2. /\ TypeOK' /\ Advance(c) /\ CallsInv' /\ KeepsOthers(c) /\ OvertakesWriters(c)
      /\ CallFits(c) /\ CallFits(c)' /\ job' = job /\ job[c] # NoJob /\ Kind(c)' = Kind(c)
      /\ overtaken'[c] = overtaken[c]
  BY <1>1, ConversationStepFacts
<1>3. step[c] = "migrating" /\ CopyFits(c)
  BY DEF OpenNext
<1>4. /\ Kind(c) \in ConversationKinds /\ job[c].tenant \in Tenants
      /\ step[c] \notin {"globbing", "migrating"} => target[c] \in ConversationIds
  BY <1>2, <1>3, StepKinds, StepTargets DEF ConversationKinds, OpenNext, Under
<1>5. Kind(c) = "list"
  BY <1>2, <1>3, <1>4, StepKinds DEF ConversationKinds
<1>6. CopyFits(c)'
  <2>1. CASE step'[c] # "asking"
    <3>1. step'[c] \in {"done", "failed"}
      BY <2>1 DEF OpenNext, Go, TypeOK
    <3> QED
      BY <3>1, CopyElsewhere
  <2>2. CASE step'[c] = "asking"
    <3>1. PICK k \in todo[c] :
            /\ target'[c] = k /\ legacy'[c] = TRUE /\ <<job[c].tenant, k>> \in archives
            /\ UNCHANGED <<conversation, touched>>
      BY <2>2 DEF OpenNext, Go, TypeOK
    <3>2. Name(c)' = <<job[c].tenant, k>>
      BY <1>2, <3>1 DEF Name
    <3>3. k \notin overtaken[c] /\ <<job[c].tenant, k>> \in touched => Owned(c)'
      BY <1>2, <1>3, <3>1, FileOfTouched DEF Owned, Found
    <3> QED
      BY <1>2, <1>5, <2>2, <3>1, <3>2, <3>3 DEF CopyFits
  <2> QED
    BY <2>1, <2>2
<1> QED
  BY <1>2, <1>3, <1>6, ConversationsRest DEF OpenNext

LEMMA AskKept ==
  ASSUME CallsInv, ConversationsInv, NEW c \in Calls, Ask(c), UNCHANGED <<rates, artifacts>>
  PROVE  ConversationsInv'
<1> USE DEF CallsInv, ConversationsInv
<1>1. ConversationStep(c)
  BY DEF ConversationStep
<1>2. /\ TypeOK' /\ Advance(c) /\ CallsInv' /\ KeepsOthers(c) /\ OvertakesWriters(c)
      /\ CallFits(c) /\ CallFits(c)' /\ job' = job /\ job[c] # NoJob /\ Kind(c)' = Kind(c)
      /\ overtaken'[c] = overtaken[c]
  BY <1>1, ConversationStepFacts
<1>3. step[c] = "asking" /\ CopyFits(c)
  BY DEF Ask
<1>4. /\ Kind(c) \in ConversationKinds /\ job[c].tenant \in Tenants
      /\ step[c] \notin {"globbing", "migrating"} => target[c] \in ConversationIds
  BY <1>2, <1>3, StepKinds, StepTargets DEF ConversationKinds
<1>5. /\ target'[c] = target[c] /\ UNCHANGED <<conversation, touched, legacy>>
      /\ Found(c)' = Found(c) /\ Owned(c)' = Owned(c) /\ Visible(c)' = Visible(c)
      /\ Name(c)' = Name(c) /\ Place(c)' = Place(c)
  BY <1>2 DEF Ask, conversations, Found, Owned, Visible, Name, Place
<1>6. CopyFits(c)'
  <2>1. CASE Owned(c)
    <3>1. step'[c] = "migrating"
      BY <2>1 DEF Ask, Go, TypeOK
    <3> QED
      BY <3>1, CopyElsewhere
  <2>2. CASE ~Owned(c)
    <3>1. step'[c] = "checking" /\ Kind(c) = "list"
      BY <1>2, <1>3, <2>2, StepKinds DEF Ask, Go, TypeOK
    <3>2. legacy[c] /\ (target[c] \notin overtaken[c] => Name(c) \notin touched)
      BY <1>3, <2>2 DEF CopyFits
    <3> QED
      BY <1>2, <1>5, <2>2, <3>1, <3>2 DEF CopyFits
  <2> QED
    BY <2>1, <2>2
<1> QED
  BY <1>2, <1>3, <1>6, ConversationsRest DEF Ask, conversations

LEMMA CheckKept ==
  ASSUME CallsInv, ConversationsInv, NEW c \in Calls, Check(c), UNCHANGED <<rates, artifacts>>
  PROVE  ConversationsInv'
<1> USE DEF CallsInv, ConversationsInv
<1>1. ConversationStep(c)
  BY DEF ConversationStep
<1>2. /\ TypeOK' /\ Advance(c) /\ CallsInv' /\ KeepsOthers(c) /\ OvertakesWriters(c)
      /\ CallFits(c) /\ CallFits(c)' /\ job' = job /\ job[c] # NoJob /\ Kind(c)' = Kind(c)
      /\ overtaken'[c] = overtaken[c]
  BY <1>1, ConversationStepFacts
<1>3. step[c] = "checking" /\ CopyFits(c)
  BY DEF Check
<1>4. /\ Kind(c) \in ConversationKinds /\ job[c].tenant \in Tenants
      /\ step[c] \notin {"globbing", "migrating"} => target[c] \in ConversationIds
  BY <1>2, <1>3, StepKinds, StepTargets DEF ConversationKinds
<1>5. /\ target'[c] = target[c] /\ UNCHANGED <<conversation, touched, legacy>>
      /\ Found(c)' = Found(c) /\ Owned(c)' = Owned(c) /\ Visible(c)' = Visible(c)
      /\ Name(c)' = Name(c) /\ Place(c)' = Place(c)
  BY <1>2 DEF Check, conversations, Found, Owned, Visible, Name, Place
<1>6. CopyFits(c)'
  <2>1. CASE ~(Found(c) = NoRow \/ (Owned(c) /\ Found(c).workspace = Place(c)))
    <3>1. step'[c] = "failed"
      BY <2>1 DEF Check, Go, TypeOK
    <3> QED
      BY <3>1, CopyElsewhere
  <2>2. CASE Found(c) = NoRow \/ (Owned(c) /\ Found(c).workspace = Place(c))
    <3>1. step'[c] = "upserting"
      BY <2>2 DEF Check, Go, TypeOK
    <3>2. CASE legacy[c]
      <4>1. ASSUME target[c] \notin overtaken[c] PROVE Name(c) \notin touched
        <5>1. ~Owned(c)
          <6>1. CASE Kind(c) \in {"save", "list"}
            BY <1>3, <3>2, <4>1, <6>1 DEF CopyFits
          <6>2. CASE Kind(c) \in {"get", "rename"}
            <7>1. ~Visible(c) /\ job[c].workspace = Default /\ Place(c) = Default
              BY <1>3, <3>2, <4>1, <6>2 DEF CopyFits, Place
            <7> QED
              BY <2>2, <7>1 DEF Visible, Owned
          <6> QED
            BY <1>2, <1>3, <6>1, <6>2, StepKinds
        <5> QED
          BY <1>3, <3>2, <4>1, <5>1 DEF CopyFits
      <4> QED
        BY <1>2, <1>5, <3>1, <3>2, <4>1 DEF CopyFits
    <3>3. CASE ~legacy[c]
      <4>1. Found(c) = NoRow \/ Visible(c)
        BY <2>2, <3>3 DEF Place, Visible
      <4>2. Kind(c) = "save"
        BY <1>3, <3>3 DEF CopyFits
      <4> QED
        BY <1>2, <1>5, <3>1, <3>3, <4>1, <4>2 DEF CopyFits
    <3> QED
      BY <3>2, <3>3
  <2> QED
    BY <2>1, <2>2
<1> QED
  BY <1>2, <1>3, <1>6, ConversationsRest DEF Check, conversations

\* A row that c writes: the others are as they were.
LEMMA RowWritten ==
  ASSUME CallsInv, ConversationsInv, NEW c \in Calls, KeepsOthers(c), OvertakesWriters(c),
         job' = job, job[c] # NoJob, overtaken'[c] = overtaken[c], step[c] # "unlinking",
         CopyFits(c)', target[c] \in ConversationIds, NEW row,
         conversation' = [conversation EXCEPT ![target[c]] = row],
         archives' = archives, touched' \subseteq touched \cup {Name(c)},
         Found(c) # NoRow => Owned(c),
         \/ row = NoRow /\ step'[c] = "unlinking" /\ target'[c] = target[c]
         \/ /\ row # NoRow /\ row.tenant = job[c].tenant
            /\ \/ row.by = Nobody
               \/ /\ row.by = c /\ Kind(c) \in {"save", "rename"}
                  /\ job[c].workspace = row.workspace \/ target[c] \in overtaken[c]
  PROVE  ConversationsInv'
<1> USE DEF CallsInv, ConversationsInv
<1>1. /\ conversation'[target[c]] = row
      /\ \A k \in ConversationIds : k # target[c] => conversation'[k] = conversation[k]
  BY DEF TypeOK
<1>2. \A r \in Calls : CopyFits(r)'
  BY OtherCopies
<1>3. ArchivesGo'
  <2> SUFFICES ASSUME NEW m \in archives \cap touched',
                      ~(conversation'[m[2]] # NoRow /\ conversation'[m[2]].tenant = m[1])
               PROVE  \E r \in Calls : step'[r] = "unlinking" /\ Name(r)' = m
    BY DEF ArchivesGo
  <2>1. m = <<m[1], m[2]>> /\ m[2] \in ConversationIds
    BY DEF TypeOK
  <2>2. CASE m = Name(c)
    <3>1. m[2] = target[c] /\ m[1] = job[c].tenant
      BY <2>2 DEF Name
    <3>2. row = NoRow /\ step'[c] = "unlinking" /\ target'[c] = target[c]
      BY <1>1, <3>1
    <3> QED
      BY <2>2, <3>2 DEF Name
  <2>3. CASE m # Name(c)
    <3>0. m \in archives \cap touched
      BY <2>3
    <3>1. ~(conversation[m[2]] # NoRow /\ conversation[m[2]].tenant = m[1])
      <4>1. CASE m[2] # target[c]
        BY <1>1, <2>1, <4>1
      <4>2. CASE m[2] = target[c]
        <5>1. m[1] # job[c].tenant
          BY <2>1, <2>3, <4>2 DEF Name
        <5> QED
          BY <4>2, <5>1 DEF Owned, Found
      <4> QED
        BY <4>1, <4>2
    <3>2. PICK r \in Calls : step[r] = "unlinking" /\ Name(r) = m
      BY <3>0, <3>1 DEF ArchivesGo
    <3>3. r # c
      BY <3>2
    <3> QED
      BY <3>2, <3>3 DEF KeepsOthers, Name
  <2> QED
    BY <2>2, <2>3
<1>4. ASSUME NEW k \in ConversationIds, conversation'[k] # NoRow, conversation'[k].by # Nobody
      PROVE  /\ Under(conversation[k].by, {"save", "rename"})'
             /\ \/ job'[conversation'[k].by].workspace = conversation'[k].workspace
                \/ k \in overtaken'[conversation'[k].by]
  <2>1. CASE k = target[c]
    BY <1>1, <1>4, <2>1 DEF Under, Kind
  <2>2. CASE k # target[c]
    <3>1. conversation'[k] = conversation[k] /\ conversation[k].by \in Calls
      BY <1>1, <1>4, <2>2 DEF TypeOK, Conversation
    <3>2. overtaken[conversation[k].by] \subseteq overtaken'[conversation[k].by]
      BY <3>1 DEF KeepsOthers
    <3>3. /\ Under(conversation[k].by, {"save", "rename"})
          /\ \/ job[conversation[k].by].workspace = conversation[k].workspace
             \/ k \in overtaken[conversation[k].by]
      BY <1>4, <3>1 DEF SaversKnown, SavedInPlace
    <3> QED
      BY <3>1, <3>2, <3>3 DEF Under, Kind
  <2> QED
    BY <2>1, <2>2
<1>5. SaversKnown' /\ SavedInPlace'
  BY <1>4 DEF SaversKnown, SavedInPlace, Under, Kind
<1> QED
  BY <1>2, <1>3, <1>5

LEMMA UpsertKept ==
  ASSUME CallsInv, ConversationsInv, NEW c \in Calls, Upsert(c), UNCHANGED <<rates, artifacts>>
  PROVE  ConversationsInv'
<1> USE DEF CallsInv, ConversationsInv
<1>1. ConversationStep(c)
  BY DEF ConversationStep
<1>2. /\ TypeOK' /\ Advance(c) /\ CallsInv' /\ KeepsOthers(c) /\ OvertakesWriters(c)
      /\ CallFits(c) /\ CallFits(c)' /\ job' = job /\ job[c] # NoJob /\ Kind(c)' = Kind(c)
      /\ overtaken'[c] = overtaken[c]
  BY <1>1, ConversationStepFacts
<1>3. step[c] = "upserting" /\ CopyFits(c)
  BY DEF Upsert
<1>4. /\ Kind(c) \in ConversationKinds /\ job[c].tenant \in Tenants
      /\ step[c] \notin {"globbing", "migrating"} => target[c] \in ConversationIds
  BY <1>2, <1>3, StepKinds, StepTargets DEF ConversationKinds
<1>5. /\ target' = target /\ archives' = archives
      /\ Nobody \notin Calls /\ NoRow \notin Conversation
  BY StoreAssumption DEF Upsert
<1>6. CASE Found(c) = NoRow \/ Owned(c)
  <2>1. /\ conversation' = [conversation EXCEPT ![target[c]] = Written(c)]
        /\ touched' \subseteq touched \cup {Name(c)}
        /\ ~legacy'[c] /\ step'[c] = AfterUpsert(c)
    BY <1>6 DEF Upsert, Go, TypeOK, Owned
  <2>2. ~legacy[c] => Kind(c) = "save"
    BY <1>3 DEF CopyFits
  <2>3. /\ Written(c).tenant = job[c].tenant /\ Written(c) # NoRow
        /\ Written(c).by = IF legacy[c] THEN Nobody ELSE c
        /\ Written(c).workspace = IF Found(c) = NoRow THEN Place(c) ELSE Found(c).workspace
    <3>1. job[c].workspace \in Workspaces /\ Default \in Workspaces
      BY <1>2, <1>3, StepKinds, StoreAssumption
    <3>2. Found(c) \in Conversation \cup {NoRow}
      BY <1>3, <1>4 DEF Found, TypeOK
    <3>3. Written(c) \in Conversation
      BY <1>4, <3>1, <3>2 DEF Written, Place, Conversation
    <3> QED
      BY <1>5, <3>3 DEF Written
  <2>4. ~legacy[c] => job[c].workspace = Written(c).workspace \/ target[c] \in overtaken[c]
    BY <1>3, <2>3 DEF CopyFits, Place, Visible
  <2>5. CopyFits(c)'
    <3>1. /\ step'[c] \in {"done", "migrating", "updating", "checking", "failed"}
          /\ step'[c] = "checking" => Kind(c) = "save"
      BY <1>2, <1>3, <1>4, <2>1, <2>2, StepKinds DEF AfterUpsert, ConversationKinds, TypeOK
    <3> QED
      BY <1>2, <2>1, <3>1 DEF CopyFits
  <2>6. /\ Written(c).by = Nobody
        \/ /\ Written(c).by = c /\ Kind(c) \in {"save", "rename"}
           /\ job[c].workspace = Written(c).workspace \/ target[c] \in overtaken[c]
    BY <2>2, <2>3, <2>4
  <2>7. Found(c) # NoRow => Owned(c)
    BY <1>6
  <2> HIDE DEF ConversationsInv
  <2> QED
    BY <1>2, <1>3, <1>4, <1>5, <2>1, <2>3, <2>5, <2>6, <2>7, RowWritten
<1>7. CASE Found(c) # NoRow /\ ~Owned(c)
  <2>1. step'[c] = "failed" /\ UNCHANGED <<conversation, touched>>
    BY <1>7 DEF Upsert, Go, TypeOK
  <2>2. CopyFits(c)'
    BY <2>1, CopyElsewhere
  <2> QED
    BY <1>2, <1>3, <1>5, <2>1, <2>2, ConversationsRest
<1> QED
  BY <1>6, <1>7

LEMMA UpdateKept ==
  ASSUME CallsInv, ConversationsInv, NEW c \in Calls, Update(c), UNCHANGED <<rates, artifacts>>
  PROVE  ConversationsInv'
<1> USE DEF CallsInv, ConversationsInv
<1>1. ConversationStep(c)
  BY DEF ConversationStep
<1>2. /\ TypeOK' /\ Advance(c) /\ CallsInv' /\ KeepsOthers(c) /\ OvertakesWriters(c)
      /\ CallFits(c) /\ CallFits(c)' /\ job' = job /\ job[c] # NoJob /\ Kind(c)' = Kind(c)
      /\ overtaken'[c] = overtaken[c]
  BY <1>1, ConversationStepFacts
<1>3. step[c] = "updating" /\ CopyFits(c)
  BY DEF Update
<1>4. /\ Kind(c) \in ConversationKinds /\ job[c].tenant \in Tenants
      /\ step[c] \notin {"globbing", "migrating"} => target[c] \in ConversationIds
  BY <1>2, <1>3, StepKinds, StepTargets DEF ConversationKinds
<1>5. target' = target /\ archives' = archives /\ Kind(c) = "rename"
  BY <1>2, <1>3, StepKinds DEF Update
<1>6. CASE Visible(c)
  <2> DEFINE row == [Found(c) EXCEPT !.by = c]
  <2>1. /\ conversation' = [conversation EXCEPT ![target[c]] = row]
        /\ touched' \subseteq touched \cup {Name(c)} /\ step'[c] = "done"
    BY <1>6 DEF Update, Go, TypeOK, Found
  <2>2. Found(c) \in Conversation
    BY <1>3, <1>4, <1>6 DEF Visible, Owned, Found, TypeOK
  <2>3. /\ row # NoRow /\ row.tenant = job[c].tenant /\ row.by = c
        /\ row.workspace = job[c].workspace /\ Owned(c)
    <3>1. row \in Conversation /\ NoRow \notin Conversation
      BY <2>2, StoreAssumption DEF Conversation
    <3> QED
      BY <1>6, <2>2, <3>1 DEF Visible, Owned, Conversation
  <2>4. CopyFits(c)'
    BY <2>1, CopyElsewhere
  <2> HIDE DEF ConversationsInv, row
  <2> QED
    BY <1>2, <1>3, <1>4, <1>5, <2>1, <2>3, <2>4, RowWritten
<1>7. CASE ~Visible(c)
  <2>1. step'[c] = "failed" /\ UNCHANGED <<conversation, touched>>
    BY <1>7 DEF Update, Go, TypeOK
  <2>2. CopyFits(c)'
    BY <2>1, CopyElsewhere
  <2> QED
    BY <1>2, <1>3, <1>5, <2>1, <2>2, ConversationsRest
<1> QED
  BY <1>6, <1>7

LEMMA DeleteKept ==
  ASSUME CallsInv, ConversationsInv, NEW c \in Calls, Delete(c), UNCHANGED <<rates, artifacts>>
  PROVE  ConversationsInv'
<1> USE DEF CallsInv, ConversationsInv
<1>1. ConversationStep(c)
  BY DEF ConversationStep
<1>2. /\ TypeOK' /\ Advance(c) /\ CallsInv' /\ KeepsOthers(c) /\ OvertakesWriters(c)
      /\ CallFits(c) /\ CallFits(c)' /\ job' = job /\ job[c] # NoJob /\ Kind(c)' = Kind(c)
      /\ overtaken'[c] = overtaken[c]
  BY <1>1, ConversationStepFacts
<1>3. step[c] = "deleting" /\ CopyFits(c)
  BY DEF Delete
<1>4. /\ Kind(c) \in ConversationKinds /\ job[c].tenant \in Tenants
      /\ step[c] \notin {"globbing", "migrating"} => target[c] \in ConversationIds
  BY <1>2, <1>3, StepKinds, StepTargets DEF ConversationKinds
<1>5. target' = target /\ archives' = archives
  BY DEF Delete
<1>6. CASE Visible(c)
  <2>1. /\ conversation' = [conversation EXCEPT ![target[c]] = NoRow]
        /\ touched' \subseteq touched \cup {Name(c)} /\ step'[c] = "unlinking" /\ Owned(c)
    BY <1>6 DEF Delete, Go, TypeOK, Visible
  <2>2. CopyFits(c)'
    BY <2>1, CopyElsewhere
  <2> HIDE DEF ConversationsInv
  <2> QED
    BY <1>2, <1>3, <1>4, <1>5, <2>1, <2>2, RowWritten
<1>7. CASE ~Visible(c)
  <2>1. step'[c] = "done" /\ UNCHANGED <<conversation, touched>>
    BY <1>7 DEF Delete, Go, TypeOK
  <2>2. CopyFits(c)'
    BY <2>1, CopyElsewhere
  <2> QED
    BY <1>2, <1>3, <1>5, <2>1, <2>2, ConversationsRest
<1> QED
  BY <1>6, <1>7

LEMMA UnlinkKept ==
  ASSUME CallsInv, ConversationsInv, NEW c \in Calls, Unlink(c), UNCHANGED <<rates, artifacts>>
  PROVE  ConversationsInv'
<1> USE DEF CallsInv, ConversationsInv
<1>1. ConversationStep(c)
  BY DEF ConversationStep
<1>2. /\ TypeOK' /\ Advance(c) /\ CallsInv' /\ KeepsOthers(c) /\ OvertakesWriters(c)
      /\ CallFits(c) /\ CallFits(c)' /\ job' = job /\ job[c] # NoJob /\ Kind(c)' = Kind(c)
      /\ overtaken'[c] = overtaken[c]
  BY <1>1, ConversationStepFacts
<1>3. step[c] = "unlinking" /\ CopyFits(c)
  BY DEF Unlink
<1>4. /\ Kind(c) \in ConversationKinds /\ job[c].tenant \in Tenants
      /\ step[c] \notin {"globbing", "migrating"} => target[c] \in ConversationIds
  BY <1>2, <1>3, StepKinds, StepTargets DEF ConversationKinds
<1>5. /\ archives' = archives \ {Name(c)} /\ UNCHANGED <<conversation, touched>>
      /\ step'[c] = "done"
  BY DEF Unlink, Go, TypeOK
<1>6. \A r \in Calls : CopyFits(r)'
  BY <1>2, <1>5, CopyElsewhere, OtherCopies
<1>7. ArchivesGo'
  <2> SUFFICES ASSUME NEW m \in archives' \cap touched,
                      ~(conversation[m[2]] # NoRow /\ conversation[m[2]].tenant = m[1])
               PROVE  \E r \in Calls : step'[r] = "unlinking" /\ Name(r)' = m
    BY <1>5 DEF ArchivesGo
  <2>1. PICK r \in Calls : step[r] = "unlinking" /\ Name(r) = m
    BY <1>5 DEF ArchivesGo
  <2>2. r # c
    BY <1>5, <2>1
  <2> QED
    BY <1>2, <2>1, <2>2 DEF KeepsOthers, Name
<1>8. SaversKnown'
  BY <1>2, <1>5 DEF SaversKnown, Under, Kind
<1>9. SavedInPlace'
  <2> SUFFICES ASSUME NEW k \in ConversationIds, conversation[k] # NoRow,
                      conversation[k].by # Nobody
               PROVE  \/ job[conversation[k].by].workspace = conversation[k].workspace
                      \/ k \in overtaken'[conversation[k].by]
    BY <1>2, <1>5 DEF SavedInPlace
  <2>1. conversation[k].by \in Calls
    BY DEF TypeOK, Conversation
  <2> QED
    BY <1>2, <2>1 DEF KeepsOthers, SavedInPlace
<1> QED
  BY <1>6, <1>7, <1>8, <1>9

LEMMA ConversationsKept ==
  ASSUME CallsInv, ConversationsInv, NEW c \in Calls, ConversationStep(c), UNCHANGED <<rates, artifacts>>
  PROVE  ConversationsInv'
BY LookKept, OpenKept, ListFilesKept, OpenNextKept, AskKept, CheckKept, UpsertKept, UpdateKept,
   DeleteKept, UnlinkKept DEF ConversationStep

-----------------------------------------------------------------------------
(* The rate limit.                                                         *)

LEMMA CountKept ==
  ASSUME CallsInv, WindowsCountAdmissions, NEW c \in Calls, Count(c)
  PROVE  WindowsCountAdmissions'
<1>1. /\ now' = now /\ now \in Nat /\ Limit \in [Scopes -> Nat] /\ MaxWindow \in Nat
      /\ Windows \subseteq Nat
      /\ requests \in [Scopes -> [Windows -> Nat]] /\ admitted \in [Scopes -> [Windows -> Nat]]
  <2>1. now' = now
    BY DEF Count
  <2>2. Limit \in [Scopes -> Nat] /\ MaxWindow \in Nat
    BY StoreAssumption
  <2>2a. Windows \subseteq Nat
    BY <2>2 DEF Windows
  <2>3. /\ now \in Windows /\ requests \in [Scopes -> [Windows -> Nat]]
        /\ admitted \in [Scopes -> [Windows -> Nat]]
    BY DEF CallsInv, TypeOK
  <2> QED
    BY <2>1, <2>2, <2>2a, <2>3
<1>2. PICK w \in Readings :
        IF HasRoom(c, w)
        THEN requests' = Counted(Purged(w), c, w) /\ admitted' = Counted(admitted, c, w)
        ELSE UNCHANGED <<requests, admitted>>
  BY DEF Count
<1>3. w \in Windows /\ w <= now /\ w + 1 >= now
  BY <1>1, <1>2 DEF Readings
<1>4. CASE HasRoom(c, w)
  <2> SUFFICES ASSUME NEW s \in Scopes, NEW v \in Windows
               PROVE  /\ admitted'[s][v] <= Limit[s]
                      /\ v + 1 >= now => requests'[s][v] = admitted'[s][v]
    BY <1>1 DEF WindowsCountAdmissions
  <2>1. /\ admitted[s][v] <= Limit[s] /\ (v + 1 >= now => requests[s][v] = admitted[s][v])
        /\ w + 1 >= now => requests[s][w] = admitted[s][w]
    BY <1>3 DEF WindowsCountAdmissions
  <2>2. /\ requests' = Counted(Purged(w), c, w) /\ admitted' = Counted(admitted, c, w)
    BY <1>2, <1>4
  <2>3. v + 1 >= now => Purged(w)[s][v] = requests[s][v]
    BY <1>1, <1>3 DEF Purged
  <2>4. Purged(w) \in [Scopes -> [Windows -> Nat]]
    BY <1>1 DEF Purged
  <2>5. CASE s \notin LimitsOf(c) \/ v # w
    <3>1. requests'[s][v] = Purged(w)[s][v] /\ admitted'[s][v] = admitted[s][v]
      BY <1>1, <2>2, <2>4, <2>5 DEF Counted
    <3> QED
      BY <2>1, <2>3, <3>1
  <2>6. CASE s \in LimitsOf(c) /\ v = w
    <3>1. requests'[s][v] = Purged(w)[s][v] + 1 /\ admitted'[s][v] = admitted[s][v] + 1
      BY <1>1, <2>2, <2>4, <2>6 DEF Counted
    <3>2. requests[s][v] < Limit[s]
      BY <1>4, <2>6 DEF HasRoom
    <3>3. requests[s][v] = admitted[s][v] /\ admitted[s][v] \in Nat /\ Limit[s] \in Nat
      BY <1>1, <1>3, <2>1, <2>6
    <3> QED
      BY <2>3, <3>1, <3>2, <3>3
  <2> QED
    BY <2>5, <2>6
<1>5. CASE ~HasRoom(c, w)
  BY <1>1, <1>2, <1>5 DEF WindowsCountAdmissions
<1> QED
  BY <1>4, <1>5

LEMMA TickKept ==
  ASSUME IInv, Tick, UNCHANGED <<artifacts, conversations>>
  PROVE  IInv'
<1> USE DEF IInv, CallsInv
<1>1. /\ now \in Windows /\ now < MaxWindow /\ now' = now + 1 /\ MaxWindow \in Nat
      /\ UNCHANGED <<requests, admitted, job, step, target, todo, overtaken>>
  BY StoreAssumption DEF TypeOK, Tick, calls
<1>2. UNCHANGED <<artifact, files, draft, deleted, orphans, conversation, archives, legacy, touched>>
  BY DEF artifacts, conversations
<1>3. TypeOK'
  BY <1>1, <1>2 DEF TypeOK, Windows
<1>4. (\A c \in Calls : CallFits(c)') /\ DeletionsOvertake'
  BY <1>1, <1>2 DEF CallFits, DeletionsOvertake, Deleting, Under, Kind, Seen
<1>5. ArtifactsInv'
  <2>1. \A c \in Calls : DraftFits(c)'
    BY <1>1, <1>2 DEF ArtifactsInv, DraftFits, Generating, Under, Kind
  <2>2. FreshIds' /\ FilesGo'
    <3>1. \A a : Seen(a)' <=> Seen(a)
      BY <1>1 DEF Seen, Under, Kind
    <3>2. FreshIds'
      BY <1>2, <3>1 DEF ArtifactsInv, FreshIds
    <3>3. FilesGo'
      BY <1>1, <1>2 DEF ArtifactsInv, FilesGo
    <3> QED
      BY <3>2, <3>3
  <2>3. \A c \in Calls : Generating(c)' = Generating(c)
    BY <1>1 DEF Generating, Under, Kind
  <2>4. GeneratingIsGenerated'
    BY <1>1, <1>2, <2>3 DEF ArtifactsInv, GeneratingIsGenerated
  <2> QED
    BY <2>1, <2>2, <2>4 DEF ArtifactsInv
<1>6. ConversationsInv'
  <2>1. \A c \in Calls : CopyFits(c)'
    BY <1>1, <1>2 DEF ConversationsInv, CopyFits, Kind, Name, Owned, Visible, Found
  <2> QED
    BY <1>1, <1>2, <2>1
    DEF ConversationsInv, ArchivesGo, SaversKnown, SavedInPlace, Name, Under, Kind
<1>7. WindowsCountAdmissions'
  BY <1>1 DEF WindowsCountAdmissions, Windows
<1> QED
  BY <1>3, <1>4, <1>5, <1>6, <1>7

-----------------------------------------------------------------------------
(* The theorems.                                                           *)

LEMMA InitialStores == Init => IInv
<1> SUFFICES ASSUME Init PROVE IInv
  OBVIOUS
<1>1. /\ \A c \in Calls : /\ job[c] = NoJob /\ step[c] = "idle" /\ target[c] = NoJob
                          /\ todo[c] = {} /\ overtaken[c] = {} /\ legacy[c] = FALSE
                          /\ draft[c] = Absent
      /\ deleted = {} /\ touched = {} /\ orphans = {} /\ files \subseteq Legacy
      /\ now = 0 /\ MaxWindow \in Nat /\ Limit \in [Scopes -> Nat]
      /\ Legacy \subseteq ArtifactIds /\ Default \in Workspaces
  BY StoreAssumption DEF Init, RatesInit, ArtifactsInit, ConversationsInit
<1>2. artifact \in [ArtifactIds -> {Filed, Absent}]
      /\ \A a \in ArtifactIds : artifact[a] # Absent => a \in files
  BY DEF Init, ArtifactsInit
<1>3. /\ archives \subseteq Tenants \X ConversationIds
      /\ conversation \in [ConversationIds ->
           [tenant : Tenants, workspace : {Default}, by : {Nobody}] \cup {NoRow}]
  <2>1. PICK migrated \in SUBSET archives :
          conversation = [k \in ConversationIds |->
            IF \E n \in Tenants : <<n, k>> \in migrated
            THEN [tenant |-> CHOOSE n \in Tenants : <<n, k>> \in migrated,
                  workspace |-> Default, by |-> Nobody]
            ELSE NoRow]
    BY DEF Init, ConversationsInit
  <2>2. \A k \in ConversationIds : (\E n \in Tenants : <<n, k>> \in migrated) =>
          (CHOOSE n \in Tenants : <<n, k>> \in migrated) \in Tenants
    OBVIOUS
  <2> QED
    BY <2>1, <2>2 DEF Init, ConversationsInit
<1>4. TypeOK
  <2>1. /\ Filed \in Rows /\ "idle" \in Steps
        /\ [tenant : Tenants, workspace : {Default}, by : {Nobody}] \subseteq Conversation
    BY <1>1 DEF Filed, Rows, Steps, Conversation
  <2>2. artifact \in [ArtifactIds -> Rows \cup {Absent}]
    BY <1>2, <2>1
  <2>3. conversation \in [ConversationIds -> Conversation \cup {NoRow}]
    BY <1>3, <2>1
  <2>4. /\ now \in Windows /\ requests \in [Scopes -> [Windows -> Nat]]
        /\ admitted \in [Scopes -> [Windows -> Nat]]
    BY <1>1 DEF Init, RatesInit, Windows
  <2> QED
    BY <1>1, <1>3, <2>1, <2>2, <2>3, <2>4 DEF Init, ArtifactsInit, ConversationsInit, TypeOK
<1>5. CallsInv
  BY <1>1, <1>4 DEF CallsInv, CallFits, DeletionsOvertake
<1>6. ArtifactsInv
  <2>1. \A c \in Calls : DraftFits(c)
    BY <1>1 DEF DraftFits, Generating, Under
  <2>2. FreshIds /\ FilesGo
    BY <1>1, <1>2 DEF FreshIds, FilesGo, Seen
  <2>3. GeneratingIsGenerated
    BY <1>2 DEF GeneratingIsGenerated, Filed, Absent
  <2> QED
    BY <2>1, <2>2, <2>3 DEF ArtifactsInv
<1>7. ConversationsInv
  <2>1. \A c \in Calls : CopyFits(c)
    BY <1>1 DEF CopyFits
  <2>2. ArchivesGo
    BY <1>1 DEF ArchivesGo
  <2>3. SaversKnown /\ SavedInPlace
    BY <1>3 DEF SaversKnown, SavedInPlace
  <2> QED
    BY <2>1, <2>2, <2>3 DEF ConversationsInv
<1>8. WindowsCountAdmissions
  BY <1>1 DEF WindowsCountAdmissions, Init, RatesInit, Windows
<1> QED
  BY <1>5, <1>6, <1>7, <1>8 DEF IInv

LEMMA StoresStep == IInv /\ [Next]_vars => IInv'
<1> SUFFICES ASSUME IInv, [Next]_vars PROVE IInv'
  OBVIOUS
<1>a. CallsInv /\ ArtifactsInv /\ ConversationsInv /\ WindowsCountAdmissions
  BY DEF IInv
<1>b. UNCHANGED rates => (WindowsCountAdmissions' <=> WindowsCountAdmissions)
  BY DEF WindowsCountAdmissions, rates
<1>1. ASSUME NEW c \in Calls, Start(c) PROVE IInv'
  BY <1>1, <1>a, <1>b, StartKeepsCalls, ArtifactsStart, ConversationsStart DEF IInv, Start
<1>2. ASSUME NEW c \in Calls, Count(c), UNCHANGED <<artifacts, conversations>> PROVE IInv'
  <2>1. TypeOK' /\ Advance(c) /\ CallsInv'
    BY <1>2, <1>a, CountAdvances, AdvanceKeepsCalls
  <2>2. step[c] = "counting" /\ Kind(c) = "query" /\ step'[c] \in {"done", "failed"}
    BY <1>2, <1>a, StepKinds DEF Count, CallsInv, Go, TypeOK
  <2>3. ArtifactsInv'
    BY <1>2, <1>a, <2>1, <2>2, ArtifactsRest DEF ArtifactKinds
  <2>4. ConversationsInv'
    <3>1. UNCHANGED <<conversation, archives, touched>> /\ CopyFits(c)'
      BY <1>2, <2>2, CopyElsewhere DEF conversations
    <3> QED
      BY <1>a, <2>1, <2>2, <3>1, ConversationsRest
  <2> QED
    BY <1>2, <1>a, <2>1, <2>3, <2>4, CountKept DEF IInv
<1>3. ASSUME NEW c \in Calls, ArtifactStep(c), UNCHANGED <<rates, conversations>> PROVE IInv'
  <2>1. TypeOK' /\ Advance(c) /\ CallsInv' /\ job[c] # NoJob /\ CallFits(c)
    BY <1>3, <1>a, ArtifactStepFacts
  <2>2. Kind(c) \in ArtifactKinds /\ step[c] # "unlinking"
    <3>1. \/ step[c] \in {"creating", "building", "saving", "loading", "reading file",
                          "listing", "deleting row", "deleting file"}
          \/ step[c] = "migrating" /\ Under(c, ArtifactKinds)
      BY <1>3 DEF ArtifactStep, Create, Build, Save, SaveRaises, LoadArtifact, ReadFile,
                  ReadFiles, Migrate, DeleteRow, DeleteFile
    <3>2. TypeOK
      BY <1>a DEF CallsInv
    <3> QED
      BY <2>1, <3>1, <3>2, StepKinds DEF ArtifactKinds, Under
  <2>3. ConversationsInv'
    <3>1. step'[c] \notin {"opening", "asking", "checking", "upserting"}
      BY <2>1, <2>2 DEF Advance, StepsOf, ArtifactKinds
    <3>2. UNCHANGED <<conversation, archives, touched>> /\ CopyFits(c)'
      BY <1>3, <3>1, CopyElsewhere DEF conversations
    <3> QED
      BY <1>a, <2>1, <2>2, <3>2, ConversationsRest
  <2> QED
    BY <1>3, <1>a, <1>b, <2>1, <2>3, ArtifactsKept DEF IInv
<1>4. ASSUME NEW c \in Calls, ConversationStep(c), UNCHANGED <<rates, artifacts>> PROVE IInv'
  <2>1. TypeOK' /\ Advance(c) /\ CallsInv' /\ job[c] # NoJob /\ CallFits(c)
    BY <1>4, <1>a, ConversationStepFacts
  <2>2. Kind(c) \in ConversationKinds
    <3>1. \/ step[c] \in {"looking", "opening", "globbing", "asking", "checking", "upserting",
                          "updating", "deleting", "unlinking"}
          \/ step[c] = "migrating" /\ Under(c, ConversationKinds)
      BY <1>4 DEF ConversationStep, Look, Open, ListFiles, OpenNext, Ask, Check, Upsert,
                  Update, Delete, Unlink
    <3>2. TypeOK
      BY <1>a DEF CallsInv
    <3> QED
      BY <2>1, <3>1, <3>2, StepKinds DEF ConversationKinds, Under
  <2>3. ArtifactsInv'
    BY <1>4, <1>a, <2>1, <2>2, ArtifactsRest DEF ArtifactKinds, ConversationKinds
  <2> QED
    BY <1>4, <1>a, <1>b, <2>1, <2>3, ConversationsKept DEF IInv
<1>5. ASSUME NEW c \in Calls, Break(c) PROVE IInv'
  <2>1. CallsInv'
    BY <1>5, <1>a, BreakAdvances, AdvanceKeepsCalls
  <2> QED
    BY <1>5, <1>a, <1>b, <2>1, ArtifactsBreak, ConversationsBreak DEF IInv, Break
<1>6. CASE Tick /\ UNCHANGED <<artifacts, conversations>>
  BY <1>6, TickKept
<1>7. CASE UNCHANGED vars
  <2>1. /\ UNCHANGED <<job, step, target, todo, overtaken, now, requests, admitted>>
        /\ UNCHANGED <<artifact, files, draft, deleted, orphans>>
        /\ UNCHANGED <<conversation, archives, legacy, touched>>
    BY <1>7 DEF vars, calls, rates, artifacts, conversations
  <2> USE <1>a, <2>1
  <2>2. TypeOK' /\ DeletionsOvertake' /\ \A c \in Calls : CallFits(c)'
    BY DEF CallsInv, TypeOK, DeletionsOvertake, Deleting, CallFits, Under, Kind, Seen
  <2>3. \A c \in Calls : DraftFits(c)'
    BY DEF ArtifactsInv, DraftFits, Generating, Under, Kind
  <2>4. FreshIds' /\ FilesGo' /\ GeneratingIsGenerated'
    <3>0. \A a : Seen(a)' <=> Seen(a)
      BY DEF Seen, Under, Kind
    <3>1. FreshIds' /\ FilesGo'
      BY <3>0 DEF ArtifactsInv, FreshIds, FilesGo
    <3>2. \A c \in Calls : Generating(c)' = Generating(c)
      BY DEF Generating, Under, Kind
    <3>3. GeneratingIsGenerated'
      BY <3>2 DEF ArtifactsInv, GeneratingIsGenerated
    <3> QED
      BY <3>1, <3>3
  <2>5. \A c \in Calls : CopyFits(c)'
    BY DEF ConversationsInv, CopyFits, Kind, Name, Owned, Visible, Found
  <2>6. ArchivesGo' /\ SaversKnown' /\ SavedInPlace'
    BY DEF ConversationsInv, ArchivesGo, SaversKnown, SavedInPlace, Name, Under, Kind
  <2>7. WindowsCountAdmissions'
    BY DEF WindowsCountAdmissions
  <2> QED
    BY <2>2, <2>3, <2>4, <2>5, <2>6, <2>7 DEF IInv, CallsInv, ArtifactsInv, ConversationsInv
<1> QED
  BY <1>1, <1>2, <1>3, <1>4, <1>5, <1>6, <1>7 DEF Next

\* The inductive invariant: what every call has read, or what was promised of
\* the item since, still holds unless another call came between
\* (rag_core/conversations.py, rag_core/artifacts.py, rag_core/query_rate_limits.py).
THEOREM StoresInvariant == Spec => []IInv
<1>1. Init => IInv
  BY InitialStores
<1>2. IInv /\ [Next]_vars => IInv'
  BY StoresStep
<1> QED
  BY <1>1, <1>2, PTL DEF Spec

\* No scope admits more queries in a window than its limit, and a counter that
\* can still be asked for is the number of the queries admitted
\* (acquire_query_rate_limit).
THEOREM LimitsHold == Spec => []WindowsCountAdmissions
<1>1. IInv => WindowsCountAdmissions
  BY DEF IInv
<1> QED
  BY <1>1, StoresInvariant, PTL

\* An artifact is "generating" only while a task generates it, or after a fault
\* or a rename that was overtaken (build_mindmap_background, rename_artifact).
THEOREM NothingGeneratesForever == Spec => []GeneratingIsGenerated
<1>1. IInv => GeneratingIsGenerated
  BY DEF IInv, ArtifactsInv
<1> QED
  BY <1>1, StoresInvariant, PTL

\* A change of a conversation that is there is made by a call of its tenant, in
\* the statement that the call makes (save_conversation_row, rename_conversation,
\* delete_conversation).
LEMMA ChangesAreTenants ==
  ASSUME IInv, [Next]_vars, NEW k \in ConversationIds, conversation[k] # NoRow,
         conversation'[k] # conversation[k]
  PROVE  \E c \in Calls :
           /\ target[c] = k /\ step'[c] # step[c]
           /\ Under(c, ConversationKinds) /\ job[c].tenant = conversation[k].tenant
<1>1. PICK c \in Calls : ConversationStep(c) /\ UNCHANGED <<rates, artifacts>>
  <2>1. conversation' # conversation
    OBVIOUS
  <2> QED
    BY <2>1 DEF Next, vars, Start, Count, Break, conversations
<1>2. CallsInv /\ TypeOK /\ CallFits(c) /\ job[c] # NoJob
  BY <1>1, ConversationStepFacts DEF IInv, CallsInv
<1>3. \/ Upsert(c) /\ conversation' = [conversation EXCEPT ![target[c]] = Written(c)]
         /\ (Found(c) = NoRow \/ Owned(c)) /\ step' = [step EXCEPT ![c] = AfterUpsert(c)]
      \/ Update(c) /\ Visible(c) /\ step' = [step EXCEPT ![c] = "done"]
         /\ conversation' = [conversation EXCEPT ![target[c]].by = c]
      \/ Delete(c) /\ Visible(c) /\ step' = [step EXCEPT ![c] = "unlinking"]
         /\ conversation' = [conversation EXCEPT ![target[c]] = NoRow]
  <2>1. conversation' # conversation
    OBVIOUS
  <2>2. Upsert(c) \/ Update(c) \/ Delete(c)
    BY <1>1, <2>1 DEF ConversationStep, Look, Open, ListFiles, OpenNext, Ask, Check, Unlink,
                      conversations
  <2>3. CASE Upsert(c)
    BY <2>1, <2>3 DEF Upsert, Go
  <2>4. CASE Update(c)
    BY <2>1, <2>4 DEF Update, Go
  <2>5. CASE Delete(c)
    BY <2>1, <2>5 DEF Delete, Go
  <2> QED
    BY <2>2, <2>3, <2>4, <2>5
<1>4. target[c] = k
  BY <1>2, <1>3 DEF TypeOK
<1>5. Owned(c)
  BY <1>3, <1>4 DEF Visible, Found
<1>6. step[c] \in {"upserting", "updating", "deleting"}
  BY <1>3 DEF Upsert, Update, Delete
<1>7. Under(c, ConversationKinds)
  BY <1>2, <1>6, StepKinds DEF Under, ConversationKinds
<1>8. step'[c] # step[c]
  <2>1. CASE step[c] = "upserting"
    <3>1. Kind(c) \in {"get", "save", "rename", "list"} /\ legacy[c] \in BOOLEAN
      BY <1>2, <2>1, StepKinds DEF TypeOK
    <3>2. AfterUpsert(c) # "upserting"
      BY <3>1 DEF AfterUpsert
    <3> QED
      BY <1>2, <1>3, <2>1, <3>2 DEF TypeOK
  <2>2. CASE step[c] # "upserting"
    BY <1>2, <1>3, <2>2 DEF TypeOK, Upsert, Update, Delete
  <2> QED
    BY <2>1, <2>2
<1> QED
  BY <1>4, <1>5, <1>7, <1>8 DEF Owned, Found

\* Tenants keep their conversations although they choose the ids.
THEOREM TenantsKeptApart == Spec => TenantsApart
<1>1. IInv /\ [Next]_vars => [\A k \in ConversationIds : TenantsKeepTheirs(k)]_vars
  BY ChangesAreTenants DEF TenantsKeepTheirs
<1> QED
  BY <1>1, StoresInvariant, PTL DEF Spec, TenantsApart

\* A result, a title or a deletion of an artifact is taken back only by a call
\* that was overtaken.
LEMMA UndoneArtifacts ==
  ASSUME IInv, [Next]_vars, NEW a \in ArtifactIds, Undoes(a)
  PROVE  \E c \in Calls : /\ target[c] = a /\ a \in overtaken[c]
                          /\ step[c] = "saving" /\ step'[c] # "saving"
<1>1. artifact'[a] # artifact[a]
  BY DEF Undoes
<1>2. PICK c \in Calls : ArtifactStep(c) /\ UNCHANGED <<rates, conversations>>
  <2>1. artifact' # artifact
    BY <1>1
  <2> QED
    BY <2>1 DEF Next, vars, Start, Count, Break, artifacts, Tick
<1>3. /\ CallsInv /\ ArtifactsInv /\ TypeOK /\ CallFits(c) /\ job[c] # NoJob /\ DraftFits(c)
  BY <1>2, ArtifactStepFacts DEF IInv, CallsInv, ArtifactsInv
<1>4. \/ Create(c) /\ step[c] = "creating"
         /\ artifact' = [artifact EXCEPT ![target[c]] = Pending]
      \/ Save(c) /\ artifact' = [artifact EXCEPT ![target[c]] = draft[c]]
      \/ DeleteRow(c) /\ artifact' = [artifact EXCEPT ![target[c]] = Absent]
  BY <1>1, <1>2 DEF ArtifactStep, Create, Build, Save, SaveRaises, LoadArtifact, ReadFile,
                    ReadFiles, Migrate, DeleteRow, DeleteFile, artifacts
<1>5. target[c] = a
  BY <1>1, <1>3, <1>4 DEF TypeOK
<1>6. ~Create(c)
  <2> SUFFICES ASSUME Create(c) PROVE FALSE
    OBVIOUS
  <2>1. artifact[a] = Absent /\ a \notin deleted
    BY <1>3, <1>5 DEF Create, DraftFits
  <2> QED
    BY <2>1 DEF Undoes, Absent
<1>7. ~DeleteRow(c)
  <2> SUFFICES ASSUME DeleteRow(c) PROVE FALSE
    OBVIOUS
  <2>1. artifact'[a] = Absent
    BY <1>3, <1>5 DEF DeleteRow, TypeOK
  <2> QED
    BY <2>1 DEF Undoes, Absent
<1>8. /\ step[c] = "saving" /\ artifact'[a] = draft[c] /\ step'[c] # "saving"
      /\ Kind(c) \in {"generate", "read artifact", "rename artifact", "list artifacts"}
  <2>1. Save(c)
    BY <1>4, <1>6, <1>7
  <2>2. step[c] = "saving" /\ artifact'[a] = draft[c] /\ step'[c] # "saving"
    BY <1>3, <1>5, <2>1 DEF Save, Go, TypeOK
  <2> QED
    BY <1>3, <2>2, StepKinds
<1>9. a \in overtaken[c]
  <2> SUFFICES ASSUME a \notin overtaken[c] PROVE FALSE
    OBVIOUS
  <2>1. CASE Kind(c) = "generate"
    <3>1. artifact[a] = Pending
      BY <1>3, <1>5, <1>8, <2>1 DEF DraftFits, Generating, Under
    <3> QED
      BY <3>1 DEF Undoes, Pending, Absent
  <2>2. CASE Kind(c) = "rename artifact"
    <3>1. /\ artifact[a] # Absent /\ artifact[a].status = draft[c].status
          /\ draft[c].title = "changed"
      BY <1>3, <1>5, <1>8, <2>2 DEF DraftFits, Under
    <3> QED
      BY <1>8, <3>1 DEF Undoes
  <2>3. CASE Kind(c) \in {"read artifact", "list artifacts"}
    <3>1. artifact[a] = Absent /\ a \notin deleted
      BY <1>3, <1>5, <1>8, <2>3 DEF DraftFits, Under
    <3> QED
      BY <3>1 DEF Undoes, Absent
  <2> QED
    BY <1>8, <2>1, <2>2, <2>3
<1> QED
  BY <1>5, <1>8, <1>9

\* The content of a file takes the place of what was saved, renamed or deleted
\* only where a migration was overtaken.
LEMMA RestoredConversations ==
  ASSUME IInv, [Next]_vars, NEW k \in ConversationIds, Restores(k)
  PROVE  \E c \in Calls : /\ target[c] = k /\ k \in overtaken[c]
                          /\ step[c] = "upserting" /\ step'[c] # "upserting"
<1>1. conversation'[k] # conversation[k] /\ conversation'[k] # NoRow
      /\ conversation'[k].by = Nobody /\ <<conversation'[k].tenant, k>> \in touched
  BY DEF Restores
<1>2. PICK c \in Calls : ConversationStep(c) /\ UNCHANGED <<rates, artifacts>>
  <2>1. conversation' # conversation
    BY <1>1
  <2> QED
    BY <2>1 DEF Next, vars, Start, Count, Break, conversations, Tick
<1>3. /\ CallsInv /\ TypeOK /\ CallFits(c) /\ job[c] # NoJob /\ CopyFits(c)
      /\ Nobody \notin Calls
  BY <1>2, ConversationStepFacts, StoreAssumption DEF IInv, CallsInv, ConversationsInv
<1>4. \/ Upsert(c) /\ conversation' = [conversation EXCEPT ![target[c]] = Written(c)]
         /\ step' = [step EXCEPT ![c] = AfterUpsert(c)]
      \/ Update(c) /\ Visible(c) /\ conversation' = [conversation EXCEPT ![target[c]].by = c]
      \/ Delete(c) /\ conversation' = [conversation EXCEPT ![target[c]] = NoRow]
  <2>1. conversation' # conversation
    BY <1>1
  <2>2. Upsert(c) \/ Update(c) \/ Delete(c)
    BY <1>2, <2>1 DEF ConversationStep, Look, Open, ListFiles, OpenNext, Ask, Check, Unlink,
                      conversations
  <2>3. CASE Upsert(c)
    BY <2>1, <2>3 DEF Upsert, Go
  <2>4. CASE Update(c)
    BY <2>1, <2>4 DEF Update
  <2>5. CASE Delete(c)
    BY <2>1, <2>5 DEF Delete
  <2> QED
    BY <2>2, <2>3, <2>4, <2>5
<1>5. target[c] = k
  BY <1>1, <1>3, <1>4 DEF TypeOK
<1>7. /\ Upsert(c) /\ conversation'[k] = Written(c)
      /\ step' = [step EXCEPT ![c] = AfterUpsert(c)]
  <2>1. CASE Update(c) /\ Visible(c) /\ conversation' = [conversation EXCEPT ![target[c]].by = c]
    <3>1. conversation[k] \in Conversation
      BY <1>3, <1>5, <2>1 DEF Visible, Owned, Found, TypeOK
    <3>2. conversation'[k] = [conversation[k] EXCEPT !.by = c]
      BY <1>3, <1>5, <2>1 DEF TypeOK
    <3>3. conversation'[k].by = c
      BY <3>1, <3>2 DEF Conversation
    <3> QED
      BY <1>1, <1>3, <3>3
  <2>2. CASE conversation' = [conversation EXCEPT ![target[c]] = NoRow]
    BY <1>1, <1>3, <1>5, <2>2 DEF TypeOK
  <2>3. CASE Upsert(c) /\ conversation' = [conversation EXCEPT ![target[c]] = Written(c)]
             /\ step' = [step EXCEPT ![c] = AfterUpsert(c)]
    BY <1>3, <1>5, <2>3 DEF TypeOK
  <2> QED
    BY <1>4, <2>1, <2>2, <2>3
<1>8. step[c] = "upserting" /\ legacy[c] /\ Name(c) \in touched
  <2>1. step[c] = "upserting"
    BY <1>7 DEF Upsert
  <2>2. legacy[c]
    BY <1>1, <1>3, <1>7 DEF Written
  <2> QED
    BY <1>1, <1>5, <1>7, <2>1, <2>2 DEF Written, Name
<1>9. k \in overtaken[c]
  BY <1>3, <1>5, <1>8 DEF CopyFits
<1>10. step'[c] # "upserting"
  <2>1. Kind(c) \in {"get", "save", "rename", "list"}
    BY <1>3, <1>8, StepKinds
  <2>2. AfterUpsert(c) # "upserting"
    BY <1>8, <2>1 DEF AfterUpsert
  <2> QED
    BY <1>3, <1>7, <2>2 DEF TypeOK
<1> QED
  BY <1>5, <1>8, <1>9, <1>10

\* What was finished is undone only by a call that began before that.
THEOREM OvertakenCallsUndo == Spec => OnlyOvertakenUndo
<1>1. IInv /\ [Next]_vars =>
        [/\ \A a \in ArtifactIds : Undoes(a) =>
               \E c \in Calls : /\ target[c] = a /\ a \in overtaken[c]
                                /\ step[c] = "saving" /\ step'[c] # "saving"
         /\ \A k \in ConversationIds : Restores(k) =>
               \E c \in Calls : /\ target[c] = k /\ k \in overtaken[c]
                                /\ step[c] = "upserting" /\ step'[c] # "upserting"]_vars
  BY UndoneArtifacts, RestoredConversations
<1> QED
  BY <1>1, StoresInvariant, PTL DEF Spec, OnlyOvertakenUndo
=============================================================================
