------------------------ MODULE UploadAdmission_proofs ------------------------
(***************************************************************************)
(* Proofs about UploadAdmission, for any number of requests, tasks and     *)
(* tenants and any limits.                                                 *)
(***************************************************************************)
EXTENDS UploadAdmission, FiniteSetTheorems, TLAPS

\* The keys of the slot table, one scope at a time.
LEMMA SlotKeys ==
  /\ \A s \in Scopes : Limit(s) \in Nat \ {0}
  /\ \A s \in Scopes : \A i \in 0 .. Limit(s) - 1 : <<s, i>> \in Slots
  /\ \A x \in Slots : /\ x[1] \in Scopes /\ x[2] \in 0 .. Limit(x[1]) - 1
                      /\ x = <<x[1], x[2]>>
BY AdmissionAssumption DEF Slots, Scopes, Limit

LEMMA ScopesOfAre ==
  \A x \in Requests \cup Tasks : ScopesOf(x) \subseteq Scopes /\ TenantOf[x] # "*"
BY AdmissionAssumption DEF ScopesOf, Scopes

\* A scope has as many slot indexes as its limit.
LEMMA IndexCount ==
  ASSUME NEW s \in Scopes
  PROVE  IsFiniteSet(0 .. Limit(s) - 1) /\ Cardinality(0 .. Limit(s) - 1) = Limit(s)
<1>1. 0 \in Int /\ Limit(s) - 1 \in Int /\ Limit(s) \in Nat \ {0}
  BY SlotKeys
<1>2. /\ IsFiniteSet(0 .. Limit(s) - 1)
      /\ Cardinality(0 .. Limit(s) - 1)
           = IF 0 > Limit(s) - 1 THEN 0 ELSE (Limit(s) - 1) - 0 + 1
  BY ONLY <1>1, FS_Interval
<1> QED
  BY <1>1, <1>2

\* Counts of tasks and of slots are natural numbers, and no more slots are held
\* than there are.
LEMMA Counts ==
  ASSUME NEW s \in Scopes
  PROVE  /\ IsFiniteSet(Active(s)) /\ Cardinality(Active(s)) \in Nat
         /\ IsFiniteSet(Held(s)) /\ Cardinality(Held(s)) \in 0 .. Limit(s)
<1>1. IsFiniteSet(Active(s)) /\ Cardinality(Active(s)) \in Nat
  <2>1. Active(s) \in SUBSET Tasks
    BY DEF Active
  <2> QED
    BY <2>1, FS_Subset, FS_CardinalityType, AdmissionAssumption
<1>2. IsFiniteSet(Held(s)) /\ Cardinality(Held(s)) \in 0 .. Limit(s)
  <2>1. Held(s) \in SUBSET (0 .. Limit(s) - 1)
    BY DEF Held
  <2>2. /\ IsFiniteSet(0 .. Limit(s) - 1)
        /\ Cardinality(0 .. Limit(s) - 1) = Limit(s)
    BY IndexCount
  <2>3. IsFiniteSet(Held(s)) /\ Cardinality(Held(s)) <= Limit(s)
    BY <2>1, <2>2, FS_Subset
  <2> QED
    BY <2>3, FS_CardinalityType, SlotKeys
<1> QED
  BY <1>1, <1>2

\* The same of the next state.
LEMMA CountsAfter ==
  ASSUME NEW s \in Scopes
  PROVE  /\ IsFiniteSet(Active(s)') /\ Cardinality(Active(s)') \in Nat
         /\ IsFiniteSet(Held(s)') /\ Cardinality(Held(s)') \in 0 .. Limit(s)
<1>1. IsFiniteSet(Active(s)') /\ Cardinality(Active(s)') \in Nat
  <2>1. Active(s)' \in SUBSET Tasks
    BY DEF Active
  <2> QED
    BY <2>1, FS_Subset, FS_CardinalityType, AdmissionAssumption
<1>2. IsFiniteSet(Held(s)') /\ Cardinality(Held(s)') \in 0 .. Limit(s)
  <2>1. Held(s)' \in SUBSET (0 .. Limit(s) - 1)
    BY DEF Held
  <2>2. /\ IsFiniteSet(0 .. Limit(s) - 1)
        /\ Cardinality(0 .. Limit(s) - 1) = Limit(s)
    BY IndexCount
  <2>3. IsFiniteSet(Held(s)') /\ Cardinality(Held(s)') <= Limit(s)
    BY <2>1, <2>2, FS_Subset
  <2> QED
    BY <2>3, FS_CardinalityType, SlotKeys
<1> QED
  BY <1>1, <1>2

\* Fewer tasks and fewer slots take fewer places, and stay within the bound.
LEMMA ShrinkPlaces ==
  ASSUME NEW s \in Scopes, Active(s)' \subseteq Active(s), Held(s)' \subseteq Held(s)
  PROVE  Cardinality(Active(s)') + Cardinality(Held(s)')
           <= Cardinality(Active(s)) + Cardinality(Held(s))
<1>1. /\ Cardinality(Active(s)') <= Cardinality(Active(s))
      /\ Cardinality(Held(s)') <= Cardinality(Held(s))
  BY Counts, FS_Subset
<1> QED
  BY <1>1, Counts, CountsAfter

LEMMA Shrink ==
  ASSUME BacklogBounded,
         \A s \in Scopes : Active(s)' \subseteq Active(s) /\ Held(s)' \subseteq Held(s)
  PROVE  BacklogBounded'
<1> SUFFICES ASSUME NEW s \in Scopes
             PROVE  Cardinality(Active(s)') + Cardinality(Held(s)') <= 2 * Limit(s) - 1
  BY DEF BacklogBounded
<1>1. Cardinality(Active(s)') + Cardinality(Held(s)')
        <= Cardinality(Active(s)) + Cardinality(Held(s))
  BY ShrinkPlaces
<1> QED
  BY <1>1, Counts, CountsAfter, SlotKeys DEF BacklogBounded

LEMMA InitIInv == Init => IInv
<1> SUFFICES ASSUME Init PROVE IInv
  OBVIOUS
<1>1. TypeOK /\ FreshRequests
  BY DEF Init, TypeOK, FreshRequests
<1>2. PairedSlots
  BY AdmissionAssumption DEF Init, PairedSlots, SlotsOf
<1>3. \A s \in Scopes : Active(s) = {} /\ Held(s) = {}
  BY SlotKeys DEF Init, Active, Held
<1>4. BacklogBounded
  <2>1. Cardinality({}) = 0
    BY FS_EmptySet
  <2>2. \A s \in Scopes : Cardinality(Active(s)) = 0 /\ Cardinality(Held(s)) = 0
    BY <1>3, <2>1
  <2> QED
    BY <2>2, SlotKeys DEF BacklogBounded
<1> QED
  BY <1>1, <1>2, <1>4 DEF IInv

\* Acquire: the two slots of a call that held none, and nobody else loses a slot
\* whose lease has not expired.
LEMMA AcquireIInv ==
  ASSUME IInv, NEW o \in Requests, Acquire(o)
  PROVE  IInv'
<1> USE DEF IInv
<1>1. PICK x \in Slots, y \in Slots :
        FirstFree("*", x) /\ FirstFree(TenantOf[o], y) /\ Reserve(o, {x, y})
  BY DEF Acquire
<1>2. /\ x[1] = "*" /\ Freed(Expired)[x] = Nobody /\ x[2] < Available("*")
      /\ y[1] = TenantOf[o] /\ Freed(Expired)[y] = Nobody /\ y[2] < Available(TenantOf[o])
  BY <1>1 DEF FirstFree, FreeSlots
<1>3. /\ slots' = [z \in Slots |-> IF z \in {x, y} THEN o ELSE Freed(Expired)[z]]
      /\ \A p \in Requests : lease'[p] = CASE p = o -> "live"
                                          [] p \in Expired -> "none"
                                          [] OTHER -> lease[p]
      /\ lease' \in [Requests -> {"none", "live", "expired"}]
      /\ req' = [req EXCEPT ![o] = "reserved"]
      /\ task' = task
  BY <1>1 DEF Reserve, TypeOK
<1>4. \A z \in Slots : /\ slots[z] \in Expired => Freed(Expired)[z] = Nobody
                       /\ slots[z] \notin Expired => Freed(Expired)[z] = slots[z]
  BY DEF Freed
<1>5. lease[o] = "none" /\ SlotsOf(o) = {} /\ req[o] = "new"
  BY DEF Acquire, FreshRequests, PairedSlots
<1>6. TypeOK'
  BY <1>3, <1>4 DEF TypeOK
<1>7. FreshRequests'
  BY <1>3 DEF FreshRequests, TypeOK, Expired
<1>8. PairedSlots'
  <2> SUFFICES ASSUME NEW p \in Requests
               PROVE  \/ SlotsOf(p)' = {} /\ lease'[p] = "none"
                      \/ /\ lease'[p] # "none"
                         /\ \E u, v \in Slots :
                              u[1] = "*" /\ v[1] = TenantOf[p] /\ SlotsOf(p)' = {u, v}
    BY DEF PairedSlots
  <2>1. CASE p = o
    <3>1. \A z \in Slots : Freed(Expired)[z] # o
      BY <1>4, <1>5, AdmissionAssumption DEF SlotsOf
    <3>2. \A z \in Slots : slots'[z] = o <=> z \in {x, y}
      BY <1>3, <3>1
    <3>3. SlotsOf(o)' = {x, y}
      BY <3>2 DEF SlotsOf
    <3>4. o \notin Expired
      BY <1>5 DEF Expired
    <3>5. lease'[o] = "live"
      BY <1>3, <3>4
    <3> QED
      BY <2>1, <3>3, <3>5, <1>2
  <2>2. CASE p # o /\ p \in Expired
    <3>1. SlotsOf(p)' = {}
      BY <2>2, <1>3, <1>4, AdmissionAssumption DEF SlotsOf
    <3> QED
      BY <2>2, <3>1, <1>3
  <2>3. CASE p # o /\ p \notin Expired
    <3>1. SlotsOf(p)' = SlotsOf(p)
      BY <2>3, <1>2, <1>3, <1>4, AdmissionAssumption DEF SlotsOf
    <3>2. lease'[p] = lease[p]
      BY <2>3, <1>3
    <3> QED
      BY <3>1, <3>2 DEF PairedSlots
  <2> QED
    BY <2>1, <2>2, <2>3
<1>9. BacklogBounded'
  <2> SUFFICES ASSUME NEW s \in Scopes
               PROVE  Cardinality(Active(s)') + Cardinality(Held(s)') <= 2 * Limit(s) - 1
    BY DEF BacklogBounded
  <2>1. Active(s)' = Active(s)
    BY <1>3 DEF Active
  <2>2. CASE s \in {"*", TenantOf[o]}
    <3>1. \E z \in Slots : z[1] = s /\ z[2] < Limit(s) - Cardinality(Active(s))
      BY <2>2, <1>2 DEF Available
    <3>2. Cardinality(Active(s)) <= Limit(s) - 1
      BY <3>1, SlotKeys, Counts
    <3> QED
      BY <2>1, <3>2, CountsAfter, Counts, SlotKeys
  <2>3. CASE s \notin {"*", TenantOf[o]}
    <3>1. \A i \in 0 .. Limit(s) - 1 : <<s, i>> \in Slots /\ <<s, i>> \notin {x, y}
      BY <2>3, <1>2, SlotKeys
    <3>2. Held(s)' \subseteq Held(s)
      BY <3>1, <1>3, <1>4 DEF Held
    <3>3. Cardinality(Held(s)') <= Cardinality(Held(s))
      BY <3>2, Counts, FS_Subset
    <3> QED
      BY <2>1, <3>3, Counts, CountsAfter, SlotKeys DEF BacklogBounded
  <2> QED
    BY <2>2, <2>3
<1> QED
  BY <1>6, <1>7, <1>8, <1>9

\* What the deletion of o's slots does to the table.
LEMMA FreeOne ==
  ASSUME TypeOK, PairedSlots, NEW o \in Requests,
         slots' = Freed({o}), lease' = [lease EXCEPT ![o] = "none"]
  PROVE  /\ slots' \in [Slots -> Requests \cup {Nobody}]
         /\ lease' \in [Requests -> {"none", "live", "expired"}]
         /\ \A s \in Scopes : Held(s)' \subseteq Held(s)
         /\ PairedSlots'
<1>1. \A z \in Slots : slots'[z] = IF slots[z] = o THEN Nobody ELSE slots[z]
  BY DEF Freed
<1>2. slots' \in [Slots -> Requests \cup {Nobody}]
  BY DEF TypeOK, Freed
<1>3. lease' \in [Requests -> {"none", "live", "expired"}]
  BY DEF TypeOK
<1>4. \A s \in Scopes : Held(s)' \subseteq Held(s)
  BY <1>1, SlotKeys DEF Held
<1>5. SlotsOf(o)' = {} /\ lease'[o] = "none"
  BY <1>1, AdmissionAssumption DEF SlotsOf, TypeOK
<1>6. \A p \in Requests \ {o} : SlotsOf(p)' = SlotsOf(p) /\ lease'[p] = lease[p]
  BY <1>1, AdmissionAssumption DEF SlotsOf, TypeOK
<1>7. PairedSlots'
  BY <1>5, <1>6 DEF PairedSlots
<1> QED
  BY <1>2, <1>3, <1>4, <1>7

\* A conversion gives back exactly one slot in each scope of the request.
LEMMA OneSlotEach ==
  ASSUME TypeOK, PairedSlots, NEW o \in Requests, HasReservation(o),
         slots' = Freed({o}), NEW s \in ScopesOf(o)
  PROVE  Cardinality(Held(s)') = Cardinality(Held(s)) - 1
<1>1. s \in Scopes /\ TenantOf[o] # "*"
  BY ScopesOfAre
<1>2. SlotsOf(o) # {}
  <2>1. Cardinality({}) # 2
    BY FS_EmptySet
  <2> QED
    BY <2>1 DEF HasReservation
<1>3. PICK x \in Slots, y \in Slots :
        x[1] = "*" /\ y[1] = TenantOf[o] /\ SlotsOf(o) = {x, y}
  BY <1>2 DEF PairedSlots
<1>4. PICK z \in {x, y} : z[1] = s /\ \A u \in {x, y} : u[1] = s => u = z
  BY <1>1, <1>3 DEF ScopesOf
<1>5. z[2] \in 0 .. Limit(s) - 1 /\ z = <<s, z[2]>> /\ slots[z] = o
  BY <1>3, <1>4, SlotKeys DEF SlotsOf
<1>6. \A i \in 0 .. Limit(s) - 1 :
        slots'[<<s, i>>] = IF i = z[2] THEN Nobody ELSE slots[<<s, i>>]
  <2> SUFFICES ASSUME NEW i \in 0 .. Limit(s) - 1
               PROVE  slots'[<<s, i>>] = IF i = z[2] THEN Nobody ELSE slots[<<s, i>>]
    OBVIOUS
  <2>1. <<s, i>> \in Slots
    BY <1>1, SlotKeys
  <2>2. slots[<<s, i>>] = o <=> i = z[2]
    BY <2>1, <1>3, <1>4, <1>5 DEF SlotsOf
  <2> QED
    BY <2>1, <2>2 DEF Freed
<1>7. z[2] \in Held(s)
  BY <1>5, AdmissionAssumption DEF Held
<1>8. Held(s)' = Held(s) \ {z[2]}
  <2>1. \A i \in 0 .. Limit(s) - 1 :
          slots'[<<s, i>>] # Nobody <=> slots[<<s, i>>] # Nobody /\ i # z[2]
    BY <1>6
  <2> QED
    BY <2>1, Zenon DEF Held
<1>9. Cardinality(Held(s) \ {z[2]}) = Cardinality(Held(s)) - 1
  <2>1. IsFiniteSet(Held(s))
    BY <1>1, Counts
  <2>2. Cardinality(Held(s) \ {z[2]})
          = IF z[2] \in Held(s) THEN Cardinality(Held(s)) - 1 ELSE Cardinality(Held(s))
    BY <2>1, FS_RemoveElement, Zenon
  <2> QED
    BY <1>7, <2>2
<1> QED
  BY <1>8, <1>9

\* A conversion takes no more places than it gives back.
LEMMA ConsumePlaces ==
  ASSUME TypeOK, PairedSlots, NEW o \in Requests, NEW t \in Tasks, Consume(o, t),
         NEW s \in Scopes
  PROVE  Cardinality(Active(s)') + Cardinality(Held(s)')
           <= Cardinality(Active(s)) + Cardinality(Held(s))
<1>1. /\ slots' = Freed({o}) /\ lease' = [lease EXCEPT ![o] = "none"]
      /\ task' = [task EXCEPT ![t] = "active"]
      /\ TenantOf[t] = TenantOf[o] /\ HasReservation(o)
  BY DEF Consume
<1>2. CASE s \in ScopesOf(o)
  <2>1. Cardinality(Held(s)') = Cardinality(Held(s)) - 1
    BY <1>1, <1>2, OneSlotEach
  <2>2. Active(s)' \subseteq Active(s) \cup {t}
    BY <1>1 DEF Active, TypeOK
  <2>3. /\ IsFiniteSet(Active(s) \cup {t})
        /\ Cardinality(Active(s) \cup {t}) <= Cardinality(Active(s)) + 1
    <3>1. IsFiniteSet(Active(s)) /\ Cardinality(Active(s)) \in Nat
      BY Counts
    <3>2. /\ IsFiniteSet(Active(s) \cup {t})
          /\ Cardinality(Active(s) \cup {t})
               = IF t \in Active(s) THEN Cardinality(Active(s)) ELSE Cardinality(Active(s)) + 1
      BY <3>1, FS_AddElement
    <3> QED
      BY <3>1, <3>2
  <2>4. Cardinality(Active(s)') <= Cardinality(Active(s) \cup {t})
    BY <2>2, <2>3, FS_Subset
  <2>5. Cardinality(Active(s) \cup {t}) \in Nat
    BY <2>3, FS_CardinalityType
  <2> QED
    BY <2>1, <2>3, <2>4, <2>5, Counts, CountsAfter, SlotKeys
<1>3. CASE s \notin ScopesOf(o)
  <2>1. Active(s)' \subseteq Active(s)
    BY <1>1, <1>3 DEF Active, TypeOK, ScopesOf
  <2>2. Held(s)' \subseteq Held(s)
    BY <1>1, FreeOne
  <2> QED
    BY <2>1, <2>2, ShrinkPlaces
<1> QED
  BY <1>2, <1>3

LEMMA ConsumeIInv ==
  ASSUME IInv, NEW o \in Requests, NEW t \in Tasks, Consume(o, t)
  PROVE  IInv'
<1> USE DEF IInv
<1>1. /\ slots' = Freed({o}) /\ lease' = [lease EXCEPT ![o] = "none"]
      /\ task' = [task EXCEPT ![t] = "active"] /\ req' = [req EXCEPT ![o] = "done"]
      /\ TenantOf[t] = TenantOf[o] /\ HasReservation(o)
  BY DEF Consume
<1>2. /\ slots' \in [Slots -> Requests \cup {Nobody}]
      /\ lease' \in [Requests -> {"none", "live", "expired"}]
      /\ \A s \in Scopes : Held(s)' \subseteq Held(s)
      /\ PairedSlots'
  BY <1>1, FreeOne
<1>3. TypeOK' /\ FreshRequests'
  BY <1>1, <1>2 DEF TypeOK, FreshRequests
<1>4. BacklogBounded'
  <2> SUFFICES ASSUME NEW s \in Scopes
               PROVE  Cardinality(Active(s)') + Cardinality(Held(s)') <= 2 * Limit(s) - 1
    BY DEF BacklogBounded
  <2>1. Cardinality(Active(s)') + Cardinality(Held(s)')
          <= Cardinality(Active(s)) + Cardinality(Held(s))
    BY ConsumePlaces
  <2> QED
    BY <2>1, Counts, CountsAfter, SlotKeys DEF BacklogBounded
<1> QED
  BY <1>2, <1>3, <1>4

\* A reservation that is given up.
LEMMA GiveUpIInv ==
  ASSUME IInv, NEW o \in Requests, GiveUp(o)
  PROVE  IInv'
<1> USE DEF IInv
<1>1. /\ slots' = Freed({o}) /\ lease' = [lease EXCEPT ![o] = "none"]
      /\ task' = task /\ req' = [req EXCEPT ![o] = "done"]
  BY DEF GiveUp
<1>2. /\ slots' \in [Slots -> Requests \cup {Nobody}]
      /\ lease' \in [Requests -> {"none", "live", "expired"}]
      /\ \A s \in Scopes : Held(s)' \subseteq Held(s)
      /\ PairedSlots'
  BY <1>1, FreeOne
<1>3. TypeOK' /\ FreshRequests'
  BY <1>1, <1>2 DEF TypeOK, FreshRequests
<1>4. \A s \in Scopes : Active(s)' \subseteq Active(s)
  BY <1>1 DEF Active
<1> QED
  BY <1>2, <1>3, <1>4, Shrink

\* Steps that leave the slot table alone.
LEMMA SameSlotsIInv ==
  ASSUME IInv, UNCHANGED slots, TypeOK', FreshRequests',
         \A o \in Requests : lease'[o] = "none" <=> lease[o] = "none",
         \A t \in Tasks : task'[t] = "active" => task[t] = "active"
  PROVE  IInv'
<1>1. PairedSlots'
  BY DEF IInv, PairedSlots, SlotsOf
<1>2. \A s \in Scopes : Active(s)' \subseteq Active(s) /\ Held(s)' \subseteq Held(s)
  BY DEF Active, Held
<1> QED
  BY <1>1, <1>2, Shrink DEF IInv

LEMMA StepIInv == IInv /\ [Next]_vars => IInv'
<1> SUFFICES ASSUME IInv, [Next]_vars PROVE IInv'
  OBVIOUS
<1> USE DEF IInv
<1>1. ASSUME NEW o \in Requests, Acquire(o) PROVE IInv'
  BY <1>1, AcquireIInv
<1>2. ASSUME NEW o \in Requests, LoseReservation(o) PROVE IInv'
  BY <1>2, GiveUpIInv DEF LoseReservation
<1>3. ASSUME NEW o \in Requests, Release(o) PROVE IInv'
  BY <1>3, GiveUpIInv DEF Release
<1>4. ASSUME NEW o \in Requests, Vanish(o) PROVE IInv'
  <2>1. TypeOK' /\ FreshRequests'
    BY <1>4 DEF Vanish, TypeOK, FreshRequests
  <2> QED
    BY <1>4, <2>1, SameSlotsIInv DEF Vanish
<1>5. ASSUME NEW o \in Requests, NEW t \in Tasks, CreateTask(o, t) PROVE IInv'
  BY <1>5, ConsumeIInv DEF CreateTask
<1>6. ASSUME NEW o \in Requests, NEW t \in Tasks, RetryTask(o, t) PROVE IInv'
  BY <1>6, ConsumeIInv DEF RetryTask
<1>7. ASSUME NEW o \in Requests, LeaseExpires(o) PROVE IInv'
  <2>1. TypeOK' /\ FreshRequests'
    BY <1>7 DEF LeaseExpires, TypeOK, FreshRequests
  <2>2. \A p \in Requests : lease'[p] = "none" <=> lease[p] = "none"
    BY <1>7 DEF LeaseExpires, TypeOK
  <2> QED
    BY <1>7, <2>1, <2>2, SameSlotsIInv DEF LeaseExpires
<1>8. ASSUME NEW o \in Requests, NewRequest(o) PROVE IInv'
  <2>1. lease[o] = "none"
    BY <1>8 DEF NewRequest, PairedSlots
  <2>2. TypeOK' /\ FreshRequests'
    BY <1>8, <2>1 DEF NewRequest, TypeOK, FreshRequests
  <2> QED
    BY <1>8, <2>2, SameSlotsIInv DEF NewRequest
<1>9. ASSUME NEW t \in Tasks, TaskLeaves(t) PROVE IInv'
  <2>1. TypeOK' /\ FreshRequests'
    BY <1>9 DEF TaskLeaves, TypeOK, FreshRequests
  <2>2. \A u \in Tasks : task'[u] = "active" => task[u] = "active"
    BY <1>9 DEF TaskLeaves, TypeOK
  <2> QED
    BY <1>9, <2>1, <2>2, SameSlotsIInv DEF TaskLeaves
<1>10. CASE UNCHANGED vars
  <2>1. TypeOK' /\ FreshRequests'
    BY <1>10 DEF vars, TypeOK, FreshRequests
  <2> QED
    BY <1>10, <2>1, SameSlotsIInv DEF vars
<1> QED
  BY <1>1, <1>2, <1>3, <1>4, <1>5, <1>6, <1>7, <1>8, <1>9, <1>10 DEF Next, Handle

\* The inductive invariant of admission: whatever expires, dies or is rejected.
THEOREM AdmissionInvariant == Spec => []IInv
BY InitIInv, StepIInv, PTL DEF Spec

\* The variables of admission keep their types.
THEOREM AdmissionTypes == Spec => []TypeOK
<1>1. IInv => TypeOK
  BY DEF IInv
<1> QED
  BY <1>1, AdmissionInvariant, PTL

\* A request holds one slot in each of its two scopes or none at all, so that
\* counting two deleted rows decides whether it still has its reservation.
THEOREM SlotsArePaired == Spec => []PairedSlots
<1>1. IInv => PairedSlots
  BY DEF IInv
<1> QED
  BY <1>1, AdmissionInvariant, PTL

\* Tasks and reservations of a scope stay below twice its limit: the bound that
\* admission really enforces, for any limits and any number of clients.
THEOREM BacklogIsBounded == Spec => []BacklogBounded
<1>1. IInv => BacklogBounded
  BY DEF IInv
<1> QED
  BY <1>1, AdmissionInvariant, PTL

\* A task that enters the backlog uses up exactly one slot in each of its scopes.
THEOREM ConversionsArePaid == Spec => ConversionIsPaid
<1>1. ASSUME IInv, Next, NEW t \in Tasks, task[t] # "active", task'[t] = "active",
             NEW s \in ScopesOf(t)
      PROVE  Cardinality(Held(s)') = Cardinality(Held(s)) - 1
  <2>1. PICK o \in Requests, u \in Tasks : Consume(o, u)
    BY <1>1 DEF Next, Handle, Acquire, Reserve, LoseReservation, Release, GiveUp, Vanish,
                LeaseExpires, NewRequest, TaskLeaves, CreateTask, RetryTask, IInv, TypeOK
  <2>2. u = t
    BY <1>1, <2>1 DEF Consume, IInv, TypeOK
  <2>3. s \in ScopesOf(o)
    BY <2>1, <2>2 DEF Consume, ScopesOf
  <2> QED
    BY <1>1, <2>1, <2>3, OneSlotEach DEF Consume, IInv
<1>2. IInv /\ [Next]_vars => [\A t \in Tasks : Paid(t)]_vars
  BY <1>1 DEF Paid
<1> QED
  BY <1>2, AdmissionInvariant, PTL DEF Spec, ConversionIsPaid

\* Only a request that is admitted takes places: no other step adds to the tasks and
\* reservations of a scope.
LEMMA PlacesOnlyReserved ==
  ASSUME IInv, [Next]_vars, NEW s \in Scopes,
         \A o \in Requests : req[o] = "new" /\ req'[o] = "reserved" => s \notin ScopesOf(o)
  PROVE  Cardinality(Active(s)') + Cardinality(Held(s)')
           <= Cardinality(Active(s)) + Cardinality(Held(s))
<1> USE DEF IInv
<1>1. ASSUME NEW o \in Requests, Acquire(o)
      PROVE  Active(s)' \subseteq Active(s) /\ Held(s)' \subseteq Held(s)
  <2>1. PICK x \in Slots, y \in Slots :
          FirstFree("*", x) /\ FirstFree(TenantOf[o], y) /\ Reserve(o, {x, y})
    BY <1>1 DEF Acquire
  <2>2. /\ x[1] = "*" /\ y[1] = TenantOf[o] /\ task' = task
        /\ slots' = [z \in Slots |-> IF z \in {x, y} THEN o ELSE Freed(Expired)[z]]
    BY <2>1 DEF FirstFree, FreeSlots, Reserve
  <2>3. s \notin ScopesOf(o)
    BY <1>1, <2>1 DEF Acquire, Reserve, TypeOK
  <2>4. \A i \in 0 .. Limit(s) - 1 : slots'[<<s, i>>] \in {slots[<<s, i>>], Nobody}
    <3> SUFFICES ASSUME NEW i \in 0 .. Limit(s) - 1
                 PROVE  slots'[<<s, i>>] \in {slots[<<s, i>>], Nobody}
      OBVIOUS
    <3>1. <<s, i>> \in Slots /\ <<s, i>> # x /\ <<s, i>> # y
      BY <2>2, <2>3, SlotKeys DEF ScopesOf
    <3> QED
      BY <2>2, <3>1 DEF Freed
  <2> QED
    BY <2>2, <2>4 DEF Active, Held
<1>2. ASSUME NEW o \in Requests, GiveUp(o)
      PROVE  Active(s)' \subseteq Active(s) /\ Held(s)' \subseteq Held(s)
  <2>1. Held(s)' \subseteq Held(s)
    BY <1>2, FreeOne DEF GiveUp
  <2> QED
    BY <1>2, <2>1 DEF GiveUp, Active
<1>3. ASSUME NEW o \in Requests, Vanish(o) \/ LeaseExpires(o) \/ NewRequest(o)
      PROVE  Active(s)' \subseteq Active(s) /\ Held(s)' \subseteq Held(s)
  BY <1>3 DEF Vanish, LeaseExpires, NewRequest, Active, Held
<1>4. ASSUME NEW t \in Tasks, TaskLeaves(t)
      PROVE  Active(s)' \subseteq Active(s) /\ Held(s)' \subseteq Held(s)
  BY <1>4 DEF TaskLeaves, Active, Held, TypeOK
<1>5. ASSUME UNCHANGED vars
      PROVE  Active(s)' \subseteq Active(s) /\ Held(s)' \subseteq Held(s)
  BY <1>5 DEF vars, Active, Held
<1>6. ASSUME NEW o \in Requests, NEW t \in Tasks, Consume(o, t)
      PROVE  Cardinality(Active(s)') + Cardinality(Held(s)')
               <= Cardinality(Active(s)) + Cardinality(Held(s))
  BY <1>6, ConsumePlaces
<1>7. CASE Active(s)' \subseteq Active(s) /\ Held(s)' \subseteq Held(s)
  BY <1>7, ShrinkPlaces
<1> QED
  BY <1>1, <1>2, <1>3, <1>4, <1>5, <1>6, <1>7
     DEF Next, Handle, LoseReservation, Release, CreateTask, RetryTask

-----------------------------------------------------------------------------
(* Nobody is turned away but at a limit.                                   *)

\* A set of natural numbers that is not empty has a least member.
LEMMA LeastMember ==
  ASSUME NEW T, T \subseteq Nat, T # {}
  PROVE  \E n \in T : \A m \in T : n <= m
<1> DEFINE R == {p \in Nat \X Nat : p[1] < p[2]}
<1>1. IsWellFoundedOn(R, Nat)
  BY NatLessThanWellFounded DEF OpToRel
<1>2. PICK n \in T : \A m \in T : <<m, n>> \notin R
  <2> HIDE DEF R
  <2> QED
    BY <1>1, WFMin
<1>3. \A m \in T : ~(m < n)
  BY <1>2
<1> QED
  BY <1>3

\* A slot is taken, for an acquisition, if and only if a live lease keeps it.
LEMMA TakenIsLive ==
  ASSUME TypeOK, PairedSlots, NEW s \in Scopes, NEW i \in 0 .. Limit(s) - 1,
         Freed(Expired)[<<s, i>>] # Nobody
  PROVE  i \in LiveSlots(s)
<1> DEFINE o == slots[<<s, i>>]
<1>1. <<s, i>> \in Slots
  BY SlotKeys
<1>2. o \notin Expired /\ o # Nobody
  BY <1>1 DEF Freed
<1>3. o \in Requests
  BY <1>1, <1>2 DEF TypeOK
<1>4. <<s, i>> \in SlotsOf(o)
  BY <1>1 DEF SlotsOf
<1>5. lease[o] # "none"
  BY <1>3, <1>4 DEF PairedSlots
<1>6. lease[o] = "live"
  BY <1>2, <1>3, <1>5 DEF Expired, TypeOK
<1> QED
  BY <1>3, <1>6 DEF LiveSlots

\* Among the indexes below limit - active_tasks one is free, and one the first.
LEMMA FreeIfNotFull ==
  ASSUME TypeOK, PairedSlots, NEW s \in Scopes, ~Full(s)
  PROVE  \E x \in Slots : FirstFree(s, x)
<1> DEFINE A == Cardinality(Active(s))
           L == Cardinality(LiveSlots(s))
           below == 0 .. Limit(s) - A - 1
           free == {i \in below : Freed(Expired)[<<s, i>>] = Nobody}
<1>1. A \in Nat /\ Limit(s) \in Nat \ {0}
  BY Counts, SlotKeys
<1>2. IsFiniteSet(LiveSlots(s)) /\ L \in Nat
  <2>1. LiveSlots(s) \in SUBSET (0 .. Limit(s) - 1)
    BY DEF LiveSlots
  <2> QED
    BY <2>1, IndexCount, FS_Subset, FS_CardinalityType
<1>3. A + L < Limit(s)
  BY <1>1, <1>2 DEF Full
<1>4. IsFiniteSet(below) /\ Cardinality(below) = Limit(s) - A
  <2>1. 0 \in Int /\ Limit(s) - A - 1 \in Int /\ ~(0 > Limit(s) - A - 1)
    BY <1>1, <1>2, <1>3
  <2>2. /\ IsFiniteSet(0 .. Limit(s) - A - 1)
        /\ Cardinality(0 .. Limit(s) - A - 1)
             = IF 0 > Limit(s) - A - 1 THEN 0 ELSE (Limit(s) - A - 1) - 0 + 1
    BY ONLY <2>1, FS_Interval
  <2> QED
    BY <1>1, <2>1, <2>2
<1>5. \A i \in below : i \in 0 .. Limit(s) - 1 /\ i < Available(s)
  BY <1>1 DEF Available
<1>6. free # {}
  <2> SUFFICES ASSUME \A i \in below : Freed(Expired)[<<s, i>>] # Nobody
               PROVE  FALSE
    OBVIOUS
  <2>1. below \in SUBSET LiveSlots(s)
    BY <1>5, TakenIsLive
  <2>2. Cardinality(below) <= L
    BY <1>2, <2>1, FS_Subset
  <2> QED
    BY <1>1, <1>2, <1>3, <1>4, <2>2
<1>7. PICK i \in free : \A j \in free : i <= j
  <2>1. free \subseteq Nat
    BY <1>1
  <2> QED
    BY ONLY <1>6, <2>1, LeastMember
<1>8. <<s, i>> \in FreeSlots(s)
  BY <1>5, <1>7, SlotKeys DEF FreeSlots
<1>9. \A y \in FreeSlots(s) : i <= y[2]
  <2> SUFFICES ASSUME NEW y \in FreeSlots(s) PROVE y[2] \in free
    BY <1>7
  <2>1. y[2] \in 0 .. Limit(s) - 1 /\ y = <<s, y[2]>> /\ y[2] < Limit(s) - A
    BY SlotKeys DEF FreeSlots, Available
  <2>2. y[2] \in below
    BY <1>1, <2>1
  <2> QED
    BY <2>1, <2>2 DEF FreeSlots
<1>10. <<s, i>> \in Slots /\ FirstFree(s, <<s, i>>)
  BY <1>8, <1>9 DEF FirstFree, FreeSlots
<1> QED
  BY <1>10

\* A request is turned away only if the tasks and the live reservations of one of its
\* scopes reach the limit: holes in the table and slots of dead requests cost nobody
\* a place.
THEOREM NobodyIsTurnedAwayEarly == Spec => []RejectedOnlyIfFull
<1>1. ASSUME IInv PROVE RejectedOnlyIfFull
  <2> SUFFICES ASSUME NEW o \in Requests, \A s \in ScopesOf(o) : ~Full(s)
               PROVE  \E x, y \in Slots : FirstFree("*", x) /\ FirstFree(TenantOf[o], y)
    BY DEF RejectedOnlyIfFull
  <2>1. "*" \in ScopesOf(o) /\ TenantOf[o] \in ScopesOf(o) /\ ScopesOf(o) \subseteq Scopes
    BY ScopesOfAre DEF ScopesOf
  <2> QED
    BY <1>1, <2>1, FreeIfNotFull DEF IInv
<1> QED
  BY <1>1, AdmissionInvariant, PTL
=============================================================================
