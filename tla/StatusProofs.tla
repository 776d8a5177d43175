---------------------------- MODULE StatusProofs ----------------------------
(***************************************************************************)
(* Status objects own their blocks and behave like values, for any number  *)
(* of objects, errors and addresses.                                       *)
(***************************************************************************)
EXTENDS Status, TLAPS

IInv == TypeOK /\ Ownership

USE PointerAssumption, ValueAssumption

\* At first there are no objects and no blocks.
LEMMA InitIInv == Init => IInv
  BY DEF Init, IInv, TypeOK, Ownership

\* The heap after delete[] of the pointer of o.
LEMMA DeleteFrees ==
  ASSUME IInv, NEW o \in Objects
  PROVE  /\ Delete(heap, state_[o]) \in [Addrs -> Errors \union {Garbage}]
         /\ \A a \in Addrs : a # state_[o] => Delete(heap, state_[o])[a] = heap[a]
         /\ state_[o] \in Addrs => Delete(heap, state_[o])[state_[o]] = Garbage
  BY DEF IInv, TypeOK, Delete

\* h is a heap in which the Status at o owns nothing and all others own what
\* they owned.
Released(o, h) ==
  /\ h \in [Addrs -> Errors \union {Garbage}]
  /\ \A a \in Addrs : a # state_[o] => h[a] = heap[a]
  /\ state_[o] \in Addrs => h[state_[o]] = Garbage

\* A Status that owns nothing gets a block of its own.
LEMMA AllocateStep ==
  ASSUME IInv, NEW o \in Objects, NEW h, Released(o, h), NEW e \in Errors,
         Allocate(o, h, e)
  PROVE  /\ IInv'
         /\ \A s \in Objects : Value(s)' = IF s = o THEN e ELSE Value(s)
<1>1. PICK a \in Addrs : /\ h[a] = Garbage
                         /\ heap' = [h EXCEPT ![a] = e]
                         /\ state_' = [state_ EXCEPT ![o] = a]
  BY DEF Allocate
<1>2. TypeOK'
  BY <1>1 DEF IInv, TypeOK, Released
<1>3. \A s \in Objects : s # o => state_[s] # a \/ state_[s] \notin Addrs
  BY <1>1 DEF IInv, TypeOK, Ownership, Released
<1>4. state_'[o] = a /\ heap'[a] = e /\ \A s \in Objects : s # o => state_'[s] = state_[s]
  BY <1>1 DEF IInv, TypeOK, Released
<1>5. \A s \in Objects : s # o /\ state_[s] \in Addrs => heap'[state_[s]] = heap[state_[s]]
  BY <1>1, <1>3 DEF IInv, TypeOK, Ownership, Released
<1>6. Ownership'
  <2>1. \A s \in Objects : state_'[s] \in Addrs => heap'[state_'[s]] # Garbage
    BY <1>4, <1>5 DEF IInv, Ownership
  <2>2. \A s, t \in Objects : state_'[s] \in Addrs /\ state_'[s] = state_'[t] => s = t
    BY <1>3, <1>4 DEF IInv, Ownership
  <2>3. \A b \in Addrs : heap'[b] # Garbage => \E s \in Objects : state_'[s] = b
    BY <1>1, <1>4 DEF IInv, TypeOK, Ownership, Released
  <2> QED BY <2>1, <2>2, <2>3 DEF Ownership
<1>7. \A s \in Objects : Value(s)' = IF s = o THEN e ELSE Value(s)
  BY <1>4, <1>5 DEF Value
<1> QED BY <1>2, <1>6, <1>7 DEF IInv

\* A Status that owns nothing gets a pointer that is not an address.
LEMMA ClearStep ==
  ASSUME IInv, NEW o \in Objects, Released(o, heap'), NEW p \in {nullptr, Dead},
         state_' = [state_ EXCEPT ![o] = p]
  PROVE  /\ IInv'
         /\ \A s \in Objects :
              Value(s)' = IF s = o THEN (IF p = nullptr THEN Ok ELSE Dead) ELSE Value(s)
<1>1. TypeOK'
  BY DEF IInv, TypeOK, Released
<1>2. state_'[o] = p /\ p \notin Addrs /\ \A s \in Objects : s # o => state_'[s] = state_[s]
  BY DEF IInv, TypeOK
<1>3. \A s \in Objects : s # o /\ state_[s] \in Addrs => heap'[state_[s]] = heap[state_[s]]
  BY DEF IInv, TypeOK, Ownership, Released
<1>4. Ownership'
  <2>1. \A s \in Objects : state_'[s] \in Addrs => heap'[state_'[s]] # Garbage
    BY <1>2, <1>3 DEF IInv, Ownership
  <2>2. \A s, t \in Objects : state_'[s] \in Addrs /\ state_'[s] = state_'[t] => s = t
    BY <1>2 DEF IInv, Ownership
  <2>3. \A b \in Addrs : heap'[b] # Garbage => \E s \in Objects : state_'[s] = b
    BY <1>2 DEF IInv, TypeOK, Ownership, Released
  <2> QED BY <2>1, <2>2, <2>3 DEF Ownership
<1>5. \A s \in Objects :
        Value(s)' = IF s = o THEN (IF p = nullptr THEN Ok ELSE Dead) ELSE Value(s)
  BY <1>2, <1>3 DEF Value
<1> QED BY <1>1, <1>4, <1>5 DEF IInv

\* Copying into a Status that owns nothing.
LEMMA CopyStep ==
  ASSUME IInv, NEW o \in Objects, NEW s \in Objects, NEW h, Released(o, h),
         Alive(s), state_[o] # state_[s], CopyInto(o, h, state_[s])
  PROVE  /\ IInv'
         /\ \A t \in Objects : Value(t)' = IF t = o THEN Value(s) ELSE Value(t)
<1>1. CASE state_[s] = nullptr
  <2>1. heap' = h /\ state_' = [state_ EXCEPT ![o] = nullptr]
    BY <1>1 DEF CopyInto
  <2>2. IInv' /\ \A t \in Objects : Value(t)' = IF t = o THEN Ok ELSE Value(t)
    BY <2>1, ClearStep
  <2>3. Value(s) = Ok
    BY <1>1 DEF Value
  <2> QED BY <2>2, <2>3
<1>2. CASE state_[s] # nullptr
  <2>1. state_[s] \in Addrs /\ heap[state_[s]] \in Errors /\ h[state_[s]] = heap[state_[s]]
    BY <1>2 DEF Alive, IInv, TypeOK, Ownership, Released
  <2>2. Allocate(o, h, heap[state_[s]])
    BY <1>2, <2>1 DEF CopyInto
  <2>3. Value(s) = heap[state_[s]]
    BY <2>1 DEF Value
  <2> QED BY <2>1, <2>2, <2>3, AllocateStep
<1> QED BY <1>1, <1>2

\* A permutation of the pointers that leaves the heap alone.
LEMMA PermuteStep ==
  ASSUME IInv, NEW o \in Objects, NEW s \in Objects, Alive(s), UNCHANGED heap,
         \/ ~Alive(o) /\ state_' = [state_ EXCEPT ![o] = state_[s], ![s] = nullptr]
         \/ Alive(o) /\ state_' = [state_ EXCEPT ![o] = state_[s], ![s] = state_[o]]
  PROVE  /\ IInv'
         /\ \A t \in Objects : Value(t)' =
              IF t = s THEN (IF Alive(o) THEN Value(o) ELSE Ok)
              ELSE IF t = o THEN Value(s) ELSE Value(t)
<1> DEFINE old == IF Alive(o) THEN state_[o] ELSE nullptr
<1>1. state_'[o] = IF o = s THEN state_[o] ELSE state_[s]
  BY DEF IInv, TypeOK, Alive
<1>2. state_'[s] = old
  BY DEF IInv, TypeOK, Alive
<1>3. \A t \in Objects : t # o /\ t # s => state_'[t] = state_[t]
  BY DEF IInv, TypeOK
<1>4. TypeOK'
  BY DEF IInv, TypeOK
<1>5. state_[o] \in Addrs => Alive(o) /\ old = state_[o]
  BY DEF Alive
<1>6. old \in Addrs => old = state_[o]
  BY DEF Alive
<1> HIDE DEF old
<1>7. Ownership'
  <2>1. \A t \in Objects : state_'[t] \in Addrs => heap'[state_'[t]] # Garbage
    BY <1>1, <1>2, <1>3, <1>6 DEF IInv, Ownership
  <2>2. \A t, u \in Objects : state_'[t] \in Addrs /\ state_'[t] = state_'[u] => t = u
    BY <1>1, <1>2, <1>3, <1>6 DEF IInv, Ownership
  <2>3. \A b \in Addrs : heap'[b] # Garbage => \E t \in Objects : state_'[t] = b
    BY <1>1, <1>2, <1>3, <1>5 DEF IInv, Ownership
  <2> QED BY <2>1, <2>2, <2>3 DEF Ownership
<1>8. Value(s)' = IF Alive(o) THEN Value(o) ELSE Ok
  BY <1>2 DEF Value, old, Alive
<1>9. \A t \in Objects : t # s => Value(t)' = IF t = o THEN Value(s) ELSE Value(t)
  BY <1>1, <1>3 DEF Value
<1> QED BY <1>4, <1>7, <1>8, <1>9 DEF IInv

-----------------------------------------------------------------------------
val == [o \in Objects |-> Value(o)]

\* Alive means the same for the pointers and for the values.
LEMMA AliveValue ==
  ASSUME IInv, NEW o \in Objects
  PROVE  val[o] = Value(o) /\ (Alive(o) <=> Value(o) # Dead)
         /\ Value(o) \in Errors \union {Ok, Dead}
  BY DEF IInv, TypeOK, Ownership, Value, Alive, val

\* Every step preserves the invariant and is a step of the values, or none.
LEMMA StepLemma ==
  ASSUME IInv, Next
  PROVE  IInv' /\ (Abstract!Next \/ val' = val)
<1>1. ASSUME NEW o \in Objects, success(o)
      PROVE  IInv' /\ Abstract!construct(o, Ok)
  <2>1. ~Alive(o) /\ heap' = heap /\ state_' = [state_ EXCEPT ![o] = nullptr]
    BY <1>1 DEF success, CopyInto
  <2>2. Released(o, heap')
    BY <2>1 DEF Released, Alive, IInv, TypeOK
  <2>3. IInv' /\ \A t \in Objects : Value(t)' = IF t = o THEN Ok ELSE Value(t)
    BY <2>1, <2>2, ClearStep
  <2>4. val' = [val EXCEPT ![o] = Ok] /\ val[o] = Dead
    BY <2>1, <2>3, AliveValue DEF val
  <2> QED BY <2>3, <2>4 DEF Abstract!construct, Abstract!Alive, val
<1>2. ASSUME NEW o \in Objects, NEW e \in Errors, error(o, e)
      PROVE  IInv' /\ Abstract!construct(o, e)
  <2>1. ~Alive(o) /\ Allocate(o, heap, e)
    BY <1>2 DEF error
  <2>2. Released(o, heap)
    BY <2>1 DEF Released, Alive, IInv, TypeOK
  <2>3. IInv' /\ \A t \in Objects : Value(t)' = IF t = o THEN e ELSE Value(t)
    BY <2>1, <2>2, AllocateStep
  <2>4. val' = [val EXCEPT ![o] = e] /\ val[o] = Dead
    BY <2>1, <2>3, AliveValue DEF val
  <2> QED BY <2>3, <2>4 DEF Abstract!construct, Abstract!Alive, val
<1>3. ASSUME NEW o \in Objects, NEW s \in Objects, copyConstruct(o, s)
      PROVE  IInv' /\ Abstract!copyConstruct(o, s)
  <2>1. ~Alive(o) /\ Alive(s) /\ CopyInto(o, heap, state_[s]) /\ state_[o] # state_[s]
    BY <1>3 DEF copyConstruct, Alive
  <2>2. Released(o, heap)
    BY <2>1 DEF Released, Alive, IInv, TypeOK
  <2>3. IInv' /\ \A t \in Objects : Value(t)' = IF t = o THEN Value(s) ELSE Value(t)
    BY <2>1, <2>2, CopyStep
  <2>4. val' = [val EXCEPT ![o] = val[s]] /\ val[o] = Dead /\ val[s] # Dead
    BY <2>1, <2>3, AliveValue DEF val
  <2> QED BY <2>3, <2>4 DEF Abstract!copyConstruct, Abstract!construct, Abstract!Alive, val
<1>4. ASSUME NEW o \in Objects, NEW s \in Objects, copyAssign(o, s)
      PROVE  IInv' /\ (Abstract!copyAssign(o, s) \/ val' = val)
  <2>1. CASE state_[o] # state_[s]
    <3>1. Alive(o) /\ Alive(s) /\ CopyInto(o, Delete(heap, state_[o]), state_[s])
      BY <1>4, <2>1 DEF copyAssign
    <3>2. Released(o, Delete(heap, state_[o]))
      BY DeleteFrees DEF Released
    <3>3. IInv' /\ \A t \in Objects : Value(t)' = IF t = o THEN Value(s) ELSE Value(t)
      BY <2>1, <3>1, <3>2, CopyStep
    <3>4. val' = [val EXCEPT ![o] = val[s]] /\ val[o] # Dead /\ val[s] # Dead
      BY <3>1, <3>3, AliveValue DEF val
    <3> QED BY <3>3, <3>4 DEF Abstract!copyAssign, Abstract!Alive, val
  <2>2. CASE ~(state_[o] # state_[s])
    <3>1. UNCHANGED vars
      BY <1>4, <2>2, Zenon DEF copyAssign
    <3> QED BY <3>1 DEF vars, IInv, TypeOK, Ownership, val, Value
  <2> QED BY <2>1, <2>2
<1>5. ASSUME NEW o \in Objects, NEW s \in Objects, moveConstruct(o, s)
      PROVE  IInv' /\ Abstract!moveConstruct(o, s)
  <2>1. /\ ~Alive(o) /\ Alive(s) /\ UNCHANGED heap /\ o # s
        /\ state_' = [state_ EXCEPT ![o] = state_[s], ![s] = nullptr]
    BY <1>5 DEF moveConstruct
  <2>2. IInv' /\ \A t \in Objects : Value(t)' =
                   IF t = s THEN (IF Alive(o) THEN Value(o) ELSE Ok)
                   ELSE IF t = o THEN Value(s) ELSE Value(t)
    BY <2>1, PermuteStep
  <2>3. val' = [val EXCEPT ![o] = val[s], ![s] = Ok] /\ val[o] = Dead /\ val[s] # Dead
    BY <2>1, <2>2, AliveValue DEF val
  <2> QED BY <2>2, <2>3 DEF Abstract!moveConstruct, Abstract!Alive, val
<1>6. ASSUME NEW o \in Objects, NEW s \in Objects, moveAssign(o, s)
      PROVE  IInv' /\ Abstract!moveAssign(o, s)
  <2>1. /\ Alive(o) /\ Alive(s) /\ UNCHANGED heap
        /\ state_' = [state_ EXCEPT ![o] = state_[s], ![s] = state_[o]]
    BY <1>6 DEF moveAssign
  <2>2. IInv' /\ \A t \in Objects : Value(t)' =
                   IF t = s THEN (IF Alive(o) THEN Value(o) ELSE Ok)
                   ELSE IF t = o THEN Value(s) ELSE Value(t)
    BY <2>1, PermuteStep
  <2>3. val' = [val EXCEPT ![o] = val[s], ![s] = val[o]] /\ val[o] # Dead /\ val[s] # Dead
    BY <2>1, <2>2, AliveValue DEF val
  <2> QED BY <2>2, <2>3 DEF Abstract!moveAssign, Abstract!Alive, val
<1>7. ASSUME NEW o \in Objects, destroy(o)
      PROVE  IInv' /\ Abstract!destroy(o)
  <2>1. Alive(o) /\ heap' = Delete(heap, state_[o]) /\ state_' = [state_ EXCEPT ![o] = Dead]
    BY <1>7 DEF destroy
  <2>2. Released(o, heap')
    BY <2>1, DeleteFrees DEF Released
  <2>3. IInv' /\ \A t \in Objects : Value(t)' = IF t = o THEN Dead ELSE Value(t)
    BY <2>1, <2>2, ClearStep
  <2>4. val' = [val EXCEPT ![o] = Dead] /\ val[o] # Dead
    BY <2>1, <2>3, AliveValue DEF val
  <2> QED BY <2>3, <2>4 DEF Abstract!destroy, Abstract!Alive, val
<1> QED BY <1>1, <1>2, <1>3, <1>4, <1>5, <1>6, <1>7
        DEF Next, Abstract!Next, Abstract!Values

\* Every step preserves the invariant.
LEMMA NextIInv == IInv /\ [Next]_vars => IInv'
<1>1. CASE IInv /\ UNCHANGED vars
  BY <1>1 DEF vars, IInv, TypeOK, Ownership
<1> QED BY <1>1, StepLemma

\* The invariant holds in every behaviour.
LEMMA Inductive == Spec => []IInv
<1> QED BY InitIInv, NextIInv, PTL DEF Spec

\* A Status always holds nullptr or an address, and a block an error or nothing.
THEOREM StatusTypeOK == Spec => []TypeOK
<1>1. IInv => TypeOK
  BY DEF IInv
<1> QED BY <1>1, Inductive, PTL

\* Every heap block belongs to exactly one Status in every reachable state.
THEOREM StatusOwnership == Spec => []Ownership
<1>1. IInv => Ownership
  BY DEF IInv
<1> QED BY <1>1, Inductive, PTL

\* Status implements StatusValue: every constructor, assignment and destructor
\* acts on the values as the specification of values says.
THEOREM StatusRefinesValue == Spec => ValueSemantics
<1>1. Init => Abstract!Init
  BY DEF Init, Abstract!Init, Value
<1>2. IInv /\ [Next]_vars => [Abstract!Next]_val
  <2>1. CASE IInv /\ UNCHANGED vars
    BY <2>1 DEF vars, val, Value
  <2> QED BY <2>1, StepLemma
<1> QED BY <1>1, <1>2, Inductive, PTL DEF Spec, ValueSemantics, Abstract!Spec, val
=============================================================================
