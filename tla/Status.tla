------------------------------- MODULE Status -------------------------------
(***************************************************************************)
(* src/include/status.h and status.cc: the result of every fallible call.  *)
(* An error Status owns a block of the heap with its code and message; a   *)
(* successful one has a null pointer.  The code and the message are one    *)
(* model value.  operator new[] may return any free address, the one that  *)
(* was deleted last included.                                              *)
(***************************************************************************)
CONSTANTS
  Objects,   \* the places where a Status can be constructed
  Errors,    \* the errors: a code other than Ok and a message
  Ok,        \* the value of a successful Status
  Dead,      \* no Status lives here
  Addrs,     \* the addresses operator new[] can return
  nullptr,
  Garbage    \* the contents of memory that is not allocated

ASSUME PointerAssumption ==
  nullptr \notin Addrs /\ Dead \notin Addrs /\ nullptr # Dead
ASSUME ValueAssumption ==
  Garbage \notin Errors /\ Ok \notin Errors /\ Dead \notin Errors /\ Ok # Dead

VARIABLES
  state_,    \* state_[o]: the pointer of the Status at o, or Dead
  heap       \* heap[a]: the error stored at a, or Garbage

vars == <<state_, heap>>

TypeOK ==
  /\ state_ \in [Objects -> Addrs \union {nullptr, Dead}]
  /\ heap \in [Addrs -> Errors \union {Garbage}]

Init ==
  /\ state_ = [o \in Objects |-> Dead]
  /\ heap = [a \in Addrs |-> Garbage]

-----------------------------------------------------------------------------
Alive(o) == state_[o] # Dead

\* delete[] p, which does nothing for a null pointer.
Delete(h, p) == [a \in Addrs |-> IF a = p THEN Garbage ELSE h[a]]

\* The Status at o gets a new block of heap h that holds e.
Allocate(o, h, e) ==
  \E a \in Addrs :
    /\ h[a] = Garbage
    /\ heap' = [h EXCEPT ![a] = e]
    /\ state_' = [state_ EXCEPT ![o] = a]

\* state_ of o becomes a null pointer or a copy (copyState) of what p points to.
CopyInto(o, h, p) ==
  \/ /\ p = nullptr
     /\ heap' = h
     /\ state_' = [state_ EXCEPT ![o] = nullptr]
  \/ p # nullptr /\ Allocate(o, h, h[p])

success(o) == ~Alive(o) /\ CopyInto(o, heap, nullptr)

\* Variant with a defect: the constructor lets the code Ok through.
error_AnyCode(o, e) == ~Alive(o) /\ \E c \in {e, Ok} : Allocate(o, heap, c)

\* notFound, corruption, notSupported, invalidArgument and ioError.
error(o, e) == ~Alive(o) /\ Allocate(o, heap, e)

copyConstruct(o, s) == ~Alive(o) /\ Alive(s) /\ CopyInto(o, heap, state_[s])

\* Variant with a defect: the old block is not deleted.
copyAssign_NoDelete(o, s) ==
  /\ Alive(o) /\ Alive(s)
  /\ IF state_[o] # state_[s] THEN CopyInto(o, heap, state_[s])
                              ELSE UNCHANGED vars

copyAssign(o, s) ==
  /\ Alive(o) /\ Alive(s)
  /\ IF state_[o] # state_[s]
       THEN CopyInto(o, Delete(heap, state_[o]), state_[s])
       ELSE UNCHANGED vars

\* Variant with a defect: the source keeps its pointer.
moveConstruct_Aliases(o, s) ==
  /\ ~Alive(o) /\ Alive(s)
  /\ state_' = [state_ EXCEPT ![o] = state_[s]]
  /\ UNCHANGED heap

moveConstruct(o, s) ==
  /\ ~Alive(o) /\ Alive(s)
  /\ state_' = [state_ EXCEPT ![o] = state_[s], ![s] = nullptr]
  /\ UNCHANGED heap

\* std::swap of the two pointers.
moveAssign(o, s) ==
  /\ Alive(o) /\ Alive(s)
  /\ state_' = [state_ EXCEPT ![o] = state_[s], ![s] = state_[o]]
  /\ UNCHANGED heap

destroy(o) ==
  /\ Alive(o)
  /\ heap' = Delete(heap, state_[o])
  /\ state_' = [state_ EXCEPT ![o] = Dead]

Next ==
  \E o \in Objects :
    \/ success(o)
    \/ \E e \in Errors : error(o, e)
    \/ \E s \in Objects :
         copyConstruct(o, s) \/ copyAssign(o, s) \/ moveConstruct(o, s) \/ moveAssign(o, s)
    \/ destroy(o)

Spec == Init /\ [][Next]_vars

-----------------------------------------------------------------------------
(* Properties.                                                             *)

\* Every block of the heap belongs to exactly one Status: nothing dangles, is
\* deleted twice or leaks, whatever sequence of copies, moves, self
\* assignments and destructions is executed (status.h:28-30, 84-107).
Ownership ==
  /\ \A o \in Objects : state_[o] \in Addrs => heap[state_[o]] # Garbage
  /\ \A o, s \in Objects : state_[o] \in Addrs /\ state_[o] = state_[s] => o = s
  /\ \A a \in Addrs : heap[a] # Garbage => \E o \in Objects : state_[o] = a

\* What ok(), code() and toString() let the user see of the Status at o.
Value(o) ==
  IF state_[o] \in Addrs THEN heap[state_[o]]
  ELSE IF state_[o] = nullptr THEN Ok ELSE Dead

\* A Status behaves like a value although its blocks move between objects and
\* addresses are used again.
Abstract == INSTANCE StatusValue WITH value <- [o \in Objects |-> Value(o)]
ValueSemantics == Abstract!Spec
=============================================================================
