---------------------------- MODULE StatusValue ----------------------------
(***************************************************************************)
(* What src/include/status.h promises its users: a Status is a value.      *)
(* Copies are independent of their source, a moved-from Status is ok, and  *)
(* move assignment exchanges two values.  Status is shown to implement     *)
(* this specification with pointers to heap blocks.                        *)
(***************************************************************************)
CONSTANTS
  Objects,   \* the places where a Status can be constructed
  Errors,    \* the errors: a code other than Ok and a message
  Ok,        \* the value of a successful Status
  Dead       \* no Status lives here

VARIABLE value   \* value[o]: the value of the Status at o

Values == Errors \union {Ok}

Init == value = [o \in Objects |-> Dead]

Alive(o) == value[o] # Dead

construct(o, v)  == ~Alive(o) /\ value' = [value EXCEPT ![o] = v]
copyAssign(o, s) == Alive(o) /\ Alive(s) /\ value' = [value EXCEPT ![o] = value[s]]
destroy(o)       == Alive(o) /\ value' = [value EXCEPT ![o] = Dead]

copyConstruct(o, s) == Alive(s) /\ construct(o, value[s])

moveConstruct(o, s) ==
  /\ ~Alive(o) /\ Alive(s)
  /\ value' = [value EXCEPT ![o] = value[s], ![s] = Ok]

moveAssign(o, s) ==
  /\ Alive(o) /\ Alive(s)
  /\ value' = [value EXCEPT ![o] = value[s], ![s] = value[o]]

Next ==
  \E o \in Objects :
    \/ \E v \in Values : construct(o, v)
    \/ destroy(o)
    \/ \E s \in Objects :
         copyConstruct(o, s) \/ copyAssign(o, s) \/ moveConstruct(o, s) \/ moveAssign(o, s)

Spec == Init /\ [][Next]_value
=============================================================================
