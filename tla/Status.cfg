SPECIFICATION Spec
CONSTANTS
  Objects = {o1, o2, o3}
  Errors = {notFound, ioError}
  Ok = ok
  Dead = dead
  Addrs = {a1, a2, a3, a4}
  nullptr = null
  Garbage = garbage
INVARIANTS
  TypeOK
  Ownership
PROPERTY
  ValueSemantics
