----------------------------- MODULE EnvWrapper -----------------------------
(***************************************************************************)
(* src/include/env.h: a virtual call on a chain of EnvWrappers around an   *)
(* Env (the target), one dispatch at a time.  The target is some class     *)
(* derived from Env, of which the repository has none: it implements what  *)
(* is pure virtual and perhaps deleteFile and deleteDir, which Env itself  *)
(* implements.  Arguments are passed on unchanged and are left out.        *)
(***************************************************************************)
EXTENDS Integers

CONSTANTS
  Depth,   \* the number of wrappers
  None     \* no method

\* The methods that Env declares with = 0.
Pure ==
  {"newSequentialFile", "newRandomAccessFile", "newWritableFile", "newAppendableFile",
   "fileExists", "getChildren", "removeFile", "createDir", "removeDir", "getFileSize",
   "renameFile", "lockFile", "unlockFile", "schedule", "startThread",
   "getTestDirectory", "newLogger", "nowTimeMicros", "sleepForMicroseconds"}

\* The methods that Env implements itself, and what they call.
EnvCalls == [deleteFile |-> "removeFile", deleteDir |-> "removeDir"]

\* The methods that EnvWrapper overrides.
Forwarded == Pure

VARIABLES
  overrides,   \* what the target implements beyond Pure
  called,      \* the method the client called, None while there is no call
  at,          \* the object that executes: Depth .. 1 are wrappers, 0 the target
  method,      \* the method it executes
  ran          \* the method of the target's own class that was executed

vars == <<overrides, called, at, method, ran>>

Implements(o) == IF o = 0 THEN Pure \union overrides ELSE Forwarded

Init ==
  /\ overrides \in SUBSET DOMAIN EnvCalls
  /\ called = None /\ method = None /\ ran = None /\ at = Depth

Call(m) ==
  /\ method = None
  /\ called' = m /\ method' = m /\ at' = Depth /\ ran' = None
  /\ UNCHANGED overrides

\* The body of every method of EnvWrapper: return target_->method(...).
Forward ==
  /\ at > 0 /\ method \in Forwarded
  /\ at' = at - 1
  /\ UNCHANGED <<overrides, called, method, ran>>

\* Env::deleteFile and Env::deleteDir, inherited: a virtual call on the same object.
Default ==
  /\ method \in DOMAIN EnvCalls \ Implements(at)
  /\ method' = EnvCalls[method]
  /\ UNCHANGED <<overrides, called, at, ran>>

\* The target executes a method of its own, and all the calls return.
Execute ==
  /\ at = 0 /\ method \in Implements(0)
  /\ ran' = method /\ method' = None
  /\ UNCHANGED <<overrides, called, at>>

Next == (\E m \in Pure \union DOMAIN EnvCalls : Call(m)) \/ Forward \/ Default \/ Execute

Spec == Init /\ [][Next]_vars

-----------------------------------------------------------------------------
(* Properties.                                                             *)

\* What the target would have executed, had the client called it directly.
Direct(m) == IF m \in Implements(0) THEN m ELSE EnvCalls[m]

\* The comment on line 127 of env.h says that a wrapper forwards all calls to
\* the other Env: the same method of the target runs as without the wrapper.
ForwardsAll == ran # None => ran = Direct(called)
=============================================================================
