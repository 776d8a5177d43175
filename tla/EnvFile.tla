------------------------------ MODULE EnvFile ------------------------------
(***************************************************************************)
(* src/util/env.cc: WriteStringToFile and ReadFileToString, run by several *)
(* threads on the same names.  Every call of the Env, of a WritableFile or *)
(* of a SequentialFile is a step of its own and may fail.  The Env and its *)
(* files are abstract classes (src/include/env.h); they are modelled by    *)
(* what these two functions rely on: newWritableFile binds the name to a   *)
(* new file, a WritableFile may buffer what is appended until it is        *)
(* closed, and a SequentialFile returns an empty fragment at the end only. *)
(***************************************************************************)
EXTENDS Integers, Sequences, SequencesExt

CONSTANTS
  Names,      \* the file names
  Data,       \* the strings that are written, as sequences of bytes
  Writers,    \* the threads that call WriteStringToFile
  Readers,    \* the threads that call ReadFileToString
  BufferSize, \* s_buffer_size
  None,       \* no data
  MaxFiles    \* bound on the number of files that are created

ASSUME BufferAssumption == BufferSize \in Nat \ {0}
ASSUME DataAssumption ==
  /\ Data # {} /\ None \notin Data /\ MaxFiles \in Nat
  /\ \A d \in Data : d \in Seq(Range(d))
ASSUME ThreadAssumption == Writers \intersect Readers = {}

Threads == Writers \union Readers

VARIABLES
  dir,      \* dir[n]: the file the name n is bound to, 0 if there is none
  files,    \* files[f]: the contents of file f
  pc,       \* pc[t]: the next call of thread t
  name,     \* name[t]: the file name t works on
  data,     \* data[t]: the string t writes, or has read so far
  file,     \* file[t]: the file behind t's file object, 0 if it has none
  s,        \* s[t]: the Status of t's last call
  settled,  \* history: the contents n must have, None if writes overlapped
  alone,    \* history: alone[w]: no write of the same name overlapped w's
  written,  \* history: the data of the writes to n that returned ok
  litter,   \* history: a failed write to n could not delete its file
  expect,   \* history: settled as the read of r must find it
  quiet     \* history: nobody wrote n while r read it

fs     == <<dir, files>>
local  == <<pc, name, data, file, s>>
writes == <<settled, alone, written, litter>>
reads  == <<expect, quiet>>
vars   == <<fs, local, writes, reads>>

Bytes == UNION {Range(d) : d \in Data}

\* The types, and: a thread has a file object exactly while it makes calls on
\* one, so none is used before it is created and none is leaked.
TypeOK ==
  /\ dir \in [Names -> 0 .. Len(files)]
  /\ files \in Seq(Seq(Bytes))
  /\ pc \in [Threads -> {"idle", "newWritableFile", "append", "close", "deleteFile",
                         "newSequentialFile", "read"}]
  /\ name \in [Threads -> Names]
  /\ data \in [Threads -> Seq(Bytes)]
  /\ file \in [Threads -> 0 .. Len(files)]
  /\ s \in [Threads -> {"ok", "ioError", "notFound"}]
  /\ \A t \in Threads :
       file[t] # 0 <=> pc[t] \in {"append", "close", "deleteFile", "read"}

Init ==
  /\ dir = [n \in Names |-> 0]
  /\ files = <<>>
  /\ pc = [t \in Threads |-> "idle"]
  /\ name \in [Threads -> Names]
  /\ data = [t \in Threads |-> <<>>]
  /\ file = [t \in Threads |-> 0]
  /\ s = [t \in Threads |-> "ioError"]
  /\ settled = [n \in Names |-> None]
  /\ alone = [w \in Writers |-> FALSE]
  /\ written = [n \in Names |-> {}]
  /\ litter = [n \in Names |-> FALSE]
  /\ expect = [r \in Readers |-> None]
  /\ quiet = [r \in Readers |-> FALSE]

-----------------------------------------------------------------------------
Goto(t, l) == pc' = [pc EXCEPT ![t] = l]

\* The call returns st; the function goes on at l.
Result(t, st, l) == s' = [s EXCEPT ![t] = st] /\ Goto(t, l)

\* The function returns; its file object was deleted.
Return(t, st) == Result(t, st, "idle") /\ file' = [file EXCEPT ![t] = 0]

Writing(n) == {w \in Writers : pc[w] # "idle" /\ name[w] = n}

-----------------------------------------------------------------------------
(* WriteStringToFile, which calls DoWriteStringToFile without sync.        *)

WriteStringToFile(w, n, d) ==
  /\ pc[w] = "idle"
  /\ Goto(w, "newWritableFile")
  /\ name' = [name EXCEPT ![w] = n]
  /\ data' = [data EXCEPT ![w] = d]
  /\ settled' = [settled EXCEPT ![n] = None]
  /\ alone' = [v \in Writers |-> IF v = w THEN Writing(n) = {}
                                 ELSE alone[v] /\ v \notin Writing(n)]
  /\ LET disturbed == {r \in Readers : pc[r] # "idle" /\ name[r] = n}
     IN  /\ expect' = [r \in Readers |-> IF r \in disturbed THEN None ELSE expect[r]]
         /\ quiet' = [r \in Readers |-> quiet[r] /\ r \notin disturbed]
  /\ UNCHANGED <<fs, file, s, written, litter>>

\* Variant with a defect: the status of newWritableFile is not looked at.
newWritableFile_Unchecked(w) ==
  /\ pc[w] = "newWritableFile"
  /\ Result(w, "ioError", "append")
  /\ UNCHANGED <<fs, file, name, data, writes, reads>>

newWritableFile(w) ==
  /\ pc[w] = "newWritableFile"
  /\ \/ Return(w, "ioError") /\ UNCHANGED fs
     \/ /\ Len(files) < MaxFiles
        /\ files' = Append(files, <<>>)
        /\ dir' = [dir EXCEPT ![name[w]] = Len(files) + 1]
        /\ file' = [file EXCEPT ![w] = Len(files) + 1]
        /\ Result(w, "ok", "append")
  /\ UNCHANGED <<name, data, writes, reads>>

\* Some more of the data reaches the file.
Flush(w) ==
  \E n \in Len(files[file[w]]) .. Len(data[w]) :
    files' = [files EXCEPT ![file[w]] = SubSeq(data[w], 1, n)]

append(w) ==
  /\ pc[w] = "append"
  /\ Flush(w)
  /\ Result(w, "ok", "close") \/ Result(w, "ioError", "deleteFile")
  /\ UNCHANGED <<dir, name, data, file, writes, reads>>

\* The write returns ok: it settles the contents of the file unless another
\* write of the same name overlapped it.
Written(w) ==
  LET n == name[w]
  IN  /\ settled' = [settled EXCEPT ![n] = IF alone[w] THEN data[w] ELSE None]
      /\ written' = [written EXCEPT ![n] = @ \union {data[w]}]

\* close() writes what is still buffered, then the file object is deleted.
close(w) ==
  /\ pc[w] = "close"
  /\ \/ /\ files' = [files EXCEPT ![file[w]] = data[w]]
        /\ Return(w, "ok") /\ Written(w)
     \/ /\ Flush(w)
        /\ Result(w, "ioError", "deleteFile")
        /\ UNCHANGED <<file, settled, written>>
  /\ UNCHANGED <<dir, name, data, alone, litter, reads>>

\* Variant with a defect: a failed write leaves its file behind.
deleteFile_Forgotten(w) ==
  /\ pc[w] = "deleteFile"
  /\ Return(w, s[w])
  /\ UNCHANGED <<fs, name, data, writes, reads>>

\* The file object is deleted, then the file that has the name now; whether
\* that works is not looked at.
deleteFile(w) ==
  /\ pc[w] = "deleteFile"
  /\ \/ dir' = [dir EXCEPT ![name[w]] = 0] /\ UNCHANGED litter
     \/ litter' = [litter EXCEPT ![name[w]] = TRUE] /\ UNCHANGED dir
  /\ Return(w, s[w])
  /\ UNCHANGED <<files, name, data, settled, alone, written, reads>>

-----------------------------------------------------------------------------
(* ReadFileToString.                                                       *)

\* Variant with a defect: the caller's string is not cleared.
ReadFileToString_NoClear(r, n) ==
  /\ pc[r] = "idle"
  /\ Goto(r, "newSequentialFile")
  /\ name' = [name EXCEPT ![r] = n]
  /\ expect' = [expect EXCEPT ![r] = settled[n]]
  /\ quiet' = [quiet EXCEPT ![r] = Writing(n) = {} /\ ~litter[n]]
  /\ UNCHANGED <<fs, data, file, s, writes>>

ReadFileToString(r, n) ==
  /\ pc[r] = "idle"
  /\ Goto(r, "newSequentialFile")
  /\ name' = [name EXCEPT ![r] = n]
  /\ data' = [data EXCEPT ![r] = <<>>]
  /\ expect' = [expect EXCEPT ![r] = settled[n]]
  /\ quiet' = [quiet EXCEPT ![r] = Writing(n) = {} /\ ~litter[n]]
  /\ UNCHANGED <<fs, file, s, writes>>

newSequentialFile(r) ==
  /\ pc[r] = "newSequentialFile"
  /\ \/ Return(r, "ioError")
     \/ dir[name[r]] = 0 /\ Return(r, "notFound")
     \/ /\ dir[name[r]] # 0
        /\ file' = [file EXCEPT ![r] = dir[name[r]]]
        /\ Result(r, "ok", "read")
  /\ UNCHANGED <<fs, name, data, writes, reads>>

\* What the file has beyond the part that was read.
Rest(r) == SubSeq(files[file[r]], Len(data[r]) + 1, Len(files[file[r]]))

\* Variant with a defect: a fragment shorter than the buffer ends the loop.
read_ShortEnds(r) ==
  /\ pc[r] = "read"
  /\ \/ Return(r, "ioError") /\ UNCHANGED data
     \/ \E n \in 0 .. BufferSize :
          /\ n <= Len(Rest(r)) /\ (n = 0 => Rest(r) = <<>>)
          /\ data' = [data EXCEPT ![r] = @ \o SubSeq(Rest(r), 1, n)]
          /\ IF n < BufferSize THEN Return(r, "ok") ELSE Result(r, "ok", "read") /\ UNCHANGED file
  /\ UNCHANGED <<fs, name, writes, reads>>

\* Variant with a defect: at the end of the file the reader opens it again.
read_Reopens(r) ==
  /\ pc[r] = "read"
  /\ \/ Return(r, "ioError") /\ UNCHANGED data
     \/ \E n \in 0 .. BufferSize :
          /\ n <= Len(Rest(r)) /\ (n = 0 => Rest(r) = <<>>)
          /\ data' = [data EXCEPT ![r] = @ \o SubSeq(Rest(r), 1, n)]
          /\ IF n = 0 THEN Result(r, "ok", "newSequentialFile") /\ file' = [file EXCEPT ![r] = 0]
                      ELSE Result(r, "ok", "read") /\ UNCHANGED file
  /\ UNCHANGED <<fs, name, writes, reads>>

\* One iteration of the loop: a fragment of at most BufferSize bytes, empty at
\* the end of the file only.
read(r) ==
  /\ pc[r] = "read"
  /\ \/ Return(r, "ioError") /\ UNCHANGED data
     \/ \E n \in 0 .. BufferSize :
          /\ n <= Len(Rest(r)) /\ (n = 0 => Rest(r) = <<>>)
          /\ data' = [data EXCEPT ![r] = @ \o SubSeq(Rest(r), 1, n)]
          /\ IF n = 0 THEN Return(r, "ok") ELSE Result(r, "ok", "read") /\ UNCHANGED file
  /\ UNCHANGED <<fs, name, writes, reads>>

-----------------------------------------------------------------------------
WriterStep(w) == newWritableFile(w) \/ append(w) \/ close(w) \/ deleteFile(w)
ReaderStep(r) == newSequentialFile(r) \/ read(r)

Next ==
  \/ \E w \in Writers :
       WriterStep(w) \/ \E n \in Names, d \in Data : WriteStringToFile(w, n, d)
  \/ \E r \in Readers :
       ReaderStep(r) \/ \E n \in Names : ReadFileToString(r, n)

Spec == Init /\ [][Next]_vars

\* A thread that is inside a function keeps running.
FairSpec ==
  /\ Spec
  /\ \A w \in Writers : WF_vars(WriterStep(w))
  /\ \A r \in Readers : WF_vars(ReaderStep(r))

-----------------------------------------------------------------------------
(* Properties.                                                             *)

\* A write that returned ok and that no other write of the same name overlaps
\* or follows is what a later read finds: the read does not miss the file, and
\* returns the whole string whatever fragments it comes in (lines 25-32 and
\* 53-63).
WrittenIsRead ==
  \A r \in Readers : pc[r] = "idle" /\ expect[r] # None =>
    /\ s[r] # "notFound"
    /\ s[r] = "ok" => data[r] = expect[r]

\* A failed write leaves no torn file for others to find (lines 33-35): a read
\* that no write overlaps returns the complete string of a write that returned
\* ok, unless an earlier failed write could not delete its file.
NoTornRead ==
  \A r \in Readers : pc[r] = "idle" /\ s[r] = "ok" /\ quiet[r] =>
    data[r] \in written[name[r]]

\* However reads and writes overlap, a read never returns more than a prefix of
\* one string: pieces of two writes are not mixed, and what the caller's string
\* held before is gone (line 45), also when the read fails half way.
ReadsPrefix ==
  \A r \in Readers : \E d \in Data : IsPrefix(data[r], d)

\* Both functions return, although the loop of line 53 is only left at the end
\* of a file that may still grow, or by an error.
CallsReturn == \A t \in Threads : pc[t] # "idle" ~> pc[t] = "idle"
=============================================================================
