--------------------------- MODULE EnvFileProofs ---------------------------
(***************************************************************************)
(* Reads and writes of files overlap without harm, for any number of       *)
(* threads, names, strings and files and every size of the read buffer.    *)
(***************************************************************************)
EXTENDS EnvFile, TLAPS

Calls == {"idle", "newWritableFile", "append", "close", "deleteFile",
          "newSequentialFile", "read"}

\* A thread is inside one of the two functions.
Places ==
  /\ \A w \in Writers :
       pc[w] \in {"idle", "newWritableFile", "append", "close", "deleteFile"}
  /\ \A r \in Readers : pc[r] \in {"idle", "newSequentialFile", "read"}

HistoryOK ==
  /\ settled \in [Names -> Data \union {None}]
  /\ alone \in [Writers -> BOOLEAN]
  /\ written \in [Names -> SUBSET Data]
  /\ litter \in [Names -> BOOLEAN]
  /\ expect \in [Readers -> Data \union {None}]
  /\ quiet \in [Readers -> BOOLEAN]

\* A file that is being written has one writer, which works on the name the
\* file is bound to, and holds a part of that writer's string.
Owners ==
  /\ \A w \in Writers : pc[w] # "idle" => data[w] \in Data
  /\ \A w \in Writers : file[w] # 0 => IsPrefix(files[file[w]], data[w])
  /\ \A v, w \in Writers : file[w] # 0 /\ file[v] = file[w] => v = w
  /\ \A w \in Writers, n \in Names :
       file[w] # 0 /\ dir[n] = file[w] => name[w] = n
  /\ \A m, n \in Names : dir[n] # 0 /\ dir[m] = dir[n] => m = n

\* Every file holds a part of one string.
Contents == \A f \in DOMAIN files : \E d \in Data : IsPrefix(files[f], d)

\* While a write is the only one of its name, the name is bound to its file.
Alone ==
  \A w \in Writers : pc[w] # "idle" /\ alone[w] =>
    /\ \A v \in Writers : pc[v] # "idle" /\ name[v] = name[w] => v = w
    /\ file[w] # 0 => dir[name[w]] = file[w]

\* Contents that are settled are in the file, and nobody is writing it.
Settled ==
  \A n \in Names : settled[n] # None =>
    /\ \A w \in Writers : pc[w] # "idle" => name[w] # n
    /\ dir[n] # 0 /\ files[dir[n]] = settled[n]

\* A name is bound to a file that is being written, or that a write completed,
\* or that could not be deleted.
Bound ==
  \A n \in Names : dir[n] # 0 /\ ~litter[n] =>
    \/ \E w \in Writers : file[w] = dir[n]
    \/ files[dir[n]] \in written[n]

\* A reader has a part of its file.
ReaderPlace ==
  \A r \in Readers :
    /\ pc[r] = "newSequentialFile" => data[r] = <<>>
    /\ file[r] # 0 => IsPrefix(data[r], files[file[r]])
    /\ \E d \in Data : IsPrefix(data[r], d)

\* What a running read must find is still settled, and is in the file it reads.
Expected ==
  \A r \in Readers : pc[r] # "idle" /\ expect[r] # None =>
    /\ expect[r] = settled[name[r]]
    /\ file[r] # 0 => file[r] = dir[name[r]]

\* Nobody has begun to write what a running read without disturbance reads.
Undisturbed ==
  \A r \in Readers : pc[r] # "idle" /\ quiet[r] =>
    /\ \A w \in Writers : pc[w] # "idle" => name[w] # name[r]
    /\ ~litter[name[r]]
    /\ file[r] # 0 => file[r] = dir[name[r]]

IInv ==
  /\ TypeOK /\ Places /\ HistoryOK
  /\ Owners /\ Contents /\ Alone /\ Settled /\ Bound
  /\ ReaderPlace /\ Expected /\ Undisturbed
  /\ WrittenIsRead /\ NoTornRead

USE BufferAssumption, DataAssumption, ThreadAssumption

-----------------------------------------------------------------------------
(* Prefixes.                                                               *)

\* A prefix has the same elements.
LEMMA PrefixElements ==
  ASSUME NEW S, NEW a \in Seq(S), NEW b \in Seq(S)
  PROVE  IsPrefix(a, b) <=> Len(a) <= Len(b) /\ \A i \in 1 .. Len(a) : a[i] = b[i]
  BY DEF IsPrefix

\* The whole and the empty string are prefixes.
LEMMA PrefixSelf ==
  ASSUME NEW S, NEW a \in Seq(S)
  PROVE  IsPrefix(a, a) /\ IsPrefix(<<>>, a)
  BY DEF IsPrefix

\* A prefix of a prefix is a prefix.
LEMMA PrefixTransitive ==
  ASSUME NEW S, NEW a \in Seq(S), NEW b \in Seq(S), NEW c \in Seq(S),
         IsPrefix(a, b), IsPrefix(b, c)
  PROVE  IsPrefix(a, c)
  BY PrefixElements

\* What a part of a sequence consists of.
LEMMA Part ==
  ASSUME NEW S, NEW c \in Seq(S), NEW m \in 1 .. Len(c) + 1, NEW n \in m - 1 .. Len(c)
  PROVE  /\ SubSeq(c, m, n) \in Seq(S) /\ Len(SubSeq(c, m, n)) = n - m + 1
         /\ \A i \in 1 .. n - m + 1 : SubSeq(c, m, n)[i] = c[m + i - 1]
<1>1. SubSeq(c, m, n) \in Seq(S)
  OBVIOUS
<1>2. Len(SubSeq(c, m, n)) = n - m + 1
  OBVIOUS
<1>3. \A i \in 1 .. n - m + 1 : SubSeq(c, m, n)[i] = c[m + i - 1]
  OBVIOUS
<1> QED BY <1>1, <1>2, <1>3

\* A longer part of c contains every shorter one.
LEMMA PrefixOfPart ==
  ASSUME NEW S, NEW a \in Seq(S), NEW c \in Seq(S), IsPrefix(a, c),
         NEW n \in Len(a) .. Len(c)
  PROVE  /\ SubSeq(c, 1, n) \in Seq(S)
         /\ IsPrefix(a, SubSeq(c, 1, n)) /\ IsPrefix(SubSeq(c, 1, n), c)
<1>1. Len(a) \in Nat /\ Len(c) \in Nat /\ n \in 0 .. Len(c) /\ Len(a) <= n
  OBVIOUS
<1>2. PICK b : b = SubSeq(c, 1, n)
  OBVIOUS
<1>3. b \in Seq(S) /\ Len(b) = n /\ \A i \in 1 .. n : b[i] = c[i]
  BY <1>1, <1>2, Part
<1>4. IsPrefix(b, c)
  BY <1>1, <1>3, PrefixElements
<1>5. \A i \in 1 .. Len(a) : i \in 1 .. n /\ a[i] = c[i]
  BY <1>1, PrefixElements
<1>6. IsPrefix(a, b)
  BY <1>1, <1>3, <1>5, PrefixElements
<1> QED BY <1>2, <1>3, <1>4, <1>6

\* Adding the next n elements of b to a part a of b.
LEMMA PrefixGrows ==
  ASSUME NEW S, NEW a \in Seq(S), NEW b \in Seq(S), IsPrefix(a, b),
         NEW n \in 0 .. Len(SubSeq(b, Len(a) + 1, Len(b)))
  PROVE  LET c == a \o SubSeq(SubSeq(b, Len(a) + 1, Len(b)), 1, n)
         IN  c \in Seq(S) /\ IsPrefix(c, b)
<1>1. Len(a) \in Nat /\ Len(b) \in Nat /\ Len(a) <= Len(b)
  BY PrefixElements
<1>2. PICK rest : rest = SubSeq(b, Len(a) + 1, Len(b))
  OBVIOUS
<1>3. /\ rest \in Seq(S) /\ Len(rest) = Len(b) - Len(a)
      /\ \A i \in 1 .. Len(rest) : rest[i] = b[Len(a) + i]
  <2>1. Len(a) + 1 \in 1 .. Len(b) + 1 /\ Len(b) \in (Len(a) + 1) - 1 .. Len(b)
    BY <1>1
  <2>2. rest \in Seq(S) /\ Len(rest) = Len(b) - Len(a)
    BY <1>1, <1>2, <2>1
  <2>3. \A i \in 1 .. Len(b) - Len(a) : rest[i] = b[Len(a) + i]
    BY <1>1, <1>2, <2>1
  <2> QED BY <2>2, <2>3
<1>4. n \in 0 .. Len(rest)
  BY <1>2
<1>5. PICK more : more = SubSeq(rest, 1, n)
  OBVIOUS
<1>6. /\ more \in Seq(S) /\ Len(more) = n /\ n \in Nat /\ n <= Len(rest)
      /\ \A i \in 1 .. n : more[i] = b[Len(a) + i]
  <2>1. 1 \in 1 .. Len(rest) + 1 /\ n \in 1 - 1 .. Len(rest) /\ n \in Nat /\ n <= Len(rest)
    BY <1>3, <1>4
  <2>2. more \in Seq(S) /\ Len(more) = n
    BY <1>3, <1>5, <2>1
  <2>3. \A i \in 1 .. n : more[i] = rest[i] /\ i \in 1 .. Len(rest)
    BY <1>3, <1>5, <2>1
  <2> QED BY <1>3, <2>1, <2>2, <2>3
<1>c. PICK c : c = a \o more
  OBVIOUS
<1>7. c \in Seq(S) /\ Len(c) = Len(a) + n /\ Len(c) <= Len(b)
  <2>1. more \in Seq(S) /\ Len(more) = n /\ n \in Nat /\ n <= Len(b) - Len(a)
    BY <1>3, <1>6
  <2>2. c \in Seq(S)
    BY <1>c, <2>1
  <2>3. Len(c) = Len(a) + Len(more)
    <3>1. ASSUME NEW x \in Seq(S), NEW y \in Seq(S) PROVE Len(x \o y) = Len(x) + Len(y)
      OBVIOUS
    <3> QED BY <1>c, <2>1, <3>1
  <2> QED BY <1>1, <2>1, <2>2, <2>3
<1>8. ASSUME NEW i \in 1 .. Len(c) PROVE c[i] = b[i]
  <2>1. CASE i <= Len(a)
    <3>1. c[i] = a[i] /\ i \in 1 .. Len(a)
      BY <1>1, <1>6, <1>7, <1>c, <2>1
    <3> QED BY <3>1, PrefixElements
  <2>2. CASE ~(i <= Len(a))
    <3>1. PICK j \in 1 .. n : i = Len(a) + j
      <4>1. i - Len(a) \in 1 .. n /\ i = Len(a) + (i - Len(a))
        BY <1>1, <1>6, <1>7, <2>2
      <4> QED BY <4>1
    <3>2. c[i] = more[j]
      BY <1>1, <1>6, <1>7, <1>c, <3>1
    <3> QED BY <1>6, <3>1, <3>2
  <2> QED BY <2>1, <2>2
<1>9. IsPrefix(c, b)
  BY <1>7, <1>8, PrefixElements
<1> QED BY <1>2, <1>5, <1>7, <1>9, <1>c, Zenon

\* With nothing left the part is the whole.
LEMMA PrefixWhole ==
  ASSUME NEW S, NEW a \in Seq(S), NEW b \in Seq(S), IsPrefix(a, b),
         SubSeq(b, Len(a) + 1, Len(b)) = <<>>
  PROVE  a = b /\ a \o SubSeq(<<>>, 1, 0) = a
<1>1. Len(a) \in Nat /\ Len(b) \in Nat /\ Len(a) <= Len(b)
      /\ \A i \in 1 .. Len(a) : a[i] = b[i]
  BY PrefixElements
<1>2. ~(Len(a) < Len(b))
  <2> SUFFICES ASSUME Len(a) < Len(b) PROVE FALSE
    OBVIOUS
  <2>1. Len(SubSeq(b, Len(a) + 1, Len(b))) = Len(b) - Len(a)
    BY <1>1
  <2> QED BY <1>1, <2>1
<1>3. Len(a) = Len(b)
  BY <1>1, <1>2
<1>4. a = b
  BY <1>1, <1>3
<1>5. a \o SubSeq(<<>>, 1, 0) = a
  OBVIOUS
<1> QED BY <1>4, <1>5

-----------------------------------------------------------------------------
(* The invariant.                                                          *)

\* The strings that are written consist of bytes.
LEMMA DataSeq == Data \subseteq Seq(Bytes)
<1> SUFFICES ASSUME NEW d \in Data PROVE d \in Seq(Bytes)
  OBVIOUS
<1>1. d \in Seq(Range(d)) /\ Range(d) \subseteq Bytes
  BY DEF Bytes
<1> QED BY <1>1

\* At first there is no file and nobody calls anything.
LEMMA InitIInv == Init => IInv
<1> SUFFICES ASSUME Init PROVE IInv
  OBVIOUS
<1> USE DEF Init
<1>1. TypeOK
  BY DEF TypeOK
<1>2. Places /\ HistoryOK /\ Owners /\ Alone /\ Settled /\ Bound /\ Expected /\ Undisturbed
  BY DEF Places, HistoryOK, Owners, Alone, Settled, Bound, Expected, Undisturbed, Threads
<1>3. Contents
  BY DEF Contents
<1>4. ReaderPlace
  <2>1. PICK d \in Data : d \in Seq(Bytes)
    BY DataSeq
  <2>2. IsPrefix(<<>>, d)
    BY <2>1, PrefixSelf
  <2> QED BY <2>2 DEF ReaderPlace, Threads
<1>5. WrittenIsRead /\ NoTornRead
  BY DEF WrittenIsRead, NoTornRead, Threads
<1> QED BY <1>1, <1>2, <1>3, <1>4, <1>5 DEF IInv

\* The types of the variables that every call changes.
LEMMA Types ==
  ASSUME IInv
  PROVE  /\ pc \in [Threads -> Calls] /\ name \in [Threads -> Names]
         /\ data \in [Threads -> Seq(Bytes)] /\ file \in [Threads -> 0 .. Len(files)]
         /\ s \in [Threads -> {"ok", "ioError", "notFound"}]
         /\ dir \in [Names -> 0 .. Len(files)]
         /\ files \in Seq(Seq(Bytes)) /\ Len(files) \in Nat
         /\ Readers \subseteq Threads /\ Writers \subseteq Threads
         /\ \A w \in Writers : w \notin Readers
<1>1. pc \in [Threads -> Calls]
  BY DEF IInv, TypeOK, Calls
<1>2. files \in Seq(Seq(Bytes)) /\ Len(files) \in Nat
  BY DEF IInv, TypeOK
<1>3. Readers \subseteq Threads /\ Writers \subseteq Threads /\ \A w \in Writers : w \notin Readers
  BY DEF Threads
<1> QED BY <1>1, <1>2, <1>3 DEF IInv, TypeOK

\* A thread reads or writes, not both.
LEMMA ThreadSets ==
  /\ Readers \subseteq Threads /\ Writers \subseteq Threads
  /\ \A w \in Writers : w \notin Readers
  BY DEF Threads

\* A write begins: what it may disturb is forgotten by the histories.
LEMMA WriteStringToFileStep ==
  ASSUME IInv, NEW w \in Writers, NEW n \in Names, NEW d \in Data, WriteStringToFile(w, n, d)
  PROVE  IInv'
<1>1. /\ pc[w] = "idle" /\ file[w] = 0 /\ w \in Threads /\ w \notin Readers
      /\ pc \in [Threads -> Calls] /\ name \in [Threads -> Names]
      /\ data \in [Threads -> Seq(Bytes)] /\ Readers \subseteq Threads /\ Writers \subseteq Threads
  <2>1. pc[w] = "idle"
    BY DEF WriteStringToFile
  <2>2. file[w] = 0
    BY <2>1, Types DEF IInv, TypeOK
  <2> QED BY <2>1, <2>2, Types
<1>2. /\ pc' = [pc EXCEPT ![w] = "newWritableFile"]
      /\ name' = [name EXCEPT ![w] = n] /\ data' = [data EXCEPT ![w] = d]
      /\ settled' = [settled EXCEPT ![n] = None]
      /\ UNCHANGED <<dir, files, file, s, written, litter>>
  BY DEF WriteStringToFile, Goto, fs
<1>3. /\ \A t \in Threads : pc'[t] = IF t = w THEN "newWritableFile" ELSE pc[t]
      /\ \A t \in Threads : name'[t] = IF t = w THEN n ELSE name[t]
      /\ \A t \in Threads : data'[t] = IF t = w THEN d ELSE data[t]
  BY <1>1, <1>2
<1>4. /\ alone' \in [Writers -> BOOLEAN]
      /\ alone'[w] <=> \A v \in Writers : pc[v] # "idle" => name[v] # n
      /\ \A v \in Writers \ {w} : alone'[v] => alone[v] /\ (pc[v] # "idle" => name[v] # n)
  BY DEF WriteStringToFile, Writing, IInv, HistoryOK
<1>5. /\ expect' \in [Readers -> Data \union {None}] /\ quiet' \in [Readers -> BOOLEAN]
      /\ \A r \in Readers : expect'[r] # None =>
           expect'[r] = expect[r] /\ (pc[r] # "idle" => name[r] # n)
      /\ \A r \in Readers : quiet'[r] => quiet[r] /\ (pc[r] # "idle" => name[r] # n)
  BY DEF WriteStringToFile, IInv, HistoryOK
<1>6. TypeOK'
  BY <1>1, <1>2, <1>3, DataSeq DEF IInv, TypeOK
<1>7. Places' /\ HistoryOK'
  <2>1. Places'
    BY <1>1, <1>3 DEF IInv, Places
  <2>2. settled' \in [Names -> Data \union {None}]
    BY <1>2 DEF IInv, HistoryOK
  <2> QED BY <1>2, <1>4, <1>5, <2>1, <2>2 DEF IInv, HistoryOK
<1>8. Owners' /\ Contents' /\ Bound'
  BY <1>1, <1>2, <1>3 DEF IInv, Owners, Contents, Bound
<1>9. Alone'
  BY <1>1, <1>2, <1>3, <1>4 DEF IInv, Alone
<1>10. Settled'
  BY <1>1, <1>2, <1>3 DEF IInv, Settled, HistoryOK
<1>11. ReaderPlace'
  BY <1>1, <1>2, <1>3 DEF IInv, ReaderPlace
<1>12. Expected'
  BY <1>1, <1>2, <1>3, <1>5 DEF IInv, Expected, HistoryOK
<1>13. Undisturbed'
  BY <1>1, <1>2, <1>3, <1>5 DEF IInv, Undisturbed
<1>14. WrittenIsRead' /\ NoTornRead'
  BY <1>1, <1>2, <1>3, <1>5 DEF IInv, WrittenIsRead, NoTornRead
<1> QED BY <1>6, <1>7, <1>8, <1>9, <1>10, <1>11, <1>12, <1>13, <1>14 DEF IInv

\* The name is bound to a new, empty file; or there is no file and the function
\* returns.
LEMMA newWritableFileStep ==
  ASSUME IInv, NEW w \in Writers, newWritableFile(w)
  PROVE  IInv'
<1>1. pc[w] = "newWritableFile" /\ file[w] = 0 /\ data[w] \in Data /\ name[w] \in Names
  <2>1. pc[w] = "newWritableFile"
    BY DEF newWritableFile
  <2>2. w \in Threads
    BY ThreadSets
  <2>3. file[w] = 0 /\ name[w] \in Names
    BY <2>1, <2>2 DEF IInv, TypeOK
  <2> QED BY <2>1, <2>3 DEF IInv, Owners
<1>2. UNCHANGED <<name, data, settled, alone, written, litter, expect, quiet>>
  BY DEF newWritableFile, writes, reads
<1>3. CASE Return(w, "ioError") /\ UNCHANGED fs
  <2>1. /\ pc' = [pc EXCEPT ![w] = "idle"] /\ s' = [s EXCEPT ![w] = "ioError"]
        /\ file' = file /\ dir' = dir /\ files' = files
    BY <1>1, <1>3, Types DEF Return, Result, Goto, fs
  <2>2. /\ \A t \in Threads : pc'[t] = IF t = w THEN "idle" ELSE pc[t]
        /\ \A t \in Threads : s'[t] = IF t = w THEN "ioError" ELSE s[t]
    BY <2>1, Types
  <2>3. TypeOK'
    BY <1>1, <1>2, <2>1, <2>2, Types DEF IInv, TypeOK
  <2>4. Places' /\ HistoryOK' /\ Owners' /\ Contents' /\ Alone' /\ Settled' /\ Bound'
    <3>1. Places' /\ HistoryOK'
      BY <1>2, <2>1, <2>2, ThreadSets DEF IInv, Places, HistoryOK
    <3>2. Owners' /\ Contents' /\ Bound'
      BY <1>2, <2>1, <2>2, ThreadSets DEF IInv, Owners, Contents, Bound
    <3>3. Alone' /\ Settled'
      BY <1>2, <2>1, <2>2, ThreadSets DEF IInv, Alone, Settled
    <3> QED BY <3>1, <3>2, <3>3
  <2>5. ReaderPlace' /\ Expected' /\ Undisturbed' /\ WrittenIsRead' /\ NoTornRead'
    BY <1>2, <2>1, <2>2, ThreadSets
    DEF IInv, ReaderPlace, Expected, Undisturbed, WrittenIsRead, NoTornRead
  <2> QED BY <2>3, <2>4, <2>5 DEF IInv
<1>4. CASE /\ files' = Append(files, <<>>)
           /\ dir' = [dir EXCEPT ![name[w]] = Len(files) + 1]
           /\ file' = [file EXCEPT ![w] = Len(files) + 1]
           /\ Result(w, "ok", "append")
  <2>0. PICK f : f = Len(files) + 1
    OBVIOUS
  <2>1. /\ \A t \in Threads : pc'[t] = IF t = w THEN "append" ELSE pc[t]
        /\ \A t \in Threads : s'[t] = IF t = w THEN "ok" ELSE s[t]
    BY <1>4, Types DEF Result, Goto
  <2>2. /\ \A t \in Threads : file'[t] = IF t = w THEN f ELSE file[t]
        /\ \A n \in Names : dir'[n] = IF n = name[w] THEN f ELSE dir[n]
    BY <1>4, <2>0, Types
  <2>3. /\ files' \in Seq(Seq(Bytes)) /\ Len(files') = f /\ files'[f] = <<>>
        /\ \A g \in 1 .. Len(files) : files'[g] = files[g]
    BY <1>4, <2>0, Types
  <2>4. /\ f \in Nat /\ f # 0
        /\ \A t \in Threads : file[t] # f /\ (file[t] # 0 => file[t] \in 1 .. Len(files))
        /\ \A n \in Names : dir[n] # f /\ (dir[n] # 0 => dir[n] \in 1 .. Len(files))
    BY <2>0, Types
  <2>5. IsPrefix(<<>>, data[w])
    BY <1>1, DataSeq, PrefixSelf
  <2>6. TypeOK'
    <3>1. dir' \in [Names -> 0 .. Len(files')] /\ file' \in [Threads -> 0 .. Len(files')]
      BY <1>1, <1>4, <2>0, <2>3, Types
    <3>2. pc' \in [Threads -> Calls] /\ s' \in [Threads -> {"ok", "ioError", "notFound"}]
      BY <1>4, Types DEF Result, Goto, Calls
    <3>3. \A t \in Threads :
            file'[t] # 0 <=> pc'[t] \in {"append", "close", "deleteFile", "read"}
      BY <2>1, <2>2, <2>4 DEF IInv, TypeOK
    <3> QED BY <1>2, <2>3, <3>1, <3>2, <3>3, Types DEF TypeOK, Calls
  <2>7. Places' /\ HistoryOK'
    BY <1>2, <2>1, ThreadSets DEF IInv, Places, HistoryOK
  <2>w. /\ \A v \in Writers : /\ pc'[v] = IF v = w THEN "append" ELSE pc[v]
                              /\ file'[v] = IF v = w THEN f ELSE file[v]
                              /\ name'[v] = name[v] /\ data'[v] = data[v] /\ alone'[v] = alone[v]
                              /\ file[v] # f /\ (file[v] # 0 => file[v] \in 1 .. Len(files))
        /\ \A r \in Readers : /\ pc'[r] = pc[r] /\ file'[r] = file[r] /\ s'[r] = s[r]
                              /\ name'[r] = name[r] /\ data'[r] = data[r]
                              /\ expect'[r] = expect[r] /\ quiet'[r] = quiet[r]
                              /\ name[r] \in Names
                              /\ file[r] # 0 => file[r] \in 1 .. Len(files)
    <3>1. \A r \in Readers : r \in Threads /\ r # w
      BY ThreadSets
    <3>2. \A v \in Writers : v \in Threads
      BY ThreadSets
    <3>3. \A r \in Readers : name[r] \in Names
      BY <3>1, Types
    <3> QED BY <1>2, <2>1, <2>2, <2>4, <3>1, <3>2, <3>3
  <2>8. Owners'
    <3>1. \A v \in Writers : pc'[v] # "idle" => data'[v] \in Data
      BY <1>1, <2>w DEF IInv, Owners
    <3>2. \A v \in Writers : file'[v] # 0 => IsPrefix(files'[file'[v]], data'[v])
      BY <2>3, <2>5, <2>w DEF IInv, Owners
    <3>3. \A u, v \in Writers : file'[v] # 0 /\ file'[u] = file'[v] => u = v
      BY <2>w DEF IInv, Owners
    <3>4. \A v \in Writers, n \in Names : file'[v] # 0 /\ dir'[n] = file'[v] => name'[v] = n
      BY <2>2, <2>4, <2>w DEF IInv, Owners
    <3>5. \A m, n \in Names : dir'[n] # 0 /\ dir'[m] = dir'[n] => m = n
      BY <2>2, <2>4 DEF IInv, Owners
    <3> QED BY <3>1, <3>2, <3>3, <3>4, <3>5 DEF Owners
  <2>9. Contents'
    <3>1. \A g \in DOMAIN files' : g = f \/ g \in DOMAIN files
      BY <2>0, <2>3, Types
    <3>2. \A g \in DOMAIN files : files'[g] = files[g]
      <4>1. DOMAIN files = 1 .. Len(files)
        BY Types
      <4> QED BY <2>3, <4>1
    <3> QED BY <1>1, <2>3, <2>5, <3>1, <3>2 DEF IInv, Contents
  <2>10. Alone'
    <3> SUFFICES ASSUME NEW v \in Writers, pc'[v] # "idle", alone'[v]
                 PROVE  /\ \A u \in Writers : pc'[u] # "idle" /\ name'[u] = name'[v] => u = v
                        /\ file'[v] # 0 => dir'[name'[v]] = file'[v]
      BY DEF Alone
    <3>1. pc[v] # "idle" /\ alone[v] /\ name[v] \in Names
      BY <1>1, <2>w, ThreadSets, Types
    <3>2. \A u \in Writers : pc[u] # "idle" /\ name[u] = name[v] => u = v
      BY <3>1 DEF IInv, Alone
    <3>3. \A u \in Writers : pc'[u] # "idle" => pc[u] # "idle"
      BY <1>1, <2>w
    <3>4. CASE v = w
      BY <1>1, <2>2, <2>w, <3>2, <3>3, <3>4
    <3>5. CASE v # w
      <4>1. name[v] # name[w]
        BY <1>1, <3>2, <3>5
      <4>2. dir'[name[v]] = dir[name[v]] /\ file'[v] = file[v]
        BY <2>2, <2>w, <3>1, <3>5, <4>1
      <4> QED BY <2>w, <3>1, <3>2, <3>3, <4>2 DEF IInv, Alone
    <3> QED BY <3>4, <3>5
  <2>11. Settled'
    <3> SUFFICES ASSUME NEW n \in Names, settled'[n] # None
                 PROVE  /\ \A v \in Writers : pc'[v] # "idle" => name'[v] # n
                        /\ dir'[n] # 0 /\ files'[dir'[n]] = settled'[n]
      BY DEF Settled
    <3>1. /\ \A v \in Writers : pc[v] # "idle" => name[v] # n
          /\ dir[n] # 0 /\ files[dir[n]] = settled[n]
      BY <1>2 DEF IInv, Settled
    <3>2. name[w] # n /\ dir'[n] = dir[n] /\ dir[n] \in 1 .. Len(files)
      BY <1>1, <2>2, <2>4, <3>1
    <3> QED BY <1>1, <1>2, <2>3, <2>w, <3>1, <3>2, SMTT(30)
  <2>12. Bound'
    <3> SUFFICES ASSUME NEW n \in Names, dir'[n] # 0, ~litter'[n],
                        files'[dir'[n]] \notin written'[n]
                 PROVE  \E v \in Writers : file'[v] = dir'[n]
      BY DEF Bound
    <3>1. CASE n = name[w]
      BY <2>2, <2>w, <3>1
    <3>2. CASE n # name[w]
      <4>1. dir'[n] = dir[n] /\ dir[n] \in 1 .. Len(files) /\ dir[n] # 0
        BY <2>2, <2>4, <3>2
      <4>2. PICK v \in Writers : file[v] = dir[n]
        BY <1>2, <2>3, <4>1 DEF IInv, Bound
      <4> QED BY <1>1, <2>w, <4>1, <4>2
    <3> QED BY <3>1, <3>2
  <2>13. ReaderPlace'
    <3>1. \A r \in Readers : file[r] # 0 => files'[file[r]] = files[file[r]]
      BY <2>3, <2>w
    <3> QED BY <2>w, <3>1 DEF IInv, ReaderPlace
  <2>14. Expected'
    <3> SUFFICES ASSUME NEW r \in Readers, pc[r] # "idle", expect[r] # None
                 PROVE  /\ expect[r] = settled[name[r]]
                        /\ file[r] # 0 => file[r] = dir'[name[r]]
      BY <1>2, <2>w DEF Expected
    <3>1. expect[r] = settled[name[r]] /\ (file[r] # 0 => file[r] = dir[name[r]])
      BY DEF IInv, Expected
    <3>2. name[w] # name[r] /\ name[r] \in Names
      BY <1>1, <2>w, <3>1 DEF IInv, Settled
    <3> QED BY <2>2, <3>1, <3>2
  <2>15. Undisturbed'
    <3> SUFFICES ASSUME NEW r \in Readers, pc[r] # "idle", quiet[r]
                 PROVE  /\ \A v \in Writers : pc'[v] # "idle" => name[v] # name[r]
                        /\ ~litter[name[r]]
                        /\ file[r] # 0 => file[r] = dir'[name[r]]
      BY <1>2, <2>w DEF Undisturbed
    <3>1. /\ \A v \in Writers : pc[v] # "idle" => name[v] # name[r]
          /\ ~litter[name[r]] /\ (file[r] # 0 => file[r] = dir[name[r]])
      BY DEF IInv, Undisturbed
    <3>2. name[w] # name[r] /\ name[r] \in Names
      BY <1>1, <2>w, <3>1
    <3> QED BY <1>1, <2>2, <2>w, <3>1, <3>2
  <2>16. WrittenIsRead' /\ NoTornRead'
    BY <1>2, <2>w DEF IInv, WrittenIsRead, NoTornRead
  <2> QED BY <2>6, <2>7, <2>8, <2>9, <2>10, <2>11, <2>12, <2>13, <2>14, <2>15, <2>16 DEF IInv
<1> QED BY <1>3, <1>4 DEF newWritableFile

\* More of its data reaches the file of a writer: readers of the file keep a
\* part of it, and settled contents are in other files.
LEMMA FileGrows ==
  ASSUME IInv, NEW w \in Writers, file[w] # 0, NEW x \in Seq(Bytes),
         IsPrefix(files[file[w]], x), IsPrefix(x, data[w]),
         files' = [files EXCEPT ![file[w]] = x]
  PROVE  /\ files' \in Seq(Seq(Bytes)) /\ Len(files') = Len(files)
         /\ file[w] \in 1 .. Len(files) /\ files'[file[w]] = x
         /\ \A f \in 1 .. Len(files) : f # file[w] => files'[f] = files[f]
         /\ Contents'
         /\ \A r \in Readers : file[r] # 0 => IsPrefix(data[r], files'[file[r]])
         /\ \A n \in Names : settled[n] # None => files'[dir[n]] = settled[n]
<1>1. w \in Threads /\ file[w] \in 1 .. Len(files)
  BY Types
<1>2. /\ files' \in Seq(Seq(Bytes)) /\ Len(files') = Len(files) /\ files'[file[w]] = x
      /\ \A f \in 1 .. Len(files) : f # file[w] => files'[f] = files[f]
  BY <1>1, Types
<1>3. data[w] \in Data
  BY <1>1 DEF IInv, Owners, TypeOK
<1>4. Contents'
  <2>1. DOMAIN files = 1 .. Len(files) /\ DOMAIN files' = 1 .. Len(files)
    BY <1>2, Types
  <2> QED BY <1>2, <1>3, <2>1 DEF IInv, Contents
<1>5. ASSUME NEW r \in Readers, file[r] # 0
      PROVE  IsPrefix(data[r], files'[file[r]])
  <2>1. file[r] \in 1 .. Len(files) /\ data[r] \in Seq(Bytes) /\ files[file[r]] \in Seq(Bytes)
    BY <1>5, Types
  <2>2. IsPrefix(data[r], files[file[r]])
    BY <1>5 DEF IInv, ReaderPlace
  <2>3. CASE file[r] = file[w]
    BY <1>2, <2>1, <2>2, <2>3, PrefixTransitive
  <2>4. CASE file[r] # file[w]
    BY <1>2, <2>1, <2>2, <2>4
  <2> QED BY <2>3, <2>4
<1>6. ASSUME NEW n \in Names, settled[n] # None
      PROVE  files'[dir[n]] = settled[n]
  <2>1. pc[w] # "idle"
    BY <1>1 DEF IInv, TypeOK
  <2>2. name[w] # n /\ dir[n] # 0 /\ files[dir[n]] = settled[n]
    BY <1>6, <2>1 DEF IInv, Settled
  <2>3. dir[n] # file[w]
    BY <2>2 DEF IInv, Owners
  <2>4. dir[n] \in 1 .. Len(files)
    BY <2>2, Types
  <2> QED BY <1>2, <2>2, <2>3, <2>4
<1> QED BY <1>1, <1>2, <1>4, <1>5, <1>6

\* A call that flushes data and goes on: append, and a close that fails.
LEMMA FlushStep ==
  ASSUME IInv, NEW w \in Writers, pc[w] \in {"append", "close"},
         NEW st \in {"ok", "ioError"}, NEW l \in {"close", "deleteFile"},
         Flush(w), Result(w, st, l),
         UNCHANGED <<dir, name, data, file, writes, reads>>
  PROVE  IInv'
<1>0. UNCHANGED <<dir, name, data, file, settled, alone, written, litter, expect, quiet>>
  BY DEF writes, reads
<1>1. w \in Threads /\ file[w] # 0 /\ pc[w] # "idle"
  BY ThreadSets DEF IInv, TypeOK
<1>2. file[w] \in 1 .. Len(files) /\ data[w] \in Seq(Bytes) /\ files[file[w]] \in Seq(Bytes)
  BY <1>1, Types
<1>3. IsPrefix(files[file[w]], data[w]) /\ data[w] \in Data
  BY <1>1 DEF IInv, Owners
<1>4. PICK n \in Len(files[file[w]]) .. Len(data[w]) :
        files' = [files EXCEPT ![file[w]] = SubSeq(data[w], 1, n)]
  BY DEF Flush
<1>5. PICK x : x = SubSeq(data[w], 1, n)
  OBVIOUS
<1>6. x \in Seq(Bytes) /\ IsPrefix(files[file[w]], x) /\ IsPrefix(x, data[w])
  BY <1>2, <1>3, <1>4, <1>5, PrefixOfPart
<1>7. files' = [files EXCEPT ![file[w]] = x]
  BY <1>4, <1>5
<1>8. /\ files' \in Seq(Seq(Bytes)) /\ Len(files') = Len(files)
      /\ files'[file[w]] = x
      /\ \A f \in 1 .. Len(files) : f # file[w] => files'[f] = files[f]
      /\ Contents'
      /\ \A r \in Readers : file[r] # 0 => IsPrefix(data[r], files'[file[r]])
      /\ \A m \in Names : settled[m] # None => files'[dir[m]] = settled[m]
  BY <1>1, <1>6, <1>7, FileGrows
<1>9. /\ \A t \in Threads : pc'[t] = IF t = w THEN l ELSE pc[t]
      /\ \A r \in Readers : pc'[r] = pc[r] /\ s'[r] = s[r]
      /\ \A v \in Writers : pc'[v] # "idle" <=> pc[v] # "idle"
  <2>1. /\ \A t \in Threads : pc'[t] = IF t = w THEN l ELSE pc[t]
        /\ \A t \in Threads : s'[t] = IF t = w THEN st ELSE s[t]
    BY Types DEF Result, Goto
  <2> QED BY <1>1, <2>1, ThreadSets
<1>10. TypeOK'
  <2>1. pc' \in [Threads -> Calls] /\ s' \in [Threads -> {"ok", "ioError", "notFound"}]
    BY Types DEF Result, Goto, Calls
  <2>2. \A t \in Threads :
          file[t] # 0 <=> pc'[t] \in {"append", "close", "deleteFile", "read"}
    BY <1>1, <1>9 DEF IInv, TypeOK
  <2> QED BY <1>0, <1>8, <2>1, <2>2, Types DEF TypeOK, Calls
<1>11. Places' /\ HistoryOK'
  BY <1>0, <1>9, ThreadSets DEF IInv, Places, HistoryOK
<1>12. Owners'
  <2>1. \A v \in Writers : file[v] # 0 => IsPrefix(files'[file[v]], data[v])
    <3> SUFFICES ASSUME NEW v \in Writers, file[v] # 0
                 PROVE  IsPrefix(files'[file[v]], data[v])
      OBVIOUS
    <3>1. CASE v = w
      BY <1>6, <1>8, <3>1
    <3>2. CASE v # w
      <4>1. file[v] # file[w] /\ file[v] \in 1 .. Len(files)
        BY <3>2, Types DEF IInv, Owners
      <4> QED BY <1>8, <4>1 DEF IInv, Owners
    <3> QED BY <3>1, <3>2
  <2> QED BY <1>0, <1>9, <2>1 DEF IInv, Owners
<1>13. Alone' /\ Settled'
  BY <1>0, <1>8, <1>9 DEF IInv, Alone, Settled
<1>14. Bound'
  <2> SUFFICES ASSUME NEW m \in Names, dir[m] # 0, ~litter[m], files'[dir[m]] \notin written[m]
               PROVE  \E v \in Writers : file[v] = dir[m]
    BY <1>0 DEF Bound
  <2>1. CASE dir[m] = file[w]
    BY <2>1
  <2>2. CASE dir[m] # file[w]
    <3>1. files'[dir[m]] = files[dir[m]]
      BY <1>8, <2>2, Types, SMTT(30)
    <3> QED BY <3>1 DEF IInv, Bound
  <2> QED BY <2>1, <2>2
<1>15. ReaderPlace' /\ Expected' /\ Undisturbed'
  <2>1. ReaderPlace'
    BY <1>0, <1>8, <1>9 DEF IInv, ReaderPlace
  <2>2. Expected' /\ Undisturbed'
    BY <1>0, <1>9 DEF IInv, Expected, Undisturbed
  <2> QED BY <2>1, <2>2
<1>16. WrittenIsRead' /\ NoTornRead'
  BY <1>0, <1>9 DEF IInv, WrittenIsRead, NoTornRead
<1> QED BY <1>8, <1>10, <1>11, <1>12, <1>13, <1>14, <1>15, <1>16 DEF IInv

\* append may store any part of the writer's string.
LEMMA appendStep == ASSUME IInv, NEW w \in Writers, append(w) PROVE IInv'
<1>1. /\ pc[w] \in {"append", "close"} /\ Flush(w)
      /\ UNCHANGED <<dir, name, data, file, writes, reads>>
  BY DEF append
<1>2. CASE Result(w, "ok", "close")
  BY <1>1, <1>2, FlushStep
<1>3. CASE Result(w, "ioError", "deleteFile")
  BY <1>1, <1>3, FlushStep
<1> QED BY <1>2, <1>3 DEF append

\* The whole string is in the file when close succeeds.
LEMMA closeStep == ASSUME IInv, NEW w \in Writers, close(w) PROVE IInv'
<1>1. w \in Threads /\ pc[w] = "close" /\ file[w] # 0
  BY ThreadSets DEF close, IInv, TypeOK
<1>2. UNCHANGED <<dir, name, data, alone, litter, expect, quiet>>
  BY DEF close, reads
<1>3. CASE /\ Flush(w) /\ Result(w, "ioError", "deleteFile")
           /\ UNCHANGED <<file, settled, written>>
  BY <1>1, <1>2, <1>3, FlushStep DEF writes, reads
<1>4. CASE /\ files' = [files EXCEPT ![file[w]] = data[w]]
           /\ Return(w, "ok") /\ Written(w)
  <2>1. data[w] \in Seq(Bytes) /\ data[w] \in Data /\ name[w] \in Names
        /\ IsPrefix(files[file[w]], data[w]) /\ IsPrefix(data[w], data[w])
    <3>1. data[w] \in Seq(Bytes) /\ name[w] \in Names
      BY <1>1, Types
    <3>2. data[w] \in Data /\ IsPrefix(files[file[w]], data[w])
      BY <1>1 DEF IInv, Owners
    <3> QED BY <3>1, <3>2, PrefixSelf
  <2>2. /\ files' \in Seq(Seq(Bytes)) /\ Len(files') = Len(files)
        /\ files'[file[w]] = data[w]
        /\ \A f \in 1 .. Len(files) : f # file[w] => files'[f] = files[f]
        /\ Contents'
        /\ \A r \in Readers : file[r] # 0 => IsPrefix(data[r], files'[file[r]])
        /\ \A m \in Names : settled[m] # None => files'[dir[m]] = settled[m]
    BY <1>1, <1>4, <2>1, FileGrows
  <2>3. /\ \A t \in Threads : pc'[t] = IF t = w THEN "idle" ELSE pc[t]
        /\ \A t \in Threads : file'[t] = IF t = w THEN 0 ELSE file[t]
        /\ \A t \in Threads : s'[t] = IF t = w THEN "ok" ELSE s[t]
    BY <1>4, Types DEF Return, Result, Goto
  <2>4. /\ \A r \in Readers : pc'[r] = pc[r] /\ s'[r] = s[r] /\ file'[r] = file[r]
        /\ \A v \in Writers : pc'[v] # "idle" => v # w /\ pc[v] # "idle" /\ pc'[v] = pc[v]
        /\ \A v \in Writers : file'[v] # 0 => v # w /\ file'[v] = file[v]
        /\ \A v \in Writers : v # w => file'[v] = file[v]
    BY <2>3, ThreadSets
  <2>5. /\ settled' = [settled EXCEPT ![name[w]] = IF alone[w] THEN data[w] ELSE None]
        /\ written' = [written EXCEPT ![name[w]] = @ \union {data[w]}]
    BY <1>4 DEF Written
  <2>6. /\ settled' \in [Names -> Data \union {None}] /\ written' \in [Names -> SUBSET Data]
        /\ settled'[name[w]] = IF alone[w] THEN data[w] ELSE None
        /\ \A n \in Names : n # name[w] => settled'[n] = settled[n]
        /\ \A n \in Names : written[n] \subseteq written'[n]
        /\ data[w] \in written'[name[w]]
    BY <2>1, <2>5 DEF IInv, HistoryOK
  <2>7. TypeOK'
    <3>1. /\ pc' \in [Threads -> Calls] /\ s' \in [Threads -> {"ok", "ioError", "notFound"}]
          /\ file' \in [Threads -> 0 .. Len(files')]
      BY <1>4, <2>2, Types DEF Return, Result, Goto, Calls
    <3>2. \A t \in Threads :
            file'[t] # 0 <=> pc'[t] \in {"append", "close", "deleteFile", "read"}
      BY <2>3 DEF IInv, TypeOK
    <3> QED BY <1>2, <2>2, <3>1, <3>2, Types DEF TypeOK, Calls
  <2>8. Places' /\ HistoryOK'
    BY <1>2, <2>3, <2>6, ThreadSets DEF IInv, Places, HistoryOK
  <2>9. Owners'
    <3>1. \A v \in Writers : file'[v] # 0 => IsPrefix(files'[file'[v]], data[v])
      <4> SUFFICES ASSUME NEW v \in Writers, file'[v] # 0
                   PROVE  IsPrefix(files'[file'[v]], data[v])
        OBVIOUS
      <4>1. v # w /\ file'[v] = file[v] /\ file[v] # 0
        BY <2>4
      <4>2. file[v] # file[w] /\ file[v] \in 1 .. Len(files)
        BY <4>1, Types DEF IInv, Owners
      <4> QED BY <2>2, <4>1, <4>2 DEF IInv, Owners
    <3> QED BY <1>2, <2>4, <3>1 DEF IInv, Owners
  <2>10. Alone'
    BY <1>2, <2>4 DEF IInv, Alone
  <2>11. Settled'
    <3> SUFFICES ASSUME NEW n \in Names, settled'[n] # None
                 PROVE  /\ \A v \in Writers : pc'[v] # "idle" => name[v] # n
                        /\ dir[n] # 0 /\ files'[dir[n]] = settled'[n]
      BY <1>2 DEF Settled
    <3>1. CASE n = name[w]
      <4>1. alone[w] /\ settled'[n] = data[w]
        BY <2>6, <3>1
      <4>2. dir[n] = file[w] /\ \A v \in Writers : pc[v] # "idle" /\ name[v] = n => v = w
        BY <1>1, <3>1, <4>1 DEF IInv, Alone
      <4> QED BY <1>1, <2>2, <2>4, <4>1, <4>2
    <3>2. CASE n # name[w]
      <4>1. settled'[n] = settled[n]
        BY <2>6, <3>2
      <4> QED BY <2>2, <2>4, <4>1 DEF IInv, Settled
    <3> QED BY <3>1, <3>2
  <2>12. Bound'
    <3> SUFFICES ASSUME NEW n \in Names, dir[n] # 0, ~litter[n],
                        files'[dir[n]] \notin written'[n]
                 PROVE  \E v \in Writers : file'[v] = dir[n]
      BY <1>2 DEF Bound
    <3>1. dir[n] # file[w]
      <4> SUFFICES ASSUME dir[n] = file[w] PROVE FALSE
        OBVIOUS
      <4>1. name[w] = n
        BY <1>1 DEF IInv, Owners
      <4> QED BY <2>2, <2>6, <4>1
    <3>2. files'[dir[n]] = files[dir[n]]
      BY <2>2, <3>1, Types
    <3>3. PICK v \in Writers : file[v] = dir[n]
      BY <2>6, <3>2 DEF IInv, Bound
    <3> QED BY <2>4, <3>1, <3>3
  <2>13. ReaderPlace'
    BY <1>2, <2>2, <2>4 DEF IInv, ReaderPlace
  <2>14. Expected'
    <3> SUFFICES ASSUME NEW r \in Readers, pc[r] # "idle", expect[r] # None
                 PROVE  /\ expect[r] = settled'[name[r]]
                        /\ file[r] # 0 => file[r] = dir[name[r]]
      BY <1>2, <2>4 DEF Expected
    <3>1. expect[r] = settled[name[r]] /\ (file[r] # 0 => file[r] = dir[name[r]])
      BY DEF IInv, Expected
    <3>2. name[r] \in Names
      BY Types
    <3>3. name[w] # name[r]
      BY <1>1, <3>1, <3>2 DEF IInv, Settled
    <3> QED BY <2>6, <3>1, <3>2, <3>3
  <2>15. Undisturbed'
    BY <1>2, <2>4 DEF IInv, Undisturbed
  <2>16. WrittenIsRead'
    BY <1>2, <2>4 DEF IInv, WrittenIsRead
  <2>17. NoTornRead'
    <3>1. \A r \in Readers : name[r] \in Names
      BY Types
    <3> QED BY <1>2, <2>4, <2>6, <3>1 DEF IInv, NoTornRead
  <2> QED BY <2>2, <2>7, <2>8, <2>9, <2>10, <2>11, <2>12, <2>13, <2>14, <2>15, <2>16, <2>17
          DEF IInv
<1> QED BY <1>3, <1>4 DEF close

\* A write that failed unbinds the name, or leaves litter.
LEMMA deleteFileStep == ASSUME IInv, NEW w \in Writers, deleteFile(w) PROVE IInv'
<1>1. w \in Threads /\ pc[w] = "deleteFile" /\ file[w] # 0 /\ name[w] \in Names
  BY ThreadSets DEF deleteFile, IInv, TypeOK
<1>2. /\ UNCHANGED <<files, name, data, settled, alone, written, expect, quiet>>
      /\ Return(w, s[w])
  BY DEF deleteFile, reads
<1>3. /\ dir' \in [Names -> 0 .. Len(files)] /\ litter' \in [Names -> BOOLEAN]
      /\ \A n \in Names : n # name[w] => dir'[n] = dir[n] /\ litter'[n] = litter[n]
      /\ dir'[name[w]] = 0 \/ litter'[name[w]]
      /\ \A n \in Names : dir'[n] # 0 => dir'[n] = dir[n]
  <2>1. dir \in [Names -> 0 .. Len(files)] /\ litter \in [Names -> BOOLEAN] /\ Len(files) \in Nat
    BY Types DEF IInv, HistoryOK
  <2>2. CASE dir' = [dir EXCEPT ![name[w]] = 0] /\ UNCHANGED litter
    BY <1>1, <2>1, <2>2
  <2>3. CASE litter' = [litter EXCEPT ![name[w]] = TRUE] /\ UNCHANGED dir
    BY <1>1, <2>1, <2>3
  <2> QED BY <2>2, <2>3 DEF deleteFile
<1>4. /\ \A t \in Threads : pc'[t] = IF t = w THEN "idle" ELSE pc[t]
      /\ \A t \in Threads : file'[t] = IF t = w THEN 0 ELSE file[t]
      /\ \A t \in Threads : s'[t] = s[t]
  BY <1>2, Types DEF Return, Result, Goto
<1>5. /\ \A r \in Readers : pc'[r] = pc[r] /\ s'[r] = s[r] /\ file'[r] = file[r]
      /\ \A v \in Writers : pc'[v] # "idle" => v # w /\ pc[v] # "idle" /\ pc'[v] = pc[v]
      /\ \A v \in Writers : file'[v] # 0 => v # w /\ file'[v] = file[v]
      /\ \A v \in Writers : v # w => file'[v] = file[v]
  BY <1>4, ThreadSets
<1>6. TypeOK'
  <2>1. /\ pc' \in [Threads -> Calls] /\ s' \in [Threads -> {"ok", "ioError", "notFound"}]
        /\ file' \in [Threads -> 0 .. Len(files)]
    BY <1>1, <1>2, Types DEF Return, Result, Goto, Calls
  <2>2. \A t \in Threads :
          file'[t] # 0 <=> pc'[t] \in {"append", "close", "deleteFile", "read"}
    BY <1>4 DEF IInv, TypeOK
  <2> QED BY <1>2, <1>3, <2>1, <2>2, Types DEF TypeOK, Calls
<1>7. Places' /\ HistoryOK'
  BY <1>2, <1>3, <1>4, ThreadSets DEF IInv, Places, HistoryOK
<1>8. Owners' /\ Contents'
  <2>1. \A v \in Writers : pc'[v] # "idle" => data[v] \in Data
    BY <1>5 DEF IInv, Owners
  <2>2. \A v \in Writers : file'[v] # 0 => IsPrefix(files[file'[v]], data[v])
    BY <1>5 DEF IInv, Owners
  <2>3. \A u, v \in Writers : file'[v] # 0 /\ file'[u] = file'[v] => u = v
    BY <1>5 DEF IInv, Owners
  <2>4. \A v \in Writers, n \in Names : file'[v] # 0 /\ dir'[n] = file'[v] => name[v] = n
    BY <1>3, <1>5 DEF IInv, Owners
  <2>5. \A m, n \in Names : dir'[n] # 0 /\ dir'[m] = dir'[n] => m = n
    BY <1>3 DEF IInv, Owners
  <2> QED BY <1>2, <2>1, <2>2, <2>3, <2>4, <2>5 DEF IInv, Owners, Contents
<1>9. Alone'
  <2> SUFFICES ASSUME NEW v \in Writers, pc'[v] # "idle", alone[v]
               PROVE  /\ \A u \in Writers : pc'[u] # "idle" /\ name[u] = name[v] => u = v
                      /\ file'[v] # 0 => dir'[name[v]] = file'[v]
    BY <1>2 DEF Alone
  <2>1. v # w /\ pc[v] # "idle" /\ name[v] \in Names
    BY <1>5, ThreadSets, Types
  <2>2. /\ \A u \in Writers : pc[u] # "idle" /\ name[u] = name[v] => u = v
        /\ file[v] # 0 => dir[name[v]] = file[v]
    BY <2>1 DEF IInv, Alone
  <2>3. name[v] # name[w]
    BY <1>1, <2>1, <2>2
  <2> QED BY <1>3, <1>5, <2>1, <2>2, <2>3
<1>10. Settled'
  <2> SUFFICES ASSUME NEW n \in Names, settled[n] # None
               PROVE  /\ \A v \in Writers : pc'[v] # "idle" => name[v] # n
                      /\ dir'[n] # 0 /\ files[dir'[n]] = settled[n]
    BY <1>2 DEF Settled
  <2>1. name[w] # n
    BY <1>1 DEF IInv, Settled
  <2> QED BY <1>3, <1>5, <2>1 DEF IInv, Settled
<1>11. Bound'
  <2> SUFFICES ASSUME NEW n \in Names, dir'[n] # 0, ~litter'[n], files[dir'[n]] \notin written[n]
               PROVE  \E v \in Writers : file'[v] = dir'[n]
    BY <1>2 DEF Bound
  <2>1. n # name[w] /\ dir'[n] = dir[n] /\ ~litter[n]
    BY <1>3
  <2>2. PICK v \in Writers : file[v] = dir[n]
    BY <2>1 DEF IInv, Bound
  <2>3. v # w
    BY <1>1, <2>1, <2>2 DEF IInv, Owners
  <2> QED BY <1>5, <2>1, <2>2, <2>3
<1>12. ReaderPlace'
  BY <1>2, <1>5 DEF IInv, ReaderPlace
<1>13. Expected'
  <2> SUFFICES ASSUME NEW r \in Readers, pc[r] # "idle", expect[r] # None
               PROVE  /\ expect[r] = settled[name[r]]
                      /\ file[r] # 0 => file[r] = dir'[name[r]]
    BY <1>2, <1>5 DEF Expected
  <2>1. expect[r] = settled[name[r]] /\ (file[r] # 0 => file[r] = dir[name[r]])
    BY DEF IInv, Expected
  <2>2. name[r] \in Names
    BY Types
  <2>3. name[w] # name[r]
    BY <1>1, <2>1, <2>2 DEF IInv, Settled
  <2> QED BY <1>3, <2>1, <2>2, <2>3
<1>14. Undisturbed'
  <2> SUFFICES ASSUME NEW r \in Readers, pc[r] # "idle", quiet[r]
               PROVE  /\ \A v \in Writers : pc'[v] # "idle" => name[v] # name[r]
                      /\ ~litter'[name[r]]
                      /\ file[r] # 0 => file[r] = dir'[name[r]]
    BY <1>2, <1>5 DEF Undisturbed
  <2>1. /\ \A v \in Writers : pc[v] # "idle" => name[v] # name[r]
        /\ ~litter[name[r]] /\ (file[r] # 0 => file[r] = dir[name[r]])
    BY DEF IInv, Undisturbed
  <2>2. name[w] # name[r] /\ name[r] \in Names
    BY <1>1, <2>1, Types
  <2> QED BY <1>3, <1>5, <2>1, <2>2
<1>15. WrittenIsRead' /\ NoTornRead'
  BY <1>2, <1>5 DEF IInv, WrittenIsRead, NoTornRead
<1> QED BY <1>6, <1>7, <1>8, <1>9, <1>10, <1>11, <1>12, <1>13, <1>14, <1>15 DEF IInv

\* What the steps of readers leave alone, and the part of the invariant that
\* stays with it.
LEMMA ReaderStepKeeps ==
  ASSUME IInv, NEW r \in Readers,
         \A t \in Threads \ {r} : /\ pc'[t] = pc[t] /\ name'[t] = name[t]
                                  /\ data'[t] = data[t] /\ file'[t] = file[t] /\ s'[t] = s[t],
         \A t \in Readers \ {r} : expect'[t] = expect[t] /\ quiet'[t] = quiet[t],
         UNCHANGED <<dir, files, settled, alone, written, litter>>
  PROVE  /\ Owners' /\ Contents' /\ Alone' /\ Settled' /\ Bound'
         /\ \A w \in Writers : pc'[w] = pc[w] /\ name'[w] = name[w]
         /\ \A t \in Readers : t # r =>
              /\ pc'[t] = pc[t] /\ name'[t] = name[t] /\ data'[t] = data[t]
              /\ file'[t] = file[t] /\ s'[t] = s[t]
              /\ expect'[t] = expect[t] /\ quiet'[t] = quiet[t]
<1>1. \A w \in Writers : /\ pc'[w] = pc[w] /\ name'[w] = name[w]
                         /\ data'[w] = data[w] /\ file'[w] = file[w]
  BY ThreadSets
<1>2. Owners' /\ Contents' /\ Bound'
  BY <1>1 DEF IInv, Owners, Contents, Bound
<1>3. Alone' /\ Settled'
  BY <1>1 DEF IInv, Alone, Settled
<1> QED BY <1>1, <1>2, <1>3, ThreadSets

\* A read begins with an empty string.
LEMMA ReadFileToStringStep ==
  ASSUME IInv, NEW r \in Readers, NEW n \in Names, ReadFileToString(r, n)
  PROVE  IInv'
<1>1. r \in Threads /\ pc[r] = "idle" /\ file[r] = 0
  BY ThreadSets DEF ReadFileToString, IInv, TypeOK
<1>2. /\ pc' = [pc EXCEPT ![r] = "newSequentialFile"] /\ name' = [name EXCEPT ![r] = n]
      /\ data' = [data EXCEPT ![r] = <<>>] /\ expect' = [expect EXCEPT ![r] = settled[n]]
      /\ quiet' = [quiet EXCEPT ![r] = Writing(n) = {} /\ ~litter[n]]
      /\ UNCHANGED <<dir, files, file, s, settled, alone, written, litter>>
  BY DEF ReadFileToString, Goto, fs, writes
<1>3. /\ \A t \in Threads \ {r} : pc'[t] = pc[t] /\ name'[t] = name[t] /\ data'[t] = data[t]
      /\ pc'[r] = "newSequentialFile" /\ name'[r] = n /\ data'[r] = <<>>
  BY <1>1, <1>2, Types
<1>4. /\ \A t \in Readers \ {r} : expect'[t] = expect[t] /\ quiet'[t] = quiet[t]
      /\ expect'[r] = settled[n]
      /\ quiet'[r] => ~litter[n] /\ \A w \in Writers : pc[w] # "idle" => name[w] # n
      /\ expect' \in [Readers -> Data \union {None}] /\ quiet' \in [Readers -> BOOLEAN]
  BY <1>2 DEF IInv, HistoryOK, Writing
<1>5. /\ Owners' /\ Contents' /\ Alone' /\ Settled' /\ Bound'
      /\ \A w \in Writers : pc'[w] = pc[w] /\ name'[w] = name[w]
      /\ \A t \in Readers : t # r =>
           /\ pc'[t] = pc[t] /\ name'[t] = name[t] /\ data'[t] = data[t]
           /\ file'[t] = file[t] /\ s'[t] = s[t]
           /\ expect'[t] = expect[t] /\ quiet'[t] = quiet[t]
  BY <1>2, <1>3, <1>4, ReaderStepKeeps
<1>6. TypeOK'
  <2>1. <<>> \in Seq(Bytes)
    OBVIOUS
  <2>2. /\ pc' \in [Threads -> Calls] /\ name' \in [Threads -> Names]
        /\ data' \in [Threads -> Seq(Bytes)]
    BY <1>1, <1>2, <2>1, Types DEF Calls
  <2>3. \A t \in Threads :
          file[t] # 0 <=> pc'[t] \in {"append", "close", "deleteFile", "read"}
    BY <1>1, <1>3 DEF IInv, TypeOK
  <2> QED BY <1>2, <2>2, <2>3, Types DEF TypeOK, Calls
<1>7. Places' /\ HistoryOK'
  BY <1>2, <1>3, <1>4, <1>5 DEF IInv, Places, HistoryOK
<1>8. ReaderPlace'
  <2>1. PICK d \in Data : d \in Seq(Bytes)
    BY DataSeq
  <2>2. IsPrefix(<<>>, d)
    BY <2>1, PrefixSelf
  <2> QED BY <1>1, <1>2, <1>3, <1>5, <2>2 DEF IInv, ReaderPlace
<1>9. Expected'
  BY <1>1, <1>2, <1>3, <1>4, <1>5 DEF IInv, Expected
<1>10. Undisturbed'
  BY <1>1, <1>2, <1>3, <1>4, <1>5 DEF IInv, Undisturbed
<1>11. WrittenIsRead' /\ NoTornRead'
  BY <1>2, <1>3, <1>5 DEF IInv, WrittenIsRead, NoTornRead
<1> QED BY <1>5, <1>6, <1>7, <1>8, <1>9, <1>10, <1>11 DEF IInv

\* The reader gets the file that the name is bound to.
LEMMA newSequentialFileStep ==
  ASSUME IInv, NEW r \in Readers, newSequentialFile(r)
  PROVE  IInv'
<1>1. r \in Threads /\ pc[r] = "newSequentialFile" /\ file[r] = 0 /\ name[r] \in Names
  BY ThreadSets DEF newSequentialFile, IInv, TypeOK
<1>2. UNCHANGED <<dir, files, name, data, settled, alone, written, litter, expect, quiet>>
  BY DEF newSequentialFile, fs, writes, reads
<1>3. PICK l \in {"idle", "read"}, st \in {"ok", "ioError", "notFound"}, f \in 0 .. Len(files) :
        /\ pc' = [pc EXCEPT ![r] = l] /\ s' = [s EXCEPT ![r] = st]
        /\ file' = [file EXCEPT ![r] = f]
        /\ \/ l = "idle" /\ f = 0 /\ st = "ioError"
           \/ l = "idle" /\ f = 0 /\ st = "notFound" /\ dir[name[r]] = 0
           \/ l = "read" /\ f # 0 /\ f = dir[name[r]]
  <2>1. 0 \in 0 .. Len(files) /\ dir[name[r]] \in 0 .. Len(files)
    BY <1>1, Types
  <2>2. CASE Return(r, "ioError")
    BY <2>1, <2>2 DEF Return, Result, Goto
  <2>3. CASE dir[name[r]] = 0 /\ Return(r, "notFound")
    BY <2>1, <2>3 DEF Return, Result, Goto
  <2>4. CASE /\ dir[name[r]] # 0 /\ file' = [file EXCEPT ![r] = dir[name[r]]]
             /\ Result(r, "ok", "read")
    BY <2>1, <2>4 DEF Result, Goto
  <2> QED BY <2>2, <2>3, <2>4 DEF newSequentialFile
<1>4. /\ \A t \in Threads \ {r} : /\ pc'[t] = pc[t] /\ name'[t] = name[t]
                                  /\ data'[t] = data[t] /\ file'[t] = file[t] /\ s'[t] = s[t]
      /\ pc'[r] = l /\ s'[r] = st /\ file'[r] = f
  BY <1>1, <1>2, <1>3, Types
<1>5. /\ Owners' /\ Contents' /\ Alone' /\ Settled' /\ Bound'
      /\ \A w \in Writers : pc'[w] = pc[w] /\ name'[w] = name[w]
      /\ \A t \in Readers : t # r =>
           /\ pc'[t] = pc[t] /\ name'[t] = name[t] /\ data'[t] = data[t]
           /\ file'[t] = file[t] /\ s'[t] = s[t]
           /\ expect'[t] = expect[t] /\ quiet'[t] = quiet[t]
  BY <1>2, <1>4, ReaderStepKeeps
<1>6. TypeOK'
  <2>1. /\ pc' \in [Threads -> Calls] /\ s' \in [Threads -> {"ok", "ioError", "notFound"}]
        /\ file' \in [Threads -> 0 .. Len(files)]
    BY <1>1, <1>3, Types DEF Calls
  <2>2. \A t \in Threads :
          file'[t] # 0 <=> pc'[t] \in {"append", "close", "deleteFile", "read"}
    BY <1>3, <1>4 DEF IInv, TypeOK
  <2> QED BY <1>2, <2>1, <2>2, Types DEF TypeOK, Calls
<1>7. Places' /\ HistoryOK'
  BY <1>2, <1>3, <1>4, <1>5 DEF IInv, Places, HistoryOK
<1>8. ReaderPlace'
  <2>1. data[r] = <<>>
    BY <1>1 DEF IInv, ReaderPlace
  <2>2. f # 0 => IsPrefix(<<>>, files[f])
    BY <1>3, Types, PrefixSelf
  <2> QED BY <1>2, <1>3, <1>4, <1>5, <2>1, <2>2 DEF IInv, ReaderPlace
<1>9. Expected' /\ Undisturbed'
  <2>1. Expected'
    BY <1>1, <1>2, <1>3, <1>4, <1>5 DEF IInv, Expected
  <2>2. Undisturbed'
    BY <1>1, <1>2, <1>3, <1>4, <1>5 DEF IInv, Undisturbed
  <2> QED BY <2>1, <2>2
<1>10. WrittenIsRead'
  <2>1. expect[r] # None => dir[name[r]] # 0
    BY <1>1 DEF IInv, Expected, Settled
  <2> QED BY <1>2, <1>3, <1>4, <1>5, <2>1 DEF IInv, WrittenIsRead
<1>11. NoTornRead'
  BY <1>2, <1>3, <1>4, <1>5 DEF IInv, NoTornRead
<1> QED BY <1>5, <1>6, <1>7, <1>8, <1>9, <1>10, <1>11 DEF IInv

\* One more fragment; without one, the reader has the whole file.
LEMMA readStep == ASSUME IInv, NEW r \in Readers, read(r) PROVE IInv'
<1>1. r \in Threads /\ pc[r] = "read" /\ file[r] # 0 /\ name[r] \in Names
  BY ThreadSets DEF read, IInv, TypeOK
<1>2. UNCHANGED <<dir, files, name, settled, alone, written, litter, expect, quiet>>
  BY DEF read, fs, writes, reads
<1>3. PICK g \in Seq(Bytes) : g = files[file[r]]
  BY <1>1, Types
<1>4. /\ file[r] \in 1 .. Len(files) /\ data[r] \in Seq(Bytes) /\ IsPrefix(data[r], g)
      /\ \E d \in Data : IsPrefix(g, d)
  <2>1. file[r] \in 1 .. Len(files) /\ DOMAIN files = 1 .. Len(files) /\ data[r] \in Seq(Bytes)
    BY <1>1, Types
  <2>2. IsPrefix(data[r], g)
    BY <1>1, <1>3 DEF IInv, ReaderPlace
  <2>3. \E d \in Data : IsPrefix(g, d)
    BY <1>3, <2>1 DEF IInv, Contents
  <2> QED BY <2>1, <2>2, <2>3
<1>5. PICK l \in {"idle", "read"}, st \in {"ok", "ioError"}, x \in Seq(Bytes) :
        /\ pc' = [pc EXCEPT ![r] = l] /\ s' = [s EXCEPT ![r] = st]
        /\ data' = [data EXCEPT ![r] = x]
        /\ file' = [file EXCEPT ![r] = IF l = "idle" THEN 0 ELSE file[r]]
        /\ IsPrefix(x, g)
        /\ l = "idle" /\ st = "ok" => x = g
  <2>1. CASE Return(r, "ioError") /\ UNCHANGED data
    <3>1. data' = [data EXCEPT ![r] = data[r]]
      BY <2>1, Types
    <3> QED BY <1>4, <2>1, <3>1 DEF Return, Result, Goto
  <2>2. ASSUME NEW n \in 0 .. BufferSize,
               n <= Len(Rest(r)), n = 0 => Rest(r) = <<>>,
               data' = [data EXCEPT ![r] = @ \o SubSeq(Rest(r), 1, n)],
               IF n = 0 THEN Return(r, "ok") ELSE Result(r, "ok", "read") /\ UNCHANGED file
        PROVE  \E l \in {"idle", "read"}, st \in {"ok", "ioError"}, x \in Seq(Bytes) :
                 /\ pc' = [pc EXCEPT ![r] = l] /\ s' = [s EXCEPT ![r] = st]
                 /\ data' = [data EXCEPT ![r] = x]
                 /\ file' = [file EXCEPT ![r] = IF l = "idle" THEN 0 ELSE file[r]]
                 /\ IsPrefix(x, g)
                 /\ l = "idle" /\ st = "ok" => x = g
    <3>1. PICK a \in Seq(Bytes) : a = data[r]
      BY <1>4
    <3>2. Rest(r) = SubSeq(g, Len(a) + 1, Len(g))
      BY <1>3, <3>1 DEF Rest
    <3>3. IsPrefix(a, g)
      BY <1>4, <3>1
    <3>4. Len(Rest(r)) \in Nat
      BY <1>3, <3>1, <3>2
    <3>5. n \in 0 .. Len(SubSeq(g, Len(a) + 1, Len(g)))
      BY <2>2, <3>2, <3>4
    <3>6. PICK x : x = a \o SubSeq(Rest(r), 1, n)
      OBVIOUS
    <3>7. x \in Seq(Bytes) /\ IsPrefix(x, g)
      BY <3>2, <3>3, <3>5, <3>6, PrefixGrows
    <3>8. data' = [data EXCEPT ![r] = x]
      BY <2>2, <3>1, <3>6, Types
    <3>9. CASE n = 0
      <4>1. SubSeq(g, Len(a) + 1, Len(g)) = <<>>
        BY <2>2, <3>2, <3>9
      <4>2. a = g /\ a \o SubSeq(<<>>, 1, 0) = a
        BY <3>3, <4>1, PrefixWhole
      <4>3. x = g
        BY <2>2, <3>6, <3>9, <4>2
      <4>4. Return(r, "ok")
        BY <2>2, <3>9
      <4> QED BY <3>7, <3>8, <4>3, <4>4 DEF Return, Result, Goto
    <3>10. CASE n # 0
      <4>1. Result(r, "ok", "read") /\ UNCHANGED file
        BY <2>2, <3>10
      <4>2. file' = [file EXCEPT ![r] = file[r]]
        BY <4>1, Types
      <4> QED BY <3>7, <3>8, <4>1, <4>2 DEF Result, Goto
    <3> QED BY <3>9, <3>10
  <2> QED BY <2>1, <2>2 DEF read
<1>6. /\ \A t \in Threads \ {r} : /\ pc'[t] = pc[t] /\ name'[t] = name[t]
                                  /\ data'[t] = data[t] /\ file'[t] = file[t] /\ s'[t] = s[t]
      /\ pc'[r] = l /\ s'[r] = st /\ data'[r] = x
      /\ file'[r] = IF l = "idle" THEN 0 ELSE file[r]
  BY <1>1, <1>2, <1>5, Types
<1>7. /\ Owners' /\ Contents' /\ Alone' /\ Settled' /\ Bound'
      /\ \A w \in Writers : pc'[w] = pc[w] /\ name'[w] = name[w]
      /\ \A t \in Readers : t # r =>
           /\ pc'[t] = pc[t] /\ name'[t] = name[t] /\ data'[t] = data[t]
           /\ file'[t] = file[t] /\ s'[t] = s[t]
           /\ expect'[t] = expect[t] /\ quiet'[t] = quiet[t]
  BY <1>2, <1>6, ReaderStepKeeps
<1>8. TypeOK'
  <2>1. /\ pc' \in [Threads -> Calls] /\ s' \in [Threads -> {"ok", "ioError", "notFound"}]
        /\ file' \in [Threads -> 0 .. Len(files)] /\ data' \in [Threads -> Seq(Bytes)]
    BY <1>1, <1>5, Types DEF Calls
  <2>2. \A t \in Threads :
          file'[t] # 0 <=> pc'[t] \in {"append", "close", "deleteFile", "read"}
    BY <1>1, <1>5, <1>6 DEF IInv, TypeOK
  <2> QED BY <1>2, <2>1, <2>2, Types DEF TypeOK, Calls
<1>9. Places' /\ HistoryOK'
  BY <1>2, <1>5, <1>6, <1>7 DEF IInv, Places, HistoryOK
<1>10. ReaderPlace'
  <2>1. PICK d \in Data : IsPrefix(g, d)
    BY <1>4
  <2>2. IsPrefix(x, d)
    BY <1>5, <2>1, DataSeq, PrefixTransitive
  <2> QED BY <1>2, <1>3, <1>5, <1>6, <1>7, <2>2 DEF IInv, ReaderPlace
<1>11. Expected' /\ Undisturbed'
  <2>1. Expected'
    BY <1>1, <1>2, <1>5, <1>6, <1>7 DEF IInv, Expected
  <2>2. Undisturbed'
    BY <1>1, <1>2, <1>5, <1>6, <1>7 DEF IInv, Undisturbed
  <2> QED BY <2>1, <2>2
<1>12. WrittenIsRead'
  <2>1. expect[r] # None => g = expect[r]
    BY <1>1, <1>3 DEF IInv, Expected, Settled
  <2> QED BY <1>2, <1>5, <1>6, <1>7, <2>1 DEF IInv, WrittenIsRead
<1>13. NoTornRead'
  <2>1. ASSUME quiet[r] PROVE g \in written[name[r]]
    <3>1. /\ \A w \in Writers : pc[w] # "idle" => name[w] # name[r]
          /\ ~litter[name[r]] /\ file[r] = dir[name[r]]
      BY <1>1, <2>1 DEF IInv, Undisturbed
    <3>2. ~ \E w \in Writers : file[w] = dir[name[r]]
      <4> SUFFICES ASSUME NEW w \in Writers, file[w] = dir[name[r]] PROVE FALSE
        OBVIOUS
      <4>1. file[w] # 0 /\ pc[w] # "idle"
        BY <1>1, <3>1, ThreadSets DEF IInv, TypeOK
      <4> QED BY <1>1, <3>1, <4>1 DEF IInv, Owners
    <3> QED BY <1>1, <1>3, <3>1, <3>2 DEF IInv, Bound
  <2> QED BY <1>2, <1>5, <1>6, <1>7, <2>1 DEF IInv, NoTornRead
<1> QED BY <1>7, <1>8, <1>9, <1>10, <1>11, <1>12, <1>13 DEF IInv

\* Every call preserves the invariant, whether it fails or not.
LEMMA NextIInv == IInv /\ [Next]_vars => IInv'
<1> SUFFICES ASSUME IInv, [Next]_vars PROVE IInv'
  OBVIOUS
<1>1. ASSUME NEW w \in Writers, WriterStep(w) PROVE IInv'
  BY <1>1, newWritableFileStep, appendStep, closeStep, deleteFileStep DEF WriterStep
<1>2. ASSUME NEW r \in Readers, ReaderStep(r) PROVE IInv'
  BY <1>2, newSequentialFileStep, readStep DEF ReaderStep
<1>3. CASE UNCHANGED vars
  <2>1. /\ UNCHANGED <<dir, files, pc, name, data, file, s>>
        /\ UNCHANGED <<settled, alone, written, litter, expect, quiet>>
    BY <1>3 DEF vars, fs, local, writes, reads
  <2>2. TypeOK' /\ Places' /\ HistoryOK' /\ Owners' /\ Contents' /\ Alone' /\ Settled' /\ Bound'
    BY <2>1 DEF IInv, TypeOK, Places, HistoryOK, Owners, Contents, Alone, Settled, Bound
  <2>3. ReaderPlace' /\ Expected' /\ Undisturbed' /\ WrittenIsRead' /\ NoTornRead'
    BY <2>1 DEF IInv, ReaderPlace, Expected, Undisturbed, WrittenIsRead, NoTornRead
  <2> QED BY <2>2, <2>3 DEF IInv
<1> QED BY <1>1, <1>2, <1>3, WriteStringToFileStep, ReadFileToStringStep DEF Next

\* The histories and the files agree with each other in every reachable state.
THEOREM Inductive == Spec => []IInv
<1> QED BY InitIInv, NextIInv, PTL DEF Spec

\* Whatever calls fail, a thread makes calls only on a file object that it has,
\* and returns without one: nothing is used before it is created or leaked.
THEOREM EnvFileTypeOK == Spec => []TypeOK
<1>1. IInv => TypeOK
  BY DEF IInv
<1> QED BY <1>1, Inductive, PTL

\* A read that begins after a write returned ok, and that no later write of the
\* name disturbs, finds exactly what was written (env.cc:25-32 and 53-63).
THEOREM EnvFileWrittenIsRead == Spec => []WrittenIsRead
<1>1. IInv => WrittenIsRead
  BY DEF IInv
<1> QED BY <1>1, Inductive, PTL

\* A read that no write overlaps never returns a part of a string, unless a
\* failed write could not delete its file (env.cc:33-35).
THEOREM EnvFileNoTornRead == Spec => []NoTornRead
<1>1. IInv => NoTornRead
  BY DEF IInv
<1> QED BY <1>1, Inductive, PTL

\* A read never mixes two strings, however calls overlap (env.cc:45).
THEOREM EnvFileReadsPrefix == Spec => []ReadsPrefix
<1>1. IInv => ReadsPrefix
  BY DEF IInv, ReaderPlace, ReadsPrefix
<1> QED BY <1>1, Inductive, PTL
=============================================================================
