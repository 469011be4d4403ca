--------------------------- MODULE SeedFileProofs ---------------------------
(***************************************************************************)
(* What SeedFile checks on a small instance, proved for any number of      *)
(* processes, pieces, updates and faults.                                  *)
(***************************************************************************)
EXTENDS SeedFile, TLAPS, SequenceTheorems

Pieces == Images \cup {Hole}

\* The first n pieces of image i.
Part(i, n) == [k \in 1..n |-> i]

\* Whoever has the file open finds one.
Present ==
  \A p \in Procs :
    pc[p] \in {"rlock", "stat", "read", "wlock", "trunc", "write"} => file # NoFile

\* Where the lock of a process is taken and dropped.
LockKept ==
  \A p \in Procs :
    locks[p] = IF pc[p] \in {"stat", "read"} THEN "read"
               ELSE IF pc[p] \in {"trunc", "write"} THEN "write" ELSE "none"

Exclusive ==
  \A p, q \in Procs : p # q /\ locks[p] = "write" => locks[q] = "none"

\* The file never mixes images: it is some part of one.
Unmixed == file = NoFile \/ \E i \in Images, n \in 0..POOLSIZE : file = Part(i, n)

\* What is in the file while it is written, and in the buffer while it is read.
Writes ==
  \A p \in Procs : /\ pc[p] \in {"wlock", "trunc"} => offset[p] = 0
                   /\ pc[p] = "write" => file = Part(image[p], offset[p])

Reads ==
  \A p \in Procs :
    /\ pc[p] \in {"rlock", "stat"} => buffer[p] = <<>>
    /\ pc[p] = "read" => /\ Len(file) = POOLSIZE
                         /\ \A k \in 1..Len(buffer[p]) : buffer[p][k] = file[k]

Locked == LockKept /\ Exclusive /\ Unmixed /\ Writes /\ Reads

Inv == /\ TypeOK /\ Present
       /\ build = "posix" => Locked
       /\ OneImage /\ LockedNeverFatal /\ RestsUsable

-----------------------------------------------------------------------------
(* Parts of an image *)

\* The first n pieces of an image are a sequence of n.
LEMMA PartSeq ==
  ASSUME NEW S, NEW i \in S, NEW n \in Nat
  PROVE  Part(i, n) \in Seq(S) /\ Len(Part(i, n)) = n
<1>1. Part(i, n) \in [1..n -> S]
  BY DEF Part
<1> QED BY <1>1

\* A file that exists is a sequence of at most POOLSIZE pieces.
LEMMA FileSeq ==
  ASSUME TypeOK, file # NoFile
  PROVE  file \in Seq(Pieces) /\ Len(file) \in 0..POOLSIZE
<1>1. PICK n \in 0..POOLSIZE : file \in [1..n -> Pieces]
  BY DEF TypeOK, Pieces
<1> QED BY <1>1, SeedFileAssumption

\* Nothing of an image is the empty file.
LEMMA EmptyPart == ASSUME NEW i PROVE Part(i, 0) = <<>>
BY DEF Part

\* One more piece of the image that is being written.
LEMMA PutNext ==
  ASSUME NEW i \in Images, NEW n \in Nat
  PROVE  Put(Part(i, n), n + 1, i) = Part(i, n + 1)
<1>1. Len(Part(i, n)) = n
  BY PartSeq
<1>2. Put(Part(i, n), n + 1, i) =
        [k \in 1..(n + 1) |-> IF k = n + 1 THEN i
                              ELSE IF k <= n THEN Part(i, n)[k] ELSE Hole]
  BY <1>1 DEF Put
<1> QED BY <1>2 DEF Part

\* Writing a piece leaves a file of at most POOLSIZE pieces.
LEMMA PutType ==
  ASSUME TypeOK, file # NoFile, NEW k \in 1..POOLSIZE, NEW x \in Images
  PROVE  \E n \in 0..POOLSIZE : Put(file, k, x) \in [1..n -> Pieces]
<1>1. file \in Seq(Pieces) /\ Len(file) \in 0..POOLSIZE
  BY FileSeq
<1> DEFINE n == IF k > Len(file) THEN k ELSE Len(file)
<1>2. n \in 0..POOLSIZE
  BY <1>1, SeedFileAssumption
<1>3. \A j \in 1..Len(file) : file[j] \in Pieces
  BY <1>1
<1>4. x \in Pieces /\ Hole \in Pieces
  BY DEF Pieces
<1>5. Put(file, k, x) \in [1..n -> Pieces]
  BY <1>1, <1>3, <1>4 DEF Put
<1> QED BY <1>2, <1>5

-----------------------------------------------------------------------------
(* Types, in builds with and without file locks *)

\* The invariant holds at the start.
LEMMA InitInv == Init => Inv
<1> SUFFICES ASSUME Init PROVE Inv
  OBVIOUS
<1> USE SeedFileAssumption
<1>1. 0 \in Images
  BY DEF Images
<1>2. file = NoFile \/ file = Part(0, 0) \/ file = Part(0, POOLSIZE)
  BY EmptyPart DEF Init, Part
<1>3. Unmixed
  BY <1>1, <1>2 DEF Unmixed
<1>4. file = NoFile \/ \E n \in 0..POOLSIZE : file \in [1..n -> Images \cup {Hole}]
  <2>1. Part(0, 0) \in [1..0 -> Images \cup {Hole}]
    BY <1>1 DEF Part
  <2>2. Part(0, POOLSIZE) \in [1..POOLSIZE -> Images \cup {Hole}]
    BY <1>1 DEF Part
  <2> QED BY <1>2, <2>1, <2>2
<1>5. <<>> \in Seq(Images \cup {Hole}) /\ Len(<<>>) = 0
  OBVIOUS
<1>6. build \in {"posix", "cygwin", "unlocked"}
  BY DEF Init
<1>7. TypeOK
  BY <1>4, <1>5, <1>6 DEF Init, TypeOK, Places
<1>8. Present /\ LockKept /\ Exclusive /\ Writes /\ Reads
  BY DEF Init, Present, LockKept, Exclusive, Writes, Reads
<1>9. OneImage /\ LockedNeverFatal
  BY DEF Init, OneImage, LockedNeverFatal, NeverFatal
<1>10. RestsUsable
  BY <1>1 DEF Init, RestsUsable, Whole
<1> QED BY <1>3, <1>7, <1>8, <1>9, <1>10 DEF Inv, Locked

\* The parts of the state that reading leaves alone.
Shared == <<build, file, image, offset, updates, faults>>

\* Reading keeps types and leaves the shared file alone.
LEMMA ReadingType ==
  ASSUME TypeOK, Present, NEW p \in Procs, Reading(p)
  PROVE  TypeOK' /\ Present' /\ UNCHANGED Shared
<1> USE SeedFileAssumption
<1>1. CASE OpenRead(p)
  <2>1. <<>> \in Seq(Images \cup {Hole}) /\ Len(<<>>) = 0
    OBVIOUS
  <2>2. /\ buffer' \in [Procs -> Seq(Images \cup {Hole})]
        /\ \A q \in Procs : Len(buffer'[q]) <= POOLSIZE
    BY <1>1, <2>1 DEF OpenRead, TypeOK
  <2> QED BY <1>1, <2>2, ZenonT(60) DEF OpenRead, Goto, TypeOK, Present, Places, Shared
<1>2. CASE LockRead(p)
  BY <1>2 DEF LockRead, Lock, Goto, TypeOK, Present, Places, Shared
<1>3. CASE Stat(p)
  BY <1>3 DEF Stat, Unlocked, Goto, TypeOK, Present, Places, Shared
<1>4. CASE ReadPiece(p)
  <2>1. file \in Seq(Pieces) /\ Len(file) \in 0..POOLSIZE
    BY <1>4, FileSeq DEF ReadPiece, Present
  <2>2. buffer[p] \in Seq(Pieces)
    BY DEF TypeOK, Pieces
  <2>3. file[Len(buffer[p]) + 1] \in Pieces
    BY <1>4, <2>1, <2>2 DEF ReadPiece
  <2>4. /\ Append(buffer[p], file[Len(buffer[p]) + 1]) \in Seq(Pieces)
        /\ Len(Append(buffer[p], file[Len(buffer[p]) + 1])) = Len(buffer[p]) + 1
    BY <2>2, <2>3, AppendProperties
  <2>5. Len(buffer[p]) \in Nat
    BY <2>2
  <2>6. /\ buffer' \in [Procs -> Seq(Pieces)]
        /\ \A q \in Procs : Len(buffer'[q]) <= POOLSIZE
    BY <1>4, <2>4, <2>5 DEF ReadPiece, TypeOK, Pieces
  <2> QED BY <1>4, <2>6 DEF ReadPiece, TypeOK, Present, Pieces, Shared
<1>5. CASE ReadShort(p)
  BY <1>5 DEF ReadShort, Unlocked, Goto, TypeOK, Present, Places, Shared
<1>6. CASE Feed(p)
  BY <1>6 DEF Feed, Unlocked, Goto, TypeOK, Present, Places, Shared
<1>7. CASE Poll(p)
  BY <1>7 DEF Poll, Goto, TypeOK, Present, Places, Shared
<1> QED BY <1>1, <1>2, <1>3, <1>4, <1>5, <1>6, <1>7 DEF Reading

\* Writing keeps types.
LEMMA WritingType ==
  ASSUME TypeOK, Present, NEW p \in Procs, Writing(p)
  PROVE  TypeOK' /\ Present'
<1> USE SeedFileAssumption
<1>1. CASE LockWrite(p)
  BY <1>1 DEF LockWrite, Lock, Goto, TypeOK, Present, Places
<1>2. CASE Truncate(p)
  <2>1. <<>> \in [1..0 -> Images \cup {Hole}] /\ 0 \in 0..POOLSIZE
    OBVIOUS
  <2>2. <<>> # NoFile
    BY DEF NoFile
  <2> QED BY <1>2, <2>1, <2>2 DEF Truncate, Goto, TypeOK, Present, Places
<1>3. CASE WritePiece(p)
  <2>1. offset[p] + 1 \in 1..POOLSIZE /\ image[p] \in Images /\ file # NoFile
    BY <1>3 DEF WritePiece, TypeOK, Images, Present
  <2>2. \E n \in 0..POOLSIZE : file' \in [1..n -> Images \cup {Hole}]
    BY <1>3, <2>1, PutType DEF WritePiece, Pieces
  <2>3. file' # NoFile
    <3>1. file'[offset[p] + 1] = image[p] /\ offset[p] + 1 \in DOMAIN file'
      <4>1. Len(file) \in Nat
        BY <2>1, FileSeq
      <4> QED BY <1>3, <2>1, <4>1 DEF WritePiece, Put
    <3>2. NoFile = [k \in 1..1 |-> -2]
      BY DEF NoFile
    <3> QED BY <2>1, <3>1, <3>2 DEF Images
  <2>4. offset' \in [Procs -> 0..POOLSIZE]
    BY <1>3, <2>1 DEF WritePiece, TypeOK
  <2> QED BY <1>3, <2>2, <2>3, <2>4 DEF WritePiece, TypeOK, Present
<1>4. CASE CloseWrite(p)
  BY <1>4 DEF CloseWrite, Unlocked, Goto, TypeOK, Present, Places
<1> QED BY <1>1, <1>2, <1>3, <1>4 DEF Writing

\* Starting an update, failing and dying keep types.
LEMMA OtherType ==
  ASSUME TypeOK, Present, NEW p \in Procs, Update(p) \/ Fail(p) \/ Die(p)
  PROVE  TypeOK' /\ Present'
<1> USE SeedFileAssumption
<1>1. CASE Update(p)
  <2>1. <<>> \in [1..0 -> Images \cup {Hole}] /\ 0 \in 0..POOLSIZE
    OBVIOUS
  <2>2. <<>> # NoFile
    BY DEF NoFile
  <2>3. file' # NoFile /\ \E n \in 0..POOLSIZE : file' \in [1..n -> Images \cup {Hole}]
    BY <1>1, <2>1, <2>2 DEF Update, Opened, TypeOK
  <2>4. updates' \in 0..MaxUpdates /\ updates' = updates + 1 /\ updates \in Nat
    BY <1>1 DEF Update, TypeOK
  <2>5. image' \in [Procs -> 0..updates']
    BY <1>1, <2>4 DEF Update, TypeOK
  <2>6. offset' \in [Procs -> 0..POOLSIZE]
    BY <1>1 DEF Update, TypeOK
  <2> QED BY <1>1, <2>3, <2>4, <2>5, <2>6 DEF Update, Goto, TypeOK, Present, Places
<1>2. CASE Fail(p)
  <2>1. pc' \in [Procs -> Places]
    BY <1>2 DEF Fail, TypeOK, Places
  <2>4. faults' \in 0..MaxFaults
    BY <1>2 DEF Fail, TypeOK
  <2>2. locks' \in [Procs -> {"none", "read", "write"}]
    BY <1>2 DEF Fail, Unlocked, TypeOK
  <2>3. Present'
    BY <1>2 DEF Fail, Present, TypeOK
  <2> QED BY <1>2, <2>1, <2>2, <2>3, <2>4 DEF Fail, TypeOK
<1>3. CASE Die(p)
  <2>1. <<>> \in Seq(Images \cup {Hole})
    OBVIOUS
  <2> QED BY <1>3, <2>1 DEF Die, Unlocked, TypeOK, Present, Places
<1> QED BY <1>1, <1>2, <1>3

-----------------------------------------------------------------------------
(* The locks.  Only LockRead and LockWrite take one. *)

\* A reader takes and gives up read locks only.
LEMMA ReadingLocks ==
  ASSUME TypeOK, build = "posix", LockKept, Exclusive, NEW p \in Procs, Reading(p)
  PROVE  /\ LockKept' /\ Exclusive'
         /\ locks[p] # "write" /\ locks'[p] # "write"
         /\ \A q \in Procs \ {p} : locks'[q] = locks[q]
<1>1. CASE OpenRead(p)
  BY <1>1 DEF OpenRead, Goto, TypeOK, LockKept, Exclusive
<1>2. CASE LockRead(p)
  <2>1. LockFree(p, "read") /\ locks' = [locks EXCEPT ![p] = "read"]
    BY <1>2 DEF LockRead, Lock, locking
  <2>2. pc[p] = "rlock" /\ pc' = [pc EXCEPT ![p] = "stat"]
    BY <1>2 DEF LockRead, Goto
  <2>3. \A q \in Procs \ {p} : locks[q] # "write"
    BY <2>1 DEF LockFree
  <2> QED BY <2>1, <2>2, <2>3 DEF TypeOK, LockKept, Exclusive
<1>3. CASE Stat(p)
  BY <1>3, ZenonT(60) DEF Stat, Goto, Unlocked, TypeOK, LockKept, Exclusive
<1>4. CASE ReadPiece(p)
  BY <1>4 DEF ReadPiece, TypeOK, LockKept, Exclusive
<1>5. CASE ReadShort(p)
  BY <1>5 DEF ReadShort, Goto, Unlocked, TypeOK, LockKept, Exclusive
<1>6. CASE Feed(p)
  BY <1>6 DEF Feed, Goto, Unlocked, TypeOK, LockKept, Exclusive
<1>7. CASE Poll(p)
  BY <1>7 DEF Poll, Goto, TypeOK, LockKept, Exclusive
<1> QED BY <1>1, <1>2, <1>3, <1>4, <1>5, <1>6, <1>7 DEF Reading

\* A writer gets its lock only while nobody else has one.
LEMMA WritingLocks ==
  ASSUME TypeOK, build = "posix", LockKept, Exclusive, NEW p \in Procs, Writing(p)
  PROVE  LockKept' /\ Exclusive'
<1>1. CASE LockWrite(p)
  <2>1. LockFree(p, "write") /\ locks' = [locks EXCEPT ![p] = "write"]
    BY <1>1 DEF LockWrite, Lock, locking
  <2>2. pc[p] = "wlock" /\ pc' = [pc EXCEPT ![p] = "trunc"]
    BY <1>1 DEF LockWrite, locking, Goto
  <2>3. \A q \in Procs \ {p} : locks[q] = "none"
    BY <2>1 DEF LockFree
  <2> QED BY <2>1, <2>2, <2>3 DEF TypeOK, LockKept, Exclusive
<1>2. CASE Truncate(p)
  BY <1>2 DEF Truncate, Goto, TypeOK, LockKept, Exclusive
<1>3. CASE WritePiece(p)
  BY <1>3 DEF WritePiece, TypeOK, LockKept, Exclusive
<1>4. CASE CloseWrite(p)
  BY <1>4 DEF CloseWrite, Goto, Unlocked, TypeOK, LockKept, Exclusive
<1> QED BY <1>1, <1>2, <1>3, <1>4 DEF Writing

\* Who fails or dies gives its lock up.
LEMMA OtherLocks ==
  ASSUME TypeOK, build = "posix", LockKept, Exclusive, NEW p \in Procs,
         Update(p) \/ Fail(p) \/ Die(p)
  PROVE  LockKept' /\ Exclusive'
<1>1. CASE Update(p)
  BY <1>1 DEF Update, Goto, TypeOK, LockKept, Exclusive
<1>2. CASE Fail(p)
  <2>1. locks' = [locks EXCEPT ![p] = "none"]
    BY <1>2 DEF Fail, Unlocked
  <2>2. \/ pc' = [pc EXCEPT ![p] = "poll"]
        \/ pc' = [pc EXCEPT ![p] = "idle"]
    BY <1>2 DEF Fail
  <2>3. LockKept'
    BY <2>1, <2>2 DEF TypeOK, LockKept
  <2> QED BY <2>1, <2>3 DEF TypeOK, Exclusive
<1>3. CASE Die(p)
  BY <1>3 DEF Die, Unlocked, TypeOK, LockKept, Exclusive
<1> QED BY <1>1, <1>2, <1>3

\* Whoever writes is alone with the file.
LEMMA WriterAlone ==
  ASSUME LockKept, Exclusive, NEW p \in Procs, pc[p] \in {"trunc", "write"},
         NEW q \in Procs, q # p
  PROVE  pc[q] \notin {"stat", "read", "trunc", "write"}
BY DEF LockKept, Exclusive

-----------------------------------------------------------------------------
(* What is read *)

\* A file that fstat finds complete is one image.
LEMMA FullIsWhole ==
  ASSUME Unmixed, file # NoFile, Len(file) = POOLSIZE
  PROVE  Whole(file)
<1>1. PICK i \in Images, n \in 0..POOLSIZE : file = Part(i, n)
  BY DEF Unmixed
<1>2. n = POOLSIZE
  BY <1>1, PartSeq, SeedFileAssumption
<1> QED BY <1>1, <1>2 DEF Whole, Part

\* A complete buffer is a copy of the file, which a reader found complete.
LEMMA BufferIsWhole ==
  ASSUME TypeOK, Present, Unmixed, Reads,
         NEW p \in Procs, pc[p] = "read", Len(buffer[p]) = POOLSIZE
  PROVE  Whole(buffer[p])
<1>1. file # NoFile /\ Len(file) = POOLSIZE
  BY DEF Present, Reads
<1>2. file \in Seq(Pieces) /\ buffer[p] \in Seq(Pieces)
  BY <1>1, FileSeq DEF TypeOK, Pieces
<1>3. \A k \in 1..Len(buffer[p]) : buffer[p][k] = file[k]
  BY DEF Reads
<1>4. buffer[p] = file
  BY <1>1, <1>2, <1>3, SeqEqual
<1> QED BY <1>1, <1>4, FullIsWhole

\* Where the file is emptied under the lock, a step of reading keeps the invariant.
LEMMA ReadingKeeps ==
  ASSUME Inv, build = "posix", NEW p \in Procs, Reading(p)
  PROVE  (Locked /\ OneImage /\ LockedNeverFatal /\ RestsUsable)'
<1> USE DEF Inv, Locked
<1>1. /\ TypeOK' /\ Present' /\ UNCHANGED Shared
      /\ LockKept' /\ Exclusive'
  BY ReadingType, ReadingLocks
<1>2. Unmixed'
  BY <1>1 DEF Shared, Unmixed
<1>3. RestsUsable'
  <2>1. locks[p] # "write" /\ locks'[p] # "write" /\ \A q \in Procs \ {p} : locks'[q] = locks[q]
    BY ReadingLocks
  <2> QED BY <1>1, <2>1 DEF Shared, RestsUsable, Whole
<1>4. \A q \in Procs \ {p} : pc'[q] = pc[q] /\ buffer'[q] = buffer[q]
  BY DEF Reading, OpenRead, LockRead, Stat, ReadPiece, ReadShort, Feed, Poll, Goto, TypeOK
<1>5. pc'[p] \notin {"wlock", "trunc", "write"}
  BY DEF Reading, OpenRead, LockRead, Stat, ReadPiece, ReadShort, Feed, Poll, Goto, TypeOK
<1>6. Writes'
  BY <1>1, <1>4, <1>5 DEF Shared, Writes
<1>7. /\ pc'[p] \in {"rlock", "stat"} => buffer'[p] = <<>>
      /\ pc'[p] = "read" => /\ Len(file) = POOLSIZE
                            /\ \A k \in 1..Len(buffer'[p]) : buffer'[p][k] = file[k]
  <2>1. CASE OpenRead(p)
    BY <2>1 DEF OpenRead, Goto, TypeOK
  <2>2. CASE LockRead(p)
    BY <2>2 DEF LockRead, Goto, TypeOK, Reads
  <2>3. CASE Stat(p)
    <3>1. buffer[p] = <<>> /\ buffer' = buffer
      BY <2>3 DEF Stat, Goto, Reads
    <3>2. 1..Len(buffer'[p]) = {}
      BY <3>1
    <3> QED BY <2>3, <3>1, <3>2 DEF Stat, Goto, TypeOK, Usable
  <2>4. CASE ReadPiece(p)
    <3>1. file \in Seq(Pieces) /\ buffer[p] \in Seq(Pieces) /\ Len(buffer[p]) \in Nat
      BY <2>4, FileSeq, SMTT(60) DEF ReadPiece, Present, TypeOK, Pieces
    <3>2. file[Len(buffer[p]) + 1] \in Pieces
      BY <2>4, <3>1 DEF ReadPiece
    <3>3. buffer'[p] = Append(buffer[p], file[Len(buffer[p]) + 1])
      BY <2>4 DEF ReadPiece, TypeOK
    <3>4. /\ Len(buffer'[p]) = Len(buffer[p]) + 1
          /\ \A k \in 1..Len(buffer[p]) : buffer'[p][k] = buffer[p][k]
          /\ buffer'[p][Len(buffer[p]) + 1] = file[Len(buffer[p]) + 1]
      BY <3>1, <3>2, <3>3, AppendProperties
    <3> QED BY <2>4, <3>1, <3>4 DEF ReadPiece, Reads
  <2>5. CASE ReadShort(p)
    BY <2>5 DEF ReadShort, Goto, TypeOK
  <2>6. CASE Feed(p)
    BY <2>6 DEF Feed, Goto, TypeOK
  <2>7. CASE Poll(p)
    BY <2>7 DEF Poll, Goto, TypeOK
  <2> QED BY <2>1, <2>2, <2>3, <2>4, <2>5, <2>6, <2>7 DEF Reading
<1>8. Reads'
  BY <1>1, <1>4, <1>7 DEF Shared, Reads
<1>9. ~ReadShort(p)
  <2> SUFFICES ASSUME ReadShort(p) PROVE FALSE
    OBVIOUS
  <2>1. Len(file) = POOLSIZE /\ Len(file) <= Len(buffer[p]) /\ Len(buffer[p]) < POOLSIZE
    BY DEF ReadShort, Goto, Reads
  <2>2. Len(buffer[p]) \in Nat
    BY DEF TypeOK
  <2> QED BY <2>1, <2>2, SeedFileAssumption
<1>10. LockedNeverFatal'
  <2>1. pc'[p] # "fatal"
    BY <1>9 DEF Reading, OpenRead, LockRead, Stat, ReadPiece, Feed, Poll, Goto, TypeOK,
       LockedNeverFatal, NeverFatal
  <2> QED BY <1>4, <2>1 DEF LockedNeverFatal, NeverFatal
<1>11. OneImage'
  <2>1. CASE Feed(p)
    <3>1. Whole(buffer[p])
      BY <2>1, BufferIsWhole DEF Feed, Goto
    <3> QED BY <2>1, <3>1 DEF Feed, OneImage, TypeOK, Whole
  <2>2. CASE ~Feed(p)
    <3>1. fed' = fed
      BY <2>2 DEF Reading, OpenRead, LockRead, Stat, ReadPiece, ReadShort, Poll
    <3> QED BY <3>1 DEF OneImage, Whole
  <2> QED BY <2>1, <2>2
<1> QED BY <1>1, <1>2, <1>3, <1>6, <1>8, <1>10, <1>11

-----------------------------------------------------------------------------
(* What is written *)

\* Where the file is emptied under the lock, a step of writing keeps the invariant.
LEMMA WritingKeeps ==
  ASSUME Inv, build = "posix", NEW p \in Procs, Writing(p)
  PROVE  (Locked /\ OneImage /\ LockedNeverFatal /\ RestsUsable)'
<1> USE DEF Inv, Locked
<1>1. TypeOK' /\ Present' /\ LockKept' /\ Exclusive'
  BY WritingType, WritingLocks
<1>2. UNCHANGED <<build, buffer, image, fed, faults>>
  BY DEF Writing, LockWrite, Truncate, WritePiece, CloseWrite
<1>3. \A q \in Procs \ {p} : pc'[q] = pc[q] /\ offset'[q] = offset[q]
  BY DEF Writing, LockWrite, Truncate, WritePiece, CloseWrite, Goto, TypeOK
<1>4. OneImage'
  BY <1>2 DEF OneImage, Whole
<1>5. LockedNeverFatal'
  <2>1. pc'[p] # "fatal"
    BY DEF Writing, LockWrite, Truncate, WritePiece, CloseWrite, Goto, TypeOK
  <2> QED BY <1>3, <2>1 DEF LockedNeverFatal, NeverFatal
<1>6. image[p] \in Images /\ offset[p] \in 0..POOLSIZE
  <2>1. image[p] \in 0..updates /\ updates \in 0..MaxUpdates /\ offset[p] \in 0..POOLSIZE
    BY DEF TypeOK
  <2> QED BY <2>1, SeedFileAssumption DEF Images
<1>7. /\ Unmixed' /\ Writes' /\ Reads' /\ RestsUsable'
  <2>1. CASE LockWrite(p)
    <3>1. /\ pc[p] = "wlock" /\ pc' = [pc EXCEPT ![p] = "trunc"]
          /\ locks' = [locks EXCEPT ![p] = "write"]
          /\ UNCHANGED <<file, offset>>
      BY <2>1 DEF LockWrite, Lock, locking, Goto
    <3>2. Unmixed' /\ Writes' /\ Reads'
      BY <1>2, <3>1 DEF TypeOK, Unmixed, Writes, Reads
    <3>3. locks'[p] = "write"
      BY <3>1 DEF TypeOK
    <3> QED BY <3>2, <3>3 DEF RestsUsable
  <2>2. CASE Truncate(p) \/ WritePiece(p)
    <3>1. /\ pc[p] \in {"trunc", "write"} /\ pc'[p] = "write"
          /\ file' = Part(image'[p], offset'[p]) /\ offset'[p] \in 0..POOLSIZE
      <4>1. CASE Truncate(p)
        <5>1. offset[p] = 0
          BY <4>1 DEF Truncate, Goto, Writes
        <5> QED BY <1>6, <4>1, <5>1, EmptyPart DEF Truncate, Goto, TypeOK
      <4>2. CASE WritePiece(p)
        <5>1. file = Part(image[p], offset[p])
          BY <4>2 DEF WritePiece, Writes
        <5>2. file' = Part(image[p], offset[p] + 1)
          BY <1>6, <4>2, <5>1, PutNext DEF WritePiece
        <5> QED BY <1>6, <4>2, <5>2, SeedFileAssumption DEF WritePiece, TypeOK
      <4> QED BY <2>2, <4>1, <4>2
    <3>2. \A q \in Procs \ {p} : pc[q] \notin {"stat", "read", "trunc", "write"}
      BY <3>1, WriterAlone
    <3>3. Unmixed'
      BY <1>2, <1>6, <3>1 DEF Unmixed
    <3>4. Writes' /\ Reads'
      BY <1>2, <1>3, <3>1, <3>2 DEF Writes, Reads
    <3>5. locks'[p] = "write"
      BY <1>1, <3>1 DEF LockKept
    <3> QED BY <3>3, <3>4, <3>5 DEF RestsUsable
  <2>3. CASE CloseWrite(p)
    <3>1. /\ pc[p] = "write" /\ pc' = [pc EXCEPT ![p] = "idle"]
          /\ offset[p] = POOLSIZE /\ UNCHANGED <<file, offset>>
      BY <2>3 DEF CloseWrite, Goto
    <3>2. Unmixed' /\ Writes' /\ Reads'
      BY <1>2, <3>1 DEF TypeOK, Unmixed, Writes, Reads
    <3>3. Whole(file)
      BY <1>6, <3>1 DEF Writes, Whole, Part
    <3> QED BY <3>1, <3>2, <3>3 DEF RestsUsable, Whole
  <2> QED BY <2>1, <2>2, <2>3 DEF Writing
<1> QED BY <1>1, <1>4, <1>5, <1>7

\* Where the file is emptied under the lock, an update begun, a failure or a
\* death keeps the invariant.
LEMMA OtherKeeps ==
  ASSUME Inv, build = "posix", NEW p \in Procs, Update(p) \/ Fail(p) \/ Die(p)
  PROVE  (Locked /\ OneImage /\ LockedNeverFatal /\ RestsUsable)'
<1> USE DEF Inv, Locked
<1>1. TypeOK' /\ Present' /\ LockKept' /\ Exclusive'
  BY OtherType, OtherLocks
<1>2. CASE Update(p)
  <2>1. /\ pc[p] = "idle" /\ pc' = [pc EXCEPT ![p] = "wlock"]
        /\ offset' = [offset EXCEPT ![p] = 0]
        /\ \A q \in Procs \ {p} : image'[q] = image[q]
        /\ UNCHANGED <<build, locks, buffer, faults, fed>>
    BY <1>2 DEF Update, Goto, TypeOK
  <2>2. file' = file \/ (file = NoFile /\ file' = <<>>)
    BY <1>2 DEF Update, Opened
  <2>3. Unmixed'
    <3>1. <<>> = Part(0, 0) /\ 0 \in Images /\ 0 \in 0..POOLSIZE
      BY EmptyPart, SeedFileAssumption DEF Images
    <3> QED BY <2>2, <3>1 DEF Unmixed
  <2>4. Writes' /\ Reads'
    BY <2>1, <2>2 DEF TypeOK, Present, Writes, Reads
  <2>5. OneImage' /\ LockedNeverFatal'
    BY <2>1 DEF TypeOK, OneImage, LockedNeverFatal, NeverFatal, Whole
  <2>6. RestsUsable'
    BY <2>1, <2>2 DEF RestsUsable, Whole
  <2> QED BY <1>1, <2>3, <2>4, <2>5, <2>6
<1>3. CASE Fail(p) \/ Die(p)
  <2>1. /\ pc' = [pc EXCEPT ![p] = "idle"] \/ pc' = [pc EXCEPT ![p] = "poll"]
        /\ fed' = fed \/ fed' = [fed EXCEPT ![p] = <<>>]
        /\ faults' = faults + 1
        /\ UNCHANGED <<build, file, buffer, image, offset>>
    BY <1>3 DEF Fail, Die
  <2>2. Unmixed'
    BY <2>1 DEF Unmixed
  <2>3. Writes' /\ Reads'
    BY <2>1 DEF TypeOK, Writes, Reads
  <2>4. LockedNeverFatal'
    BY <2>1 DEF TypeOK, LockedNeverFatal, NeverFatal
  <2>5. OneImage'
    <3>1. \A q \in Procs : fed'[q] = <<>> \/ fed'[q] = fed[q]
      BY <2>1 DEF TypeOK
    <3> QED BY <2>1, <3>1 DEF OneImage, Whole
  <2>6. RestsUsable'
    BY <2>1 DEF TypeOK, RestsUsable
  <2> QED BY <1>1, <2>2, <2>3, <2>4, <2>5, <2>6
<1> QED BY <1>2, <1>3

\* The invariant is inductive.
LEMMA NextInv == Inv /\ [Next]_vars => Inv'
<1> SUFFICES ASSUME Inv, [Next]_vars PROVE Inv'
  OBVIOUS
<1>1. CASE UNCHANGED vars
  BY <1>1 DEF vars, Inv, TypeOK, Present, Locked, LockKept, Exclusive, Unmixed, Writes,
     Reads, OneImage, LockedNeverFatal, NeverFatal, RestsUsable, Whole
<1>2. ASSUME NEW p \in Procs, Reading(p) \/ Writing(p) \/ Update(p) \/ Fail(p) \/ Die(p)
      PROVE  Inv'
  <2>1. TypeOK' /\ Present'
    BY <1>2, ReadingType, WritingType, OtherType DEF Inv
  <2>2. build' = build
    BY <1>2, ReadingType DEF Inv, Shared, Writing, LockWrite, Truncate, WritePiece,
       CloseWrite, Update, Fail, Die
  <2>3. CASE build = "posix"
    BY <1>2, <2>1, <2>2, <2>3, ReadingKeeps, WritingKeeps, OtherKeeps DEF Inv
  <2>4. CASE build # "posix"
    BY <2>1, <2>2, <2>4 DEF Inv, OneImage, LockedNeverFatal, RestsUsable
  <2> QED BY <2>3, <2>4
<1> QED BY <1>1, <1>2 DEF Next, Retry, Done

\* The invariant holds always.
LEMMA AlwaysInv == Spec => []Inv
BY InitInv, NextInv, PTL DEF Spec

-----------------------------------------------------------------------------
(* The theorems *)

\* The file never holds more than POOLSIZE pieces, and no process reads or
\* writes beyond them, with file locks or without (read_seed_file, the write
\* loop of _gcry_rngcsprng_update_seed_file).
THEOREM SeedFileType == Spec => []TypeOK
<1>1. Inv => TypeOK
  BY DEF Inv
<1> QED BY <1>1, AlwaysInv, PTL

\* Whatever number of processes share the file, die and are started again: what
\* read_seed_file feeds into a pool is one image as one update wrote it, in builds
\* that empty the file under its lock only (not on Cygwin, not without locks).
THEOREM SeedFileImage == Spec => []OneImage
<1>1. Inv => OneImage
  BY DEF Inv
<1> QED BY <1>1, AlwaysInv, PTL

\* In builds that empty the file under its lock only (not on Cygwin, not without
\* locks), no process is ended by log_fatal because of another one.
THEOREM SeedFileNotFatal == Spec => []LockedNeverFatal
<1>1. Inv => LockedNeverFatal
  BY DEF Inv
<1> QED BY <1>1, AlwaysInv, PTL

\* In the same builds, and without faults, an unlocked file is whole, empty or
\* absent.
THEOREM SeedFileUsable == Spec => []RestsUsable
<1>1. Inv => RestsUsable
  BY DEF Inv
<1> QED BY <1>1, AlwaysInv, PTL
=============================================================================
