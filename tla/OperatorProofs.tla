---------------------------- MODULE OperatorProofs ----------------------------
(***************************************************************************)
(* Invariants of Operator, and of Files below it, proved for every set of  *)
(* calls, tools, tiers and files, and every bound.                         *)
(***************************************************************************)
EXTENDS Operator, FiniteSetTheorems, TLAPS

FetchPcs == {"none", "get", "body", "ok", "failed"}
FetchType == [pc : FetchPcs, fd : Inodes \cup {0}, at : Nat, bad : BOOLEAN]
UploadType == [pc : {"none", "write", "ok", "failed"}, fd : Inodes \cup {0}, at : Nat]

\* The type of the files' variables; only what writes has a file open.
FetchOpen(j) ==
    /\ fetch[j].pc # "body" => fetch[j].fd = 0 /\ fetch[j].at = 0 /\ fetch[j].bad = FALSE
    /\ fetch[j].pc \in {"get", "body"} => carries[j] \in FileNames
    /\ fetch[j].pc = "body" => fetch[j].fd \in Inodes /\ fetch[j].at <= Size[carries[j]]
UploadOpen(u) ==
    /\ upload[u].pc # "write" => upload[u].fd = 0 /\ upload[u].at = 0
    /\ upload[u].pc = "write" => /\ upload[u].fd \in Inodes /\ carries[u] \in FileNames
                                 /\ upload[u].at <= Size[carries[u]]
FilesShape ==
    /\ FilesTypeOK
    /\ \A j \in Fetches : FetchOpen(j)
    /\ \A u \in Uploads : UploadOpen(u)

\* A block n times; what a writer has written.
Same(b, n) == [i \in 1 .. n |-> b]
Wrote(w, n) == Same(carries[w], n)

\* While no two writers met and none in place was cut off: a pull has `<dest>.part` to
\* itself, an upload writes no file but `<dest>` or one that has no name any more, and
\* `<dest>` is whole unless it is being written.
OneWriter ==
    /\ \A i, j \in Fetches : fetch[i].pc = "body" /\ fetch[j].pc = "body" => i = j
    /\ \A u, v \in Uploads : upload[u].pc = "write" /\ upload[v].pc = "write" => u = v
Apart ==
    /\ part # 0 => part # dest
    /\ \A j \in Fetches : fetch[j].pc = "body" => fetch[j].fd = part
    /\ \A u \in Uploads : upload[u].pc = "write" => upload[u].fd # part
Progress ==
    /\ \A j \in Fetches : fetch[j].pc = "body" /\ ~fetch[j].bad => disk[fetch[j].fd] = Wrote(j, fetch[j].at)
    /\ \A u \in Uploads : upload[u].pc = "write" => disk[upload[u].fd] = Wrote(u, upload[u].at)
DestWhole ==
    dest # 0 /\ (\A u \in Uploads : upload[u].pc = "write" => upload[u].fd # dest)
    => \E f \in FileNames : disk[dest] = Body(f)
WholeInv == ~crossed => OneWriter /\ Apart /\ Progress /\ DestWhole

\* A pull is started once; it lands, if at all, before it is reported.
Landing(j) ==
    /\ fetch[j].pc # "none" => status[j] = "fetching"
    /\ fetch[j].pc \in {"get", "body", "failed"} => landed[j] = <<>>
    /\ fetch[j].pc = "ok" => landed[j] # <<>>
    /\ fetch[j].pc = "none" => status[j] # "fetching"
    /\ status[j] \in {"unknown", "failed"} => landed[j] = <<>>
    /\ status[j] = "ok" => landed[j] # <<>>
    /\ landed[j] # <<>> => crossed \/ landed[j] = <<Body(carries[j])>>
LandInv == \A j \in Fetches : Landing(j)
-----------------------------------------------------------------------------
(***************************************************************************)
(* The files.                                                              *)
(***************************************************************************)

LEMMA WritersApart == /\ IsFiniteSet(Fetches) /\ IsFiniteSet(Uploads)
                      /\ \A j \in Fetches, u \in Uploads : j # u
<1>1. IsFiniteSet(Fetches) /\ IsFiniteSet(Uploads)
  BY FilesConstantsOK
<1>2. ASSUME NEW j \in Fetches, NEW u \in Uploads
      PROVE  j # u
  <2>1. j \in Calls \X {"pull"} /\ u \in Calls \X {"asked", "late"}
    BY OperatorConstantsOK
  <2> QED  BY <2>1
<1> QED  BY <1>1, <1>2

LEMMA InodesNat == /\ Inodes \subseteq Nat \ {0} /\ Cardinality(Fetches) \in Nat /\ Cardinality(Uploads) \in Nat
                   /\ IsFiniteSet(Inodes) /\ Cardinality(Inodes) = Cardinality(Fetches) + Cardinality(Uploads) + 1
<1>1. Cardinality(Fetches) \in Nat /\ Cardinality(Uploads) \in Nat
  BY WritersApart, FS_CardinalityType
<1> DEFINE n == Cardinality(Fetches) + Cardinality(Uploads) + 1
<1>2. n \in Nat /\ n >= 1  BY <1>1
<1>3. Inodes = 1 .. n  BY DEF Inodes
<1> HIDE DEF n
<1>4. IsFiniteSet(1 .. n) /\ Cardinality(1 .. n) = n
  <2>1. IsFiniteSet(1 .. n) /\ Cardinality(1 .. n) = IF 1 > n THEN 0 ELSE n - 1 + 1
    BY <1>2, FS_Interval
  <2> QED  BY <2>1, <1>2
<1>5. 1 .. n \subseteq Nat \ {0}  BY <1>2
<1> QED  BY <1>1, <1>3, <1>4, <1>5 DEF n

\* What a finite number of openers have open is finite, and no more than they are.
LEMMA FewImages ==
    ASSUME NEW S, IsFiniteSet(S), NEW f
    PROVE  LET T == {f[x].fd : x \in S} IN IsFiniteSet(T) /\ Cardinality(T) <= Cardinality(S)
<1> DEFINE T == {f[x].fd : x \in S}
           g == [x \in S |-> f[x].fd]
<1>1. g \in Surjection(S, T)
  <2>1. g \in [S -> T]  OBVIOUS
  <2>2. \A y \in T : \E x \in S : g[x] = y  OBVIOUS
  <2> QED  BY <2>1, <2>2 DEF Surjection
<1> HIDE DEF T, g
<1>2. IsFiniteSet(T) /\ Cardinality(T) <= Cardinality(S)
  BY <1>1, FS_Surjection
<1> QED  BY <1>2 DEF T

\* There is an inode for one writer more: one that has none has none open, and one of the
\* two names is free.
LEMMA FreeIsFree ==
    ASSUME FilesTypeOK, dest = 0 \/ part = 0,
           (\E j \in Fetches : fetch[j].fd = 0) \/ (\E u \in Uploads : upload[u].fd = 0)
    PROVE  Free \in Inodes /\ Free \notin OpenFds /\ Free # dest /\ Free # part
<1> DEFINE A == {fetch[j].fd : j \in Fetches}
           B == {upload[u].fd : u \in Uploads}
           x == IF dest = 0 THEN part ELSE dest
           nf == Cardinality(Fetches)
           nu == Cardinality(Uploads)
<1>1. IsFiniteSet(A) /\ Cardinality(A) <= nf  BY FewImages, WritersApart
<1>2. IsFiniteSet(B) /\ Cardinality(B) <= nu  BY FewImages, WritersApart
<1>3. OpenFds = A \cup B  BY DEF OpenFds
<1>4. 0 \in A \cup B  OBVIOUS
<1>5. nf \in Nat /\ nu \in Nat  BY InodesNat
<1> HIDE DEF A, B, nf, nu
<1>6. IsFiniteSet(A \cup B) /\ Cardinality(A \cup B) <= nf + nu
  <2>1. /\ IsFiniteSet(A \cup B)
        /\ Cardinality(A \cup B) = Cardinality(A) + Cardinality(B) - Cardinality(A \cap B)
    BY <1>1, <1>2, FS_Union
  <2>2. Cardinality(A) \in Nat /\ Cardinality(B) \in Nat  BY <1>1, <1>2, FS_CardinalityType
  <2>3. Cardinality(A \cap B) \in Nat
    <3>1. IsFiniteSet(A \cap B)  BY <1>1, FS_Intersection
    <3> QED  BY <3>1, FS_CardinalityType
  <2> QED  BY <2>1, <2>2, <2>3, <1>1, <1>2, <1>5
<1> DEFINE S == (A \cup B) \cup {x}
<1>7. IsFiniteSet(S) /\ Cardinality(S) <= nf + nu + 1
  <2>1. /\ IsFiniteSet(S)
        /\ Cardinality(S) = IF x \in A \cup B THEN Cardinality(A \cup B) ELSE Cardinality(A \cup B) + 1
    BY <1>6, FS_AddElement
  <2>2. Cardinality(A \cup B) \in Nat  BY <1>6, FS_CardinalityType
  <2> QED  BY <2>1, <2>2, <1>6, <1>5
<1>8. S = OpenFds \cup {dest, part}
  BY <1>3, <1>4
<1>9. \E i \in Inodes : i \notin S
  <2> SUFFICES ASSUME \A i \in Inodes : i \in S PROVE FALSE
    OBVIOUS
  <2> DEFINE Z == Inodes \cup {0}
  <2>1. Z \subseteq S  BY <1>4
  <2>2. IsFiniteSet(Z) /\ Cardinality(Z) = nf + nu + 2
    <3>1. IsFiniteSet(Inodes) /\ 0 \notin Inodes /\ Cardinality(Inodes) = nf + nu + 1
      BY InodesNat DEF nf, nu
    <3>2. IsFiniteSet(Z) /\ Cardinality(Z) = Cardinality(Inodes) + 1
      BY <3>1, FS_AddElement
    <3> QED  BY <3>1, <3>2, <1>5
  <2>3. Cardinality(Z) <= Cardinality(S)
    <3> HIDE DEF Z, S
    <3> QED  BY <2>1, <1>7, FS_Subset
  <2>4. Cardinality(S) \in Nat  BY <1>7, FS_CardinalityType
  <2> QED  BY <2>2, <2>3, <2>4, <1>5, <1>7
<1>10. \E i \in Inodes : i \notin OpenFds \cup {dest, part}
  BY <1>8, <1>9
<1>11. Free \in Inodes /\ Free \notin OpenFds \cup {dest, part}
  BY <1>10 DEF Free
<1> QED  BY <1>11

\* The file a writer starts with is empty; it is the one that has the name, or one that
\* nobody has open.
LEMMA CreateIs ==
    ASSUME FilesTypeOK, NEW name \in {dest, part},
           (\E j \in Fetches : fetch[j].fd = 0) \/ (\E u \in Uploads : upload[u].fd = 0)
    PROVE  LET c == Create(name) IN
              /\ c.inode \in Inodes
              /\ name # 0 => c.inode = name
              /\ name = 0 => c.inode \notin OpenFds /\ c.inode # dest /\ c.inode # part
              /\ c.disk \in [Inodes -> Seq(Blocks)]
              /\ c.disk[c.inode] = <<>>
              /\ \A i \in Inodes : i # c.inode => c.disk[i] = disk[i]
<1> DEFINE c == Create(name)
           k == IF name = 0 THEN Free ELSE name
<1>1. c.inode = k /\ c.disk = [disk EXCEPT ![k] = <<>>]
  BY DEF Create
<1>2. disk \in [Inodes -> Seq(Blocks)] /\ name \in Inodes \cup {0}
  BY DEF FilesTypeOK
<1>3. k \in Inodes /\ (name = 0 => k \notin OpenFds /\ k # dest /\ k # part)
  <2>1. CASE name = 0
    <3>1. dest = 0 \/ part = 0  BY <2>1
    <3> QED  BY <3>1, <2>1, FreeIsFree
  <2>2. CASE name # 0
    BY <2>2, <1>2
  <2> QED  BY <2>1, <2>2
<1>4. name # 0 => k = name  OBVIOUS
<1> HIDE DEF c, k
<1>5. <<>> \in Seq(Blocks)  OBVIOUS
<1>6. c.disk \in [Inodes -> Seq(Blocks)]  BY <1>1, <1>2, <1>3, <1>5
<1>7. c.disk[c.inode] = <<>> /\ \A i \in Inodes : i # c.inode => c.disk[i] = disk[i]
  BY <1>1, <1>2, <1>3
<1>8. /\ c.inode \in Inodes
      /\ name # 0 => c.inode = name
      /\ name = 0 => c.inode \notin OpenFds /\ c.inode # dest /\ c.inode # part
  BY <1>1, <1>3, <1>4
<1> QED  BY <1>6, <1>7, <1>8 DEF c

\* A write lands in the file it is for, behind what is there when it is the next block.
LEMMA WriteAtIs ==
    ASSUME disk \in [Inodes -> Seq(Blocks)], NEW i \in Inodes, NEW k \in Nat \ {0}, NEW b \in Blocks
    PROVE  /\ WriteAt(i, k, b) \in [Inodes -> Seq(Blocks)]
           /\ \A h \in Inodes : h # i => WriteAt(i, k, b)[h] = disk[h]
           /\ disk[i] = Same(b, k - 1) => WriteAt(i, k, b)[i] = Same(b, k)
<1> DEFINE old == disk[i]
           len == IF Len(old) < k THEN k ELSE Len(old)
           new == [n \in 1 .. len |-> IF n = k THEN b ELSE IF n <= Len(old) THEN old[n] ELSE Hole]
<1>1. WriteAt(i, k, b) = [disk EXCEPT ![i] = new]
  BY DEF WriteAt
<1>2. old \in Seq(Blocks) /\ Len(old) \in Nat  OBVIOUS
<1>3. len \in Nat  BY <1>2
<1>4. new \in Seq(Blocks)
  <2>1. \A n \in 1 .. len : new[n] \in Blocks
    <3> SUFFICES ASSUME NEW n \in 1 .. len PROVE new[n] \in Blocks
      OBVIOUS
    <3>1. n <= Len(old) => old[n] \in Blocks  BY <1>2
    <3>2. Hole \in Blocks  BY DEF Blocks
    <3> QED  BY <3>1, <3>2
  <2>2. new \in [1 .. len -> Blocks]  BY <2>1
  <2> HIDE DEF new, len
  <2> QED  BY <2>2, <1>3
<1>5. old = [n \in 1 .. k - 1 |-> b] => new = [n \in 1 .. k |-> b]
  <2> SUFFICES ASSUME old = [n \in 1 .. k - 1 |-> b] PROVE new = [n \in 1 .. k |-> b]
    OBVIOUS
  <2>1. k - 1 \in Nat  OBVIOUS
  <2>2. Len(old) = k - 1
    <3>1. DOMAIN old = 1 .. k - 1  OBVIOUS
    <3>2. DOMAIN old = 1 .. Len(old)  BY <1>2
    <3> HIDE DEF old
    <3> QED  BY <3>1, <3>2, <2>1, <1>2
  <2>3. len = k  BY <2>2
  <2>4. \A n \in 1 .. k : new[n] = b
    <3> SUFFICES ASSUME NEW n \in 1 .. k PROVE new[n] = b
      OBVIOUS
    <3>1. n # k => n \in 1 .. k - 1 /\ n <= Len(old)  BY <2>2
    <3>2. n # k => old[n] = b  BY <3>1
    <3>3. new[n] = IF n = k THEN b ELSE IF n <= Len(old) THEN old[n] ELSE Hole
      BY <2>3
    <3> HIDE DEF new, len, old
    <3> QED  BY <3>1, <3>2, <3>3
  <2>5. new = [n \in 1 .. len |-> new[n]]  OBVIOUS
  <2> HIDE DEF new, len
  <2>6. new = [n \in 1 .. k |-> new[n]]  BY <2>3, <2>5
  <2> QED  BY <2>4, <2>6
<1> HIDE DEF new, old
<1>6. WriteAt(i, k, b) \in [Inodes -> Seq(Blocks)]  BY <1>1, <1>4
<1>7. \A h \in Inodes : h # i => WriteAt(i, k, b)[h] = disk[h]  BY <1>1
<1>8. WriteAt(i, k, b)[i] = new  BY <1>1
<1>9. old = Same(b, k - 1) => new = Same(b, k)  BY <1>5 DEF Same
<1> QED  BY <1>9, <1>6, <1>7, <1>8 DEF old

-----------------------------------------------------------------------------
\* A step of the files: an action of Files, for a file of the operator's.
FilesNext ==
    \/ \E j \in Fetches : FetchStep(j) \/ \E f \in FileNames : FetchFile(j, f)
    \/ \E u \in Uploads : UpWrite(u) \/ (\E how \in {"ok", "failed"} : UpEnds(u, how))
                          \/ \E f \in FileNames : UpOpen(u, f)
    \/ FilesRestart

\* What a step does to one writer.
LEMMA Opened ==
    ASSUME fetch \in [Fetches -> FetchType], NEW j \in Fetches, NEW d \in Inodes,
           fetch' = [fetch EXCEPT ![j].pc = "body", ![j].fd = d]
    PROVE  /\ fetch' \in [Fetches -> FetchType]
           /\ fetch'[j].pc = "body" /\ fetch'[j].fd = d /\ fetch'[j].at = fetch[j].at
           /\ fetch'[j].bad = fetch[j].bad
           /\ \A i \in Fetches : i # j => fetch'[i] = fetch[i]
<1>1. fetch' \in [Fetches -> FetchType]  BY DEF FetchType, FetchPcs
<1>2. /\ fetch'[j].pc = "body" /\ fetch'[j].fd = d /\ fetch'[j].at = fetch[j].at
      /\ fetch'[j].bad = fetch[j].bad
  BY DEF FetchType
<1>3. \A i \in Fetches : i # j => fetch'[i] = fetch[i]  BY DEF FetchType
<1> QED  BY <1>1, <1>2, <1>3

LEMMA Received ==
    ASSUME fetch \in [Fetches -> FetchType], NEW j \in Fetches, NEW b,
           fetch' = [fetch EXCEPT ![j].at = @ + 1, ![j].bad = @ \/ b = Bad]
    PROVE  /\ fetch' \in [Fetches -> FetchType]
           /\ fetch'[j].pc = fetch[j].pc /\ fetch'[j].fd = fetch[j].fd
           /\ fetch'[j].at = fetch[j].at + 1
           /\ ~fetch'[j].bad => ~fetch[j].bad /\ b # Bad
           /\ \A i \in Fetches : i # j => fetch'[i] = fetch[i]
<1> DEFINE a == fetch[j].at + 1
           bad == fetch[j].bad \/ b = Bad
<1>1. /\ fetch'[j].pc = fetch[j].pc /\ fetch'[j].fd = fetch[j].fd /\ fetch'[j].at = a
      /\ fetch'[j].bad = bad
  BY DEF FetchType
<1>2. \A i \in Fetches : i # j => fetch'[i] = fetch[i]  BY DEF FetchType
<1>3. fetch'[j] \in FetchType
  <2>1. a \in Nat /\ bad \in BOOLEAN  BY DEF FetchType
  <2>2. fetch' = [fetch EXCEPT ![j].at = a, ![j].bad = bad]  BY DEF FetchType
  <2> HIDE DEF a, bad
  <2> QED  BY <2>1, <2>2 DEF FetchType
<1>4. DOMAIN fetch' = Fetches /\ fetch' = [i \in Fetches |-> fetch'[i]]  OBVIOUS
<1>5. fetch' \in [Fetches -> FetchType]
  <2>1. \A i \in Fetches : fetch'[i] \in FetchType
    <3>1. \A i \in Fetches : fetch[i] \in FetchType  OBVIOUS
    <3> QED  BY <1>2, <1>3, <3>1
  <2> QED  BY <1>4, <2>1
<1>6. ~fetch'[j].bad => ~fetch[j].bad /\ b # Bad  BY <1>1
<1> QED  BY <1>1, <1>2, <1>5, <1>6

LEMMA Uploaded ==
    ASSUME upload \in [Uploads -> UploadType], NEW u \in Uploads,
           upload' = [upload EXCEPT ![u].at = @ + 1]
    PROVE  /\ upload' \in [Uploads -> UploadType]
           /\ upload'[u].pc = upload[u].pc /\ upload'[u].fd = upload[u].fd
           /\ upload'[u].at = upload[u].at + 1
           /\ \A v \in Uploads : v # u => upload'[v] = upload[v]
<1>1. upload' \in [Uploads -> UploadType]  BY DEF UploadType
<1>2. /\ upload'[u].pc = upload[u].pc /\ upload'[u].fd = upload[u].fd
      /\ upload'[u].at = upload[u].at + 1
  BY DEF UploadType
<1>3. \A v \in Uploads : v # u => upload'[v] = upload[v]  BY DEF UploadType
<1> QED  BY <1>1, <1>2, <1>3

LEMMA UploadOver ==
    ASSUME upload \in [Uploads -> UploadType], NEW u \in Uploads, NEW how \in {"ok", "failed"},
           upload' = [upload EXCEPT ![u] = [Closed EXCEPT !.pc = how]]
    PROVE  /\ upload' \in [Uploads -> UploadType]
           /\ upload'[u].pc = how /\ upload'[u].fd = 0 /\ upload'[u].at = 0
           /\ \A v \in Uploads : v # u => upload'[v] = upload[v]
<1> DEFINE rec == [Closed EXCEPT !.pc = how]
<1>1. rec \in UploadType /\ rec.pc = how /\ rec.fd = 0 /\ rec.at = 0  BY DEF UploadType, Closed
<1> HIDE DEF rec
<1> QED  BY <1>1 DEF rec

LEMMA FilesShapeStep == ASSUME FilesShape, FilesNext PROVE FilesShape'
<1> USE DEF FilesShape, names, FetchOpen, UploadOpen
<1>0. /\ disk \in [Inodes -> Seq(Blocks)]
      /\ folder \in Folders
      /\ dest \in Inodes \cup {0} /\ part \in Inodes \cup {0}
      /\ fetch \in [Fetches -> FetchType]
      /\ status \in [Fetches -> {"unknown", "fetching", "ok", "failed", "lost"}]
      /\ upload \in [Uploads -> UploadType]
      /\ carries \in [Fetches \cup Uploads -> FileNames \cup {"none"}]
      /\ landed \in [Fetches -> Seq(Seq(Blocks))]
      /\ crossed \in BOOLEAN /\ faults \in Nat
  BY DEF FilesTypeOK, FetchType, UploadType, FetchPcs
<1>s. Size \in [FileNames -> Nat \ {0}]  BY FilesConstantsOK
<1>w. \A j \in Fetches, u \in Uploads : j # u  BY WritersApart
<1>i. 0 \notin Inodes  BY InodesNat
<1>1. ASSUME NEW j \in Fetches, NEW f \in FileNames, FetchFile(j, f) PROVE FilesShape'
  <2>1. fetch' = [fetch EXCEPT ![j].pc = "get"] /\ fetch[j].pc = "none" /\ carries' = [carries EXCEPT ![j] = f]
    BY <1>1 DEF FetchFile
  <2>2. /\ fetch' \in [Fetches -> FetchType]
        /\ carries' \in [Fetches \cup Uploads -> FileNames \cup {"none"}]
        /\ status' \in [Fetches -> {"unknown", "fetching", "ok", "failed", "lost"}]
    BY <1>1, <1>0 DEF FetchFile, FetchType, FetchPcs
  <2>3. FilesTypeOK'
    BY <1>1, <1>0, <2>2 DEF FetchFile, FilesTypeOK, FetchType, UploadType, FetchPcs
  <2> QED  BY <1>1, <1>0, <1>w, <2>1, <2>3 DEF FetchFile, FetchType, FetchPcs
<1>2. ASSUME NEW j \in Fetches, Get(j) PROVE FilesShape'
  <2> DEFINE c == Create(part)
  <2>1. fetch[j].fd = 0 /\ fetch[j].at = 0 /\ fetch[j].bad = FALSE /\ carries[j] \in FileNames
    BY <1>2 DEF Get
  <2>2. c.inode \in Inodes /\ c.disk \in [Inodes -> Seq(Blocks)]
    BY <2>1, CreateIs
  <2>3. /\ fetch' = [fetch EXCEPT ![j].pc = "body", ![j].fd = c.inode]
        /\ disk' = c.disk /\ part' = c.inode
        /\ crossed' = (crossed \/ \E i \in Fetches : fetch[i].pc = "body")
        /\ UNCHANGED <<folder, dest, status, upload, carries, faults, landed>>
    BY <1>2 DEF Get
  <2> HIDE DEF c
  <2>f. /\ fetch' \in [Fetches -> FetchType]
        /\ fetch'[j].pc = "body" /\ fetch'[j].fd = c.inode /\ fetch'[j].at = 0 /\ fetch'[j].bad = FALSE
        /\ \A i \in Fetches : i # j => fetch'[i] = fetch[i]
    <3>1. fetch \in [Fetches -> FetchType]  BY <1>0
    <3>2. c.inode \in Inodes /\ fetch' = [fetch EXCEPT ![j].pc = "body", ![j].fd = c.inode]  BY <2>2, <2>3
    <3>3. /\ fetch' \in [Fetches -> FetchType]
          /\ fetch'[j].pc = "body" /\ fetch'[j].fd = c.inode /\ fetch'[j].at = fetch[j].at
          /\ fetch'[j].bad = fetch[j].bad
          /\ \A i \in Fetches : i # j => fetch'[i] = fetch[i]
      BY <3>1, <3>2, Opened
    <3> QED  BY <3>3, <2>1
  <2>5. FilesTypeOK'
    BY <2>2, <2>3, <2>f, <1>0 DEF FilesTypeOK, FetchType, UploadType, FetchPcs
  <2> QED  BY <1>0, <1>s, <2>1, <2>2, <2>f, <2>3, <2>5
<1>3. ASSUME NEW j \in Fetches, Receive(j) PROVE FilesShape'
  <2>1. fetch[j].pc = "body" /\ fetch[j].at < Size[carries[j]] /\ carries[j] \in FileNames /\ fetch[j].fd \in Inodes
    BY <1>3 DEF Receive
  <2>2. PICK b \in {carries[j]} \cup (IF faults > 0 THEN {Bad} ELSE {}) :
             /\ disk' = WriteAt(fetch[j].fd, fetch[j].at + 1, b)
             /\ fetch' = [fetch EXCEPT ![j].at = @ + 1, ![j].bad = @ \/ b = Bad]
             /\ faults' = IF b = Bad THEN faults - 1 ELSE faults
    BY <1>3 DEF Receive
  <2>3. b \in Blocks  BY <2>1, <2>2 DEF Blocks
  <2>4. fetch[j].at \in Nat /\ fetch[j].at + 1 \in Nat \ {0}  BY <1>0 DEF FetchType
  <2>5. disk' \in [Inodes -> Seq(Blocks)]
    <3>1. WriteAt(fetch[j].fd, fetch[j].at + 1, b) \in [Inodes -> Seq(Blocks)]
      BY <1>0, <2>1, <2>3, <2>4, WriteAtIs
    <3> QED  BY <3>1, <2>2
  <2>6. /\ fetch' \in [Fetches -> FetchType]
        /\ fetch'[j].pc = "body" /\ fetch'[j].fd = fetch[j].fd /\ fetch'[j].at = fetch[j].at + 1
        /\ \A i \in Fetches : i # j => fetch'[i] = fetch[i]
    BY <1>0, <2>1, <2>2, Received
  <2>7. faults' \in Nat
    <3>1. b = Bad => b \notin FileNames  BY FilesConstantsOK
    <3>2. b = Bad => faults > 0  BY <3>1, <2>1, <2>2
    <3> QED  BY <3>2, <2>2, <1>0
  <2>8. UNCHANGED <<folder, dest, part, status, upload, carries, landed, crossed>>
    BY <1>3 DEF Receive
  <2>9. FilesTypeOK'
    BY <2>5, <2>6, <2>7, <2>8, <1>0 DEF FilesTypeOK, FetchType, UploadType, FetchPcs
  <2>10. fetch[j].at + 1 <= Size[carries[j]]  BY <2>1, <2>4, <1>s
  <2> QED  BY <1>0, <2>1, <2>6, <2>8, <2>9, <2>10
<1>4. ASSUME NEW j \in Fetches, NEW how \in FetchPcs, FetchEnds(j, how)
      PROVE  /\ fetch' \in [Fetches -> FetchType]
             /\ fetch'[j] = [pc |-> how, fd |-> 0, at |-> 0, bad |-> FALSE]
             /\ \A i \in Fetches : i # j => fetch'[i] = fetch[i]
  BY <1>4, <1>0 DEF FetchEnds, Idle, FetchType
<1>5. ASSUME NEW j \in Fetches, FetchFails(j) PROVE FilesShape'
  <2>1. FetchEnds(j, "failed") /\ "failed" \in FetchPcs  BY <1>5 DEF FetchFails, FetchPcs
  <2>2. /\ fetch' \in [Fetches -> FetchType]
        /\ fetch'[j] = [pc |-> "failed", fd |-> 0, at |-> 0, bad |-> FALSE]
        /\ \A i \in Fetches : i # j => fetch'[i] = fetch[i]
    BY <1>4, <2>1
  <2>3. faults' \in Nat  BY <1>0, <1>5 DEF FetchFails
  <2>4. UNCHANGED <<folder, disk, dest, part, status, upload, carries, landed, crossed>>  BY <1>5 DEF FetchFails
  <2>5. FilesTypeOK'
    BY <2>2, <2>3, <2>4, <1>0 DEF FilesTypeOK, FetchType, UploadType, FetchPcs
  <2>j. FetchOpen(j)'  BY <2>2
  <2>i. \A i \in Fetches : i # j => FetchOpen(i)'  BY <2>2, <2>4
  <2>u. \A u \in Uploads : UploadOpen(u)'  BY <2>4
  <2> QED  BY <2>5, <2>j, <2>i, <2>u
<1>6. ASSUME NEW j \in Fetches, FetchLands(j) PROVE FilesShape'
  <2>1. PICK how \in {"ok", "failed"} : FetchEnds(j, how)  BY <1>6 DEF FetchLands
  <2>2. /\ fetch' \in [Fetches -> FetchType]
        /\ fetch'[j] = [pc |-> how, fd |-> 0, at |-> 0, bad |-> FALSE]
        /\ \A i \in Fetches : i # j => fetch'[i] = fetch[i]
    <3>1. how \in FetchPcs  BY DEF FetchPcs
    <3> QED  BY <1>4, <2>1, <3>1
  <2>3. dest' \in Inodes \cup {0} /\ part' \in Inodes \cup {0}  BY <1>6, <1>0 DEF FetchLands
  <2>4. landed' \in [Fetches -> Seq(Seq(Blocks))]
    <3>1. CASE landed' = landed  BY <3>1, <1>0
    <3>2. CASE part # 0 /\ landed' = [landed EXCEPT ![j] = <<disk[part]>>]
      <4>1. <<disk[part]>> \in Seq(Seq(Blocks))  BY <3>2, <1>0
      <4> QED  BY <3>2, <4>1, <1>0
    <3> QED  BY <3>1, <3>2, <1>6 DEF FetchLands
  <2>5. UNCHANGED <<folder, disk, status, upload, carries, faults, crossed>>  BY <1>6 DEF FetchLands
  <2>6. FilesTypeOK'
    BY <2>2, <2>3, <2>4, <2>5, <1>0 DEF FilesTypeOK, FetchType, UploadType, FetchPcs
  <2>j. FetchOpen(j)'  BY <2>2
  <2>i. \A i \in Fetches : i # j => FetchOpen(i)'  BY <2>2, <2>5
  <2>u. \A u \in Uploads : UploadOpen(u)'  BY <2>5
  <2> QED  BY <2>6, <2>j, <2>i, <2>u
<1>7. ASSUME NEW j \in Fetches, FetchReports(j) PROVE FilesShape'
  <2>1. fetch' = [fetch EXCEPT ![j] = Idle] /\ "none" \in FetchPcs  BY <1>7 DEF FetchReports, FetchPcs
  <2>2. /\ fetch' \in [Fetches -> FetchType]
        /\ fetch'[j] = [pc |-> "none", fd |-> 0, at |-> 0, bad |-> FALSE]
        /\ \A i \in Fetches : i # j => fetch'[i] = fetch[i]
    BY <2>1, <1>0 DEF Idle, FetchType
  <2>3. status' \in [Fetches -> {"unknown", "fetching", "ok", "failed", "lost"}]
    BY <1>7, <1>0 DEF FetchReports
  <2>4. UNCHANGED <<folder, disk, dest, part, upload, carries, faults, landed, crossed>>  BY <1>7 DEF FetchReports
  <2>5. FilesTypeOK'
    BY <2>2, <2>3, <2>4, <1>0 DEF FilesTypeOK, FetchType, UploadType, FetchPcs
  <2>j. FetchOpen(j)'  BY <2>2
  <2>i. \A i \in Fetches : i # j => FetchOpen(i)'  BY <2>2, <2>4
  <2>u. \A u \in Uploads : UploadOpen(u)'  BY <2>4
  <2> QED  BY <2>5, <2>j, <2>i, <2>u
<1>8. ASSUME NEW u \in Uploads, NEW f \in FileNames, UpOpen(u, f) PROVE FilesShape'
  <2> DEFINE c == Create(dest)
             rec == [pc |-> "write", fd |-> c.inode, at |-> 0]
  <2>1. upload[u].fd = 0  BY <1>8 DEF UpOpen
  <2>2. c.inode \in Inodes /\ c.disk \in [Inodes -> Seq(Blocks)]
    BY <2>1, CreateIs
  <2>3. /\ upload' = [upload EXCEPT ![u] = rec]
        /\ carries' = [carries EXCEPT ![u] = f]
        /\ disk' = c.disk /\ dest' = c.inode
        /\ crossed' = (crossed \/ \E v \in Uploads : upload[v].pc = "write")
        /\ UNCHANGED <<folder, part, fetch, status, faults, landed>>
    BY <1>8 DEF UpOpen
  <2>4. rec \in UploadType  BY <2>2 DEF UploadType
  <2>5. rec.pc = "write" /\ rec.fd = c.inode /\ rec.at = 0  OBVIOUS
  <2> HIDE DEF c, rec
  <2>6. FilesTypeOK'
    BY <2>2, <2>3, <2>4, <1>0 DEF FilesTypeOK, FetchType, UploadType, FetchPcs
  <2> QED  BY <1>0, <1>s, <1>w, <2>2, <2>3, <2>5, <2>6
<1>9. ASSUME NEW u \in Uploads, UpWrite(u) PROVE FilesShape'
  <2>1. upload[u].pc = "write" /\ upload[u].at < Size[carries[u]] /\ carries[u] \in FileNames /\ upload[u].fd \in Inodes
    BY <1>9 DEF UpWrite
  <2>2. upload[u].at \in Nat /\ upload[u].at + 1 \in Nat \ {0}  BY <1>0 DEF UploadType
  <2>3. disk' \in [Inodes -> Seq(Blocks)]
    <3>1. carries[u] \in Blocks  BY <2>1 DEF Blocks
    <3>2. WriteAt(upload[u].fd, upload[u].at + 1, carries[u]) \in [Inodes -> Seq(Blocks)]
      BY <1>0, <2>1, <2>2, <3>1, WriteAtIs
    <3> QED  BY <3>2, <1>9 DEF UpWrite
  <2>4. upload' = [upload EXCEPT ![u].at = @ + 1]  BY <1>9 DEF UpWrite
  <2>5. /\ upload' \in [Uploads -> UploadType]
        /\ upload'[u].pc = "write" /\ upload'[u].fd = upload[u].fd /\ upload'[u].at = upload[u].at + 1
        /\ \A v \in Uploads : v # u => upload'[v] = upload[v]
    BY <1>0, <2>1, <2>4, Uploaded
  <2>6. UNCHANGED <<folder, dest, part, fetch, status, carries, faults, landed, crossed>>  BY <1>9 DEF UpWrite
  <2>7. FilesTypeOK'
    BY <2>3, <2>5, <2>6, <1>0 DEF FilesTypeOK, FetchType, UploadType, FetchPcs
  <2>8. upload[u].at + 1 <= Size[carries[u]]  BY <2>1, <2>2, <1>s
  <2> QED  BY <1>0, <2>1, <2>5, <2>6, <2>7, <2>8
<1>10. ASSUME NEW u \in Uploads, NEW how \in {"ok", "failed"}, UpEnds(u, how) PROVE FilesShape'
  <2>1. faults' \in Nat /\ crossed' \in BOOLEAN
    <3>1. CASE faults' = faults /\ crossed' = crossed
      BY <3>1, <1>0
    <3>2. CASE faults > 0 /\ faults' = faults - 1 /\ crossed' = TRUE
      BY <3>2, <1>0
    <3> QED  BY <3>1, <3>2, <1>10 DEF UpEnds
  <2>2. /\ upload' \in [Uploads -> UploadType]
        /\ upload'[u].pc = how /\ upload'[u].fd = 0 /\ upload'[u].at = 0
        /\ \A v \in Uploads : v # u => upload'[v] = upload[v]
    <3>1. upload' = [upload EXCEPT ![u] = [Closed EXCEPT !.pc = how]]  BY <1>10 DEF UpEnds
    <3> QED  BY <1>0, <3>1, UploadOver
  <2>3. UNCHANGED <<folder, disk, dest, part, fetch, status, carries, landed>>  BY <1>10 DEF UpEnds
  <2>4. FilesTypeOK'
    BY <2>1, <2>2, <2>3, <1>0 DEF FilesTypeOK, FetchType, UploadType, FetchPcs
  <2> QED  BY <2>1, <2>2, <2>3, <2>4, <1>0
<1>11. CASE FilesRestart
  <2>1. /\ fetch' = [j \in Fetches |-> Idle]
        /\ UNCHANGED <<folder, disk, dest, part, carries, faults, landed>>
        /\ crossed' \in BOOLEAN
        /\ status' \in [Fetches -> {"unknown", "fetching", "ok", "failed", "lost"}]
    BY <1>11, <1>0 DEF FilesRestart
  <2>2. Idle \in FetchType /\ Idle.pc = "none" /\ Idle.fd = 0 /\ Idle.at = 0 /\ Idle.bad = FALSE
    BY DEF Idle, FetchType, FetchPcs
  <2> DEFINE rec == [Closed EXCEPT !.pc = "failed"]
  <2>3. rec \in UploadType /\ rec.pc = "failed" /\ rec.fd = 0 /\ rec.at = 0  BY DEF Closed, UploadType
  <2>4. upload' = [u \in Uploads |-> IF upload[u].pc = "write" THEN rec ELSE upload[u]]
    BY <1>11 DEF FilesRestart
  <2> HIDE DEF rec
  <2>5. upload' \in [Uploads -> UploadType]  BY <2>3, <2>4, <1>0
  <2>6. FilesTypeOK'
    BY <2>1, <2>2, <2>5, <1>0 DEF FilesTypeOK, FetchType, UploadType, FetchPcs
  <2> QED  BY <2>1, <2>2, <2>3, <2>4, <2>6, <1>0
<1> HIDE DEF FilesShape, FetchOpen, UploadOpen
<1> QED  BY <1>1, <1>2, <1>3, <1>5, <1>6, <1>7, <1>8, <1>9, <1>10, <1>11 DEF FilesNext, FetchStep

-----------------------------------------------------------------------------
\* The types of the files' variables, one by one.
LEMMA FilesTypes ==
    ASSUME FilesShape
    PROVE  /\ disk \in [Inodes -> Seq(Blocks)]
           /\ dest \in Inodes \cup {0} /\ part \in Inodes \cup {0}
           /\ fetch \in [Fetches -> FetchType]
           /\ upload \in [Uploads -> UploadType]
           /\ carries \in [Fetches \cup Uploads -> FileNames \cup {"none"}]
           /\ landed \in [Fetches -> Seq(Seq(Blocks))]
           /\ crossed \in BOOLEAN /\ faults \in Nat
BY DEF FilesShape, FilesTypeOK, FetchType, UploadType, FetchPcs

\* What Get, Receive, UpOpen and UpWrite do to the files.
LEMMA GetDoes ==
    ASSUME FilesShape, NEW j \in Fetches, Get(j)
    PROVE  /\ part' \in Inodes /\ (part # 0 => part' = part)
           /\ part = 0 => part' \notin OpenFds /\ part' # dest
           /\ disk'[part'] = <<>> /\ \A i \in Inodes : i # part' => disk'[i] = disk[i]
           /\ fetch'[j].pc = "body" /\ fetch'[j].fd = part' /\ fetch'[j].at = 0
           /\ \A i \in Fetches : i # j => fetch'[i] = fetch[i]
           /\ crossed' = (crossed \/ \E i \in Fetches : fetch[i].pc = "body")
           /\ UNCHANGED <<dest, upload, carries>>
<1> DEFINE c == Create(part)
<1>1. /\ fetch' = [fetch EXCEPT ![j].pc = "body", ![j].fd = c.inode]
      /\ disk' = c.disk /\ part' = c.inode
      /\ crossed' = (crossed \/ \E i \in Fetches : fetch[i].pc = "body")
      /\ UNCHANGED <<dest, upload, carries>>
  BY DEF Get
<1>2. FilesTypeOK /\ fetch[j].fd = 0 /\ fetch[j].at = 0  BY DEF FilesShape, FetchOpen, Get
<1>3. /\ c.inode \in Inodes /\ (part # 0 => c.inode = part)
      /\ part = 0 => c.inode \notin OpenFds /\ c.inode # dest /\ c.inode # part
      /\ c.disk[c.inode] = <<>> /\ \A i \in Inodes : i # c.inode => c.disk[i] = disk[i]
  BY <1>2, CreateIs
<1> HIDE DEF c
<1>4. fetch \in [Fetches -> FetchType]  BY FilesTypes
<1>5. /\ fetch'[j].pc = "body" /\ fetch'[j].fd = c.inode /\ fetch'[j].at = fetch[j].at
      /\ \A i \in Fetches : i # j => fetch'[i] = fetch[i]
  <2>1. fetch' = [fetch EXCEPT ![j].pc = "body", ![j].fd = c.inode] /\ c.inode \in Inodes
    BY <1>1, <1>3
  <2> QED  BY <1>4, <2>1, Opened
<1> QED  BY <1>1, <1>2, <1>3, <1>5

LEMMA ReceiveDoes ==
    ASSUME FilesShape, NEW j \in Fetches, Receive(j)
    PROVE  /\ fetch[j].pc = "body" /\ fetch[j].fd \in Inodes /\ fetch[j].at \in Nat
           /\ fetch'[j].pc = "body" /\ fetch'[j].fd = fetch[j].fd /\ fetch'[j].at = fetch[j].at + 1
           /\ \A i \in Fetches : i # j => fetch'[i] = fetch[i]
           /\ \A h \in Inodes : h # fetch[j].fd => disk'[h] = disk[h]
           /\ ~fetch'[j].bad => /\ ~fetch[j].bad
                                /\ disk[fetch[j].fd] = Wrote(j, fetch[j].at)
                                   => disk'[fetch[j].fd] = Wrote(j, fetch[j].at + 1)
           /\ UNCHANGED <<dest, part, upload, carries, crossed>>
<1>1. fetch[j].pc = "body" /\ fetch[j].fd \in Inodes /\ carries[j] \in FileNames
  BY DEF FilesShape, FetchOpen, Receive
<1>2. fetch \in [Fetches -> FetchType] /\ disk \in [Inodes -> Seq(Blocks)]  BY FilesTypes
<1>3. PICK b \in {carries[j]} \cup (IF faults > 0 THEN {Bad} ELSE {}) :
           /\ disk' = WriteAt(fetch[j].fd, fetch[j].at + 1, b)
           /\ fetch' = [fetch EXCEPT ![j].at = @ + 1, ![j].bad = @ \/ b = Bad]
  BY DEF Receive
<1>4. /\ fetch'[j].pc = fetch[j].pc /\ fetch'[j].fd = fetch[j].fd /\ fetch'[j].at = fetch[j].at + 1
      /\ ~fetch'[j].bad => ~fetch[j].bad /\ b # Bad
      /\ \A i \in Fetches : i # j => fetch'[i] = fetch[i]
  <2>1. fetch \in [Fetches -> FetchType]  BY <1>2
  <2>2. fetch' = [fetch EXCEPT ![j].at = @ + 1, ![j].bad = @ \/ b = Bad]  BY <1>3
  <2> QED  BY <2>1, <2>2, Received
<1> DEFINE k == fetch[j].at + 1
           i == fetch[j].fd
<1>5. fetch[j].at \in Nat /\ k \in Nat \ {0} /\ k - 1 = fetch[j].at  BY <1>2 DEF FetchType
<1>6. b \in Blocks  BY <1>1, <1>3 DEF Blocks
<1>7. i \in Inodes  BY <1>1
<1>8. /\ \A h \in Inodes : h # i => WriteAt(i, k, b)[h] = disk[h]
      /\ disk[i] = Same(b, k - 1) => WriteAt(i, k, b)[i] = Same(b, k)
  <2>1. k \in Nat \ {0}  BY <1>5
  <2>2. disk \in [Inodes -> Seq(Blocks)]  BY <1>2
  <2> HIDE DEF k, i
  <2> QED  BY <2>1, <2>2, <1>6, <1>7, WriteAtIs
<1>9. disk' = WriteAt(i, k, b)  BY <1>3
<1>10. ~fetch'[j].bad => /\ ~fetch[j].bad
                         /\ disk[i] = Wrote(j, fetch[j].at) => disk'[i] = Wrote(j, k)
  <2> SUFFICES ASSUME ~fetch'[j].bad
               PROVE  /\ ~fetch[j].bad
                      /\ disk[i] = Wrote(j, fetch[j].at) => disk'[i] = Wrote(j, k)
    OBVIOUS
  <2>1. b = carries[j] /\ ~fetch[j].bad BY <1>3, <1>4
  <2>2. Wrote(j, k - 1) = Same(b, k - 1) /\ Wrote(j, k) = Same(b, k)
    BY <2>1 DEF Wrote
  <2> HIDE DEF k, i
  <2>3. disk[i] = Wrote(j, k - 1) => disk'[i] = Wrote(j, k)
    BY <2>2, <1>8, <1>9
  <2> QED  BY <2>1, <2>3, <1>5
<1>11. UNCHANGED <<dest, part, upload, carries, crossed>>  BY DEF Receive
<1>12. \A h \in Inodes : h # fetch[j].fd => disk'[h] = disk[h]
  <2> HIDE DEF k
  <2> QED  BY <1>8, <1>9
<1> QED  BY <1>1, <1>4, <1>5, <1>10, <1>11, <1>12

LEMMA UpOpenDoes ==
    ASSUME FilesShape, NEW u \in Uploads, NEW f \in FileNames, UpOpen(u, f)
    PROVE  /\ dest' \in Inodes /\ (dest # 0 => dest' = dest)
           /\ dest = 0 => dest' \notin OpenFds /\ dest' # part
           /\ disk'[dest'] = <<>> /\ \A i \in Inodes : i # dest' => disk'[i] = disk[i]
           /\ upload'[u].pc = "write" /\ upload'[u].fd = dest' /\ upload'[u].at = 0
           /\ \A v \in Uploads : v # u => upload'[v] = upload[v]
           /\ \A w \in Fetches \cup Uploads : w # u => carries'[w] = carries[w]
           /\ crossed' = (crossed \/ \E v \in Uploads : upload[v].pc = "write")
           /\ UNCHANGED <<part, fetch>>
<1> DEFINE c == Create(dest)
           rec == [pc |-> "write", fd |-> c.inode, at |-> 0]
<1>1. /\ upload' = [upload EXCEPT ![u] = rec] /\ carries' = [carries EXCEPT ![u] = f]
      /\ disk' = c.disk /\ dest' = c.inode
      /\ crossed' = (crossed \/ \E v \in Uploads : upload[v].pc = "write")
      /\ UNCHANGED <<part, fetch>>
  BY DEF UpOpen
<1>2. FilesTypeOK /\ upload[u].fd = 0  BY DEF FilesShape, UploadOpen, UpOpen
<1>3. /\ c.inode \in Inodes /\ (dest # 0 => c.inode = dest)
      /\ dest = 0 => c.inode \notin OpenFds /\ c.inode # dest /\ c.inode # part
      /\ c.disk[c.inode] = <<>> /\ \A i \in Inodes : i # c.inode => c.disk[i] = disk[i]
  BY <1>2, CreateIs
<1>4. rec.pc = "write" /\ rec.fd = c.inode /\ rec.at = 0  OBVIOUS
<1>5. upload \in [Uploads -> UploadType] /\ carries \in [Fetches \cup Uploads -> FileNames \cup {"none"}]
  BY FilesTypes
<1> HIDE DEF c, rec
<1> QED  BY <1>1, <1>3, <1>4, <1>5

LEMMA UpWriteDoes ==
    ASSUME FilesShape, NEW u \in Uploads, UpWrite(u)
    PROVE  /\ upload[u].pc = "write" /\ upload[u].fd \in Inodes /\ upload[u].at \in Nat
           /\ upload'[u].pc = "write" /\ upload'[u].fd = upload[u].fd /\ upload'[u].at = upload[u].at + 1
           /\ \A v \in Uploads : v # u => upload'[v] = upload[v]
           /\ \A h \in Inodes : h # upload[u].fd => disk'[h] = disk[h]
           /\ disk[upload[u].fd] = Wrote(u, upload[u].at) => disk'[upload[u].fd] = Wrote(u, upload[u].at + 1)
           /\ UNCHANGED <<dest, part, fetch, carries, crossed>>
<1>1. upload[u].pc = "write" /\ upload[u].fd \in Inodes /\ carries[u] \in FileNames
  BY DEF FilesShape, UploadOpen, UpWrite
<1>2. upload \in [Uploads -> UploadType] /\ disk \in [Inodes -> Seq(Blocks)]  BY FilesTypes
<1>3. /\ disk' = WriteAt(upload[u].fd, upload[u].at + 1, carries[u])
      /\ upload' = [upload EXCEPT ![u].at = @ + 1]
      /\ UNCHANGED <<dest, part, fetch, carries, crossed>>
  BY DEF UpWrite
<1>4. /\ upload'[u].pc = upload[u].pc /\ upload'[u].fd = upload[u].fd /\ upload'[u].at = upload[u].at + 1
      /\ \A v \in Uploads : v # u => upload'[v] = upload[v]
  BY <1>2, <1>3, Uploaded
<1> DEFINE k == upload[u].at + 1
           i == upload[u].fd
           b == carries[u]
<1>5. upload[u].at \in Nat /\ k \in Nat \ {0} /\ k - 1 = upload[u].at  BY <1>2 DEF UploadType
<1>6. b \in Blocks /\ i \in Inodes  BY <1>1 DEF Blocks
<1>7. disk' = WriteAt(i, k, b)  BY <1>3
<1>8. Wrote(u, k - 1) = Same(b, k - 1) /\ Wrote(u, k) = Same(b, k)
  BY DEF Wrote
<1>9. /\ \A h \in Inodes : h # i => disk'[h] = disk[h]
      /\ disk[i] = Wrote(u, k - 1) => disk'[i] = Wrote(u, k)
  <2>1. k \in Nat \ {0} /\ b \in Blocks  BY <1>5, <1>6
  <2>2. disk \in [Inodes -> Seq(Blocks)] /\ i \in Inodes  BY <1>2, <1>6
  <2> HIDE DEF k, i, b
  <2>3. /\ \A h \in Inodes : h # i => WriteAt(i, k, b)[h] = disk[h]
        /\ disk[i] = Same(b, k - 1) => WriteAt(i, k, b)[i] = Same(b, k)
    BY <2>1, <2>2, WriteAtIs
  <2> QED  BY <2>3, <1>7, <1>8
<1>10. /\ \A h \in Inodes : h # upload[u].fd => disk'[h] = disk[h]
       /\ disk[upload[u].fd] = Wrote(u, upload[u].at) => disk'[upload[u].fd] = Wrote(u, upload[u].at + 1)
  <2>1. disk[i] = Wrote(u, upload[u].at) => disk'[i] = Wrote(u, k)
    <3> HIDE DEF k, i
    <3> QED  BY <1>5, <1>9
  <2> QED  BY <1>9, <2>1
<1> QED  BY <1>1, <1>3, <1>4, <1>5, <1>10

-----------------------------------------------------------------------------
\* What was written from end to end is the file.
LEMMA WroteAll == \A w : Wrote(w, Size[carries[w]]) = Body(carries[w])
BY DEF Wrote, Same, Body

LEMMA WroteNothing == \A b : Same(b, 0) = <<>>
<1> TAKE b
<1>1. 1 .. 0 = {}  OBVIOUS
<1>2. Same(b, 0) = [i \in {} |-> b]  BY <1>1 DEF Same
<1> QED  BY <1>2

\* A step that leaves the writers' files alone but may end writers: nothing is undone.
LEMMA WholeStep == ASSUME FilesShape, WholeInv, FilesNext PROVE WholeInv'
<1> SUFFICES ASSUME ~crossed' PROVE (OneWriter /\ Apart /\ Progress /\ DestWhole)'
  BY DEF WholeInv
<1> USE DEF OneWriter, Apart, Progress, DestWhole
<1>0. /\ 0 \notin Inodes
      /\ dest \in Inodes \cup {0} /\ part \in Inodes \cup {0}
      /\ \A j \in Fetches : fetch[j].fd \in Inodes \cup {0} /\ (fetch[j].pc = "body" => fetch[j].fd \in Inodes)
      /\ \A u \in Uploads : upload[u].pc = "write" => upload[u].fd \in Inodes
  <2>1. \A j \in Fetches : fetch[j].fd \in Inodes \cup {0}  BY FilesTypes DEF FetchType
  <2> QED  BY <2>1, InodesNat, FilesTypes DEF FilesShape, FetchOpen, UploadOpen
<1>w. \A j \in Fetches, u \in Uploads : j # u  BY WritersApart
<1>c. ~crossed
  BY FilesTypes DEF FilesNext, FetchStep, Get, Receive, FetchFails, FetchLands, FetchReports, FetchFile,
                    UpOpen, UpWrite, UpEnds, FilesRestart
<1>i. OneWriter /\ Apart /\ Progress /\ DestWhole
  BY <1>c DEF WholeInv
<1>1. ASSUME NEW j \in Fetches, NEW f \in FileNames, FetchFile(j, f)
      PROVE  (OneWriter /\ Apart /\ Progress /\ DestWhole)'
  <2>1. UNCHANGED <<disk, dest, part, upload>>  BY <1>1 DEF FetchFile, names
  <2>2. /\ fetch[j].pc = "none" /\ fetch'[j].pc = "get"
        /\ \A i \in Fetches : i # j => fetch'[i] = fetch[i] /\ carries'[i] = carries[i]
        /\ \A u \in Uploads : carries'[u] = carries[u]
    BY <1>1, <1>w, FilesTypes DEF FetchFile, FetchType
  <2>3. \A i \in Fetches : fetch'[i].pc = "body" => i # j /\ fetch'[i] = fetch[i] /\ carries'[i] = carries[i]
    BY <2>2
  <2>6. Progress'
    <3>1. \A i \in Fetches : fetch'[i].pc = "body" /\ ~fetch'[i].bad
             => disk'[fetch'[i].fd] = Same(carries'[i], fetch'[i].at)
      BY <1>i, <2>1, <2>3 DEF Wrote
    <3>2. \A u \in Uploads : upload'[u].pc = "write" => disk'[upload'[u].fd] = Same(carries'[u], upload'[u].at)
      BY <1>i, <2>1, <2>2 DEF Wrote
    <3> QED  BY <3>1, <3>2 DEF Wrote
  <2> QED  BY <1>i, <2>1, <2>3, <2>6
<1>2. ASSUME NEW j \in Fetches, Get(j)
      PROVE  (OneWriter /\ Apart /\ Progress /\ DestWhole)'
  <2>1. /\ part' \in Inodes /\ (part # 0 => part' = part)
        /\ part = 0 => part' \notin OpenFds /\ part' # dest
        /\ disk'[part'] = <<>> /\ \A i \in Inodes : i # part' => disk'[i] = disk[i]
        /\ fetch'[j].pc = "body" /\ fetch'[j].fd = part' /\ fetch'[j].at = 0
        /\ \A i \in Fetches : i # j => fetch'[i] = fetch[i]
        /\ crossed' = (crossed \/ \E i \in Fetches : fetch[i].pc = "body")
        /\ UNCHANGED <<dest, upload, carries>>
    BY <1>2, GetDoes
  <2>2. \A i \in Fetches : i # j => fetch'[i].pc # "body"  BY <2>1
  <2>3. part' # dest /\ \A u \in Uploads : upload[u].pc = "write" => upload[u].fd # part'
    BY <1>i, <2>1 DEF OpenFds
  <2>4. Progress'
    <3>1. \A i \in Fetches : fetch'[i].pc = "body" => disk'[fetch'[i].fd] = Same(carries'[i], fetch'[i].at)
      BY <2>1, <2>2, WroteNothing
    <3>2. \A u \in Uploads : upload'[u].pc = "write" => disk'[upload'[u].fd] = Same(carries'[u], upload'[u].at)
      BY <1>0, <1>i, <2>1, <2>3 DEF Wrote
    <3> QED  BY <3>1, <3>2 DEF Wrote
  <2>5. DestWhole'  BY <1>0, <1>i, <2>1, <2>3
  <2> QED  BY <1>i, <2>1, <2>2, <2>3, <2>4, <2>5
<1>3. ASSUME NEW j \in Fetches, Receive(j)
      PROVE  (OneWriter /\ Apart /\ Progress /\ DestWhole)'
  <2>1. /\ fetch[j].pc = "body" /\ fetch[j].fd \in Inodes
        /\ fetch'[j].pc = "body" /\ fetch'[j].fd = fetch[j].fd /\ fetch'[j].at = fetch[j].at + 1
        /\ \A i \in Fetches : i # j => fetch'[i] = fetch[i]
        /\ \A h \in Inodes : h # fetch[j].fd => disk'[h] = disk[h]
        /\ ~fetch'[j].bad => /\ ~fetch[j].bad
                             /\ disk[fetch[j].fd] = Wrote(j, fetch[j].at)
                                => disk'[fetch[j].fd] = Wrote(j, fetch[j].at + 1)
        /\ UNCHANGED <<dest, part, upload, carries>>
    BY <1>3, ReceiveDoes
  <2>2. \A i \in Fetches : i # j => fetch[i].pc # "body"  BY <1>i, <2>1
  <2>3. fetch[j].fd = part /\ part # dest /\ \A u \in Uploads : upload[u].pc = "write" => upload[u].fd # part
    BY <1>0, <1>i, <2>1
  <2>4. Progress'
    <3>1. \A i \in Fetches : fetch'[i].pc = "body" /\ ~fetch'[i].bad
             => disk'[fetch'[i].fd] = Same(carries'[i], fetch'[i].at)
      <4>1. ~fetch'[j].bad => disk'[fetch'[j].fd] = Same(carries'[j], fetch'[j].at)
        BY <1>i, <2>1 DEF Wrote
      <4> QED  BY <2>1, <2>2, <4>1
    <3>2. \A u \in Uploads : upload'[u].pc = "write" => disk'[upload'[u].fd] = Same(carries'[u], upload'[u].at)
      BY <1>0, <1>i, <2>1, <2>3 DEF Wrote
    <3> QED  BY <3>1, <3>2 DEF Wrote
  <2>5. DestWhole'  BY <1>0, <1>i, <2>1, <2>3
  <2> QED  BY <1>i, <2>1, <2>2, <2>3, <2>4, <2>5
<1>4. ASSUME NEW j \in Fetches, FetchFails(j) \/ FetchReports(j)
      PROVE  (OneWriter /\ Apart /\ Progress /\ DestWhole)'
  <2>1. /\ fetch'[j].pc # "body" /\ \A i \in Fetches : i # j => fetch'[i] = fetch[i]
        /\ UNCHANGED <<disk, dest, part, upload, carries>>
    BY <1>4, FilesTypes DEF FetchFails, FetchReports, FetchEnds, Idle, FetchType, names
  <2>2. Progress'
    <3>1. \A i \in Fetches : fetch'[i].pc = "body" /\ ~fetch'[i].bad
             => disk'[fetch'[i].fd] = Same(carries'[i], fetch'[i].at)
      BY <1>i, <2>1 DEF Wrote
    <3>2. \A u \in Uploads : upload'[u].pc = "write" => disk'[upload'[u].fd] = Same(carries'[u], upload'[u].at)
      BY <1>i, <2>1 DEF Wrote
    <3> QED  BY <3>1, <3>2 DEF Wrote
  <2>3. Apart' /\ DestWhole'  BY <1>i, <2>1
  <2>4. OneWriter'  BY <1>i, <2>1
  <2> QED  BY <2>2, <2>3, <2>4
<1>5. ASSUME NEW j \in Fetches, FetchLands(j)
      PROVE  (OneWriter /\ Apart /\ Progress /\ DestWhole)'
  <2>1. /\ fetch[j].pc = "body" /\ fetch[j].at = Size[carries[j]]
        /\ fetch'[j].pc # "body" /\ \A i \in Fetches : i # j => fetch'[i] = fetch[i]
        /\ UNCHANGED <<disk, upload, carries>>
    BY <1>5, FilesTypes DEF FetchLands, FetchEnds, Idle, FetchType
  <2>2. \A i \in Fetches : fetch'[i].pc # "body"  BY <1>i, <2>1
  <2>3. fetch[j].fd = part /\ part \in Inodes  BY <1>0, <1>i, <2>1
  <2>4. part' = 0 /\ (dest' = dest \/ (dest' = part /\ ~fetch[j].bad))
    BY <1>5, <2>3, <1>0 DEF FetchLands, SumFits
  <2>5. ~fetch[j].bad => disk[part] = Body(carries[j])
    BY <1>i, <2>1, <2>3, WroteAll
  <2>6. carries[j] \in FileNames  BY <2>1 DEF FilesShape, FetchOpen
  <2>7. DestWhole'
    <3>1. CASE dest' = dest  BY <3>1, <1>i, <2>1
    <3>2. CASE dest' = part /\ ~fetch[j].bad  BY <3>2, <2>1, <2>5, <2>6
    <3> QED  BY <2>4, <3>1, <3>2
  <2>8. Apart'  BY <1>0, <2>1, <2>2, <2>4
  <2>9. OneWriter'  BY <1>i, <2>1, <2>2
  <2>10. Progress'
    <3>2. \A u \in Uploads : upload'[u].pc = "write" => disk'[upload'[u].fd] = Same(carries'[u], upload'[u].at)
      BY <1>i, <2>1 DEF Wrote
    <3> QED  BY <2>2, <3>2 DEF Wrote
  <2> QED  BY <2>7, <2>8, <2>9, <2>10
<1>6. ASSUME NEW u \in Uploads, NEW f \in FileNames, UpOpen(u, f)
      PROVE  (OneWriter /\ Apart /\ Progress /\ DestWhole)'
  <2>1. /\ dest' \in Inodes /\ (dest # 0 => dest' = dest)
        /\ dest = 0 => dest' \notin OpenFds /\ dest' # part
        /\ disk'[dest'] = <<>> /\ \A i \in Inodes : i # dest' => disk'[i] = disk[i]
        /\ upload'[u].pc = "write" /\ upload'[u].fd = dest' /\ upload'[u].at = 0
        /\ \A v \in Uploads : v # u => upload'[v] = upload[v]
        /\ \A w \in Fetches \cup Uploads : w # u => carries'[w] = carries[w]
        /\ crossed' = (crossed \/ \E v \in Uploads : upload[v].pc = "write")
        /\ UNCHANGED <<part, fetch>>
    BY <1>6, UpOpenDoes
  <2>2. \A v \in Uploads : v # u => upload'[v].pc # "write"  BY <2>1
  <2>3. dest' # part  BY <1>i, <2>1, <1>0
  <2>4. Apart'
    <3>1. \A v \in Uploads : upload'[v].pc = "write" => upload'[v].fd # part'  BY <2>1, <2>2, <2>3
    <3> QED  BY <1>i, <2>1, <2>3, <3>1
  <2>5. Progress'
    <3>1. \A i \in Fetches : fetch'[i].pc = "body" /\ ~fetch'[i].bad
             => disk'[fetch'[i].fd] = Same(carries'[i], fetch'[i].at)
      BY <1>0, <1>i, <1>w, <2>1, <2>3 DEF Wrote
    <3>2. \A v \in Uploads : upload'[v].pc = "write" => disk'[upload'[v].fd] = Same(carries'[v], upload'[v].at)
      BY <2>1, <2>2, WroteNothing
    <3> QED  BY <3>1, <3>2 DEF Wrote
  <2>6. DestWhole'  BY <2>1
  <2>7. OneWriter'  BY <1>i, <2>1, <2>2
  <2> QED  BY <2>4, <2>5, <2>6, <2>7
<1>7. ASSUME NEW u \in Uploads, UpWrite(u)
      PROVE  (OneWriter /\ Apart /\ Progress /\ DestWhole)'
  <2>1. /\ upload[u].pc = "write" /\ upload[u].fd \in Inodes
        /\ upload'[u].pc = "write" /\ upload'[u].fd = upload[u].fd /\ upload'[u].at = upload[u].at + 1
        /\ \A v \in Uploads : v # u => upload'[v] = upload[v]
        /\ \A h \in Inodes : h # upload[u].fd => disk'[h] = disk[h]
        /\ disk[upload[u].fd] = Wrote(u, upload[u].at) => disk'[upload[u].fd] = Wrote(u, upload[u].at + 1)
        /\ UNCHANGED <<dest, part, fetch, carries>>
    BY <1>7, UpWriteDoes
  <2>2. \A v \in Uploads : v # u => upload[v].pc # "write"  BY <1>i, <2>1
  <2>3. upload[u].fd # part  BY <1>i, <2>1
  <2>4. Progress'
    <3>1. \A i \in Fetches : fetch'[i].pc = "body" /\ ~fetch'[i].bad
             => disk'[fetch'[i].fd] = Same(carries'[i], fetch'[i].at)
      BY <1>0, <1>i, <2>1, <2>3 DEF Wrote
    <3>2. \A v \in Uploads : upload'[v].pc = "write" => disk'[upload'[v].fd] = Same(carries'[v], upload'[v].at)
      <4>1. disk'[upload'[u].fd] = Same(carries'[u], upload'[u].at)
        BY <1>i, <2>1 DEF Wrote
      <4> QED  BY <2>1, <2>2, <4>1
    <3> QED  BY <3>1, <3>2 DEF Wrote
  <2>5. DestWhole'  BY <1>0, <1>i, <2>1
  <2>6. Apart'  BY <1>i, <2>1
  <2>7. OneWriter'  BY <1>i, <2>1, <2>2
  <2> QED  BY <2>4, <2>5, <2>6, <2>7
<1>8. ASSUME NEW u \in Uploads, NEW how \in {"ok", "failed"}, UpEnds(u, how)
      PROVE  (OneWriter /\ Apart /\ Progress /\ DestWhole)'
  <2>1. /\ upload[u].pc = "write" /\ upload[u].at = Size[carries[u]]
        /\ UNCHANGED <<disk, dest, part, fetch, carries>>
    BY <1>8 DEF UpEnds, names
  <2>2. /\ upload'[u].pc # "write"
        /\ \A v \in Uploads : v # u => upload'[v] = upload[v]
    <3>1. upload' = [upload EXCEPT ![u] = [Closed EXCEPT !.pc = how]]  BY <1>8 DEF UpEnds
    <3>2. upload \in [Uploads -> UploadType]  BY FilesTypes
    <3>3. upload'[u].pc = how /\ \A v \in Uploads : v # u => upload'[v] = upload[v]
      BY <3>1, <3>2, UploadOver
    <3> QED  BY <3>3
  <2>3. disk[upload[u].fd] = Body(carries[u]) /\ carries[u] \in FileNames
    BY <1>i, <2>1, WroteAll DEF FilesShape, UploadOpen
  <2>4. \A v \in Uploads : upload'[v].pc = "write" => v # u /\ upload'[v] = upload[v]  BY <2>2
  <2>5. Progress'
    <3>1. \A i \in Fetches : fetch'[i].pc = "body" /\ ~fetch'[i].bad
             => disk'[fetch'[i].fd] = Same(carries'[i], fetch'[i].at)
      BY <1>i, <2>1 DEF Wrote
    <3>2. \A v \in Uploads : upload'[v].pc = "write" => disk'[upload'[v].fd] = Same(carries'[v], upload'[v].at)
      BY <1>i, <2>1, <2>4 DEF Wrote
    <3> QED  BY <3>1, <3>2 DEF Wrote
  <2>6. DestWhole'
    <3> SUFFICES ASSUME dest' # 0, \A v \in Uploads : upload'[v].pc = "write" => upload'[v].fd # dest'
                 PROVE  \E f \in FileNames : disk'[dest'] = Body(f)
      OBVIOUS
    <3>1. CASE upload[u].fd = dest  BY <3>1, <2>1, <2>3
    <3>2. CASE upload[u].fd # dest  BY <3>2, <1>i, <2>1, <2>2
    <3> QED  BY <3>1, <3>2
  <2>7. Apart' /\ OneWriter'  BY <1>i, <2>1, <2>4
  <2> QED  BY <2>5, <2>6, <2>7
<1>9. CASE FilesRestart
  <2>1. /\ \A i \in Fetches : fetch'[i].pc = "none"
        /\ UNCHANGED <<disk, dest, part, carries>>
        /\ \A u \in Uploads : upload[u].pc # "write"
        /\ \A u \in Uploads : upload'[u] = upload[u]
    BY <1>9, FilesTypes DEF FilesRestart, Idle, names
  <2> QED  BY <1>i, <2>1
<1> QED  BY <1>1, <1>2, <1>3, <1>4, <1>5, <1>6, <1>7, <1>8, <1>9 DEF FilesNext, FetchStep

LEMMA FilesSame ==
    ASSUME UNCHANGED files
    PROVE  (FilesShape => FilesShape') /\ (WholeInv => WholeInv') /\ (LandInv => LandInv')
<1> USE DEF files, names
<1>1. FilesShape => FilesShape'  BY DEF FilesShape, FilesTypeOK, FetchOpen, UploadOpen
<1>2. WholeInv => WholeInv'  BY DEF WholeInv, OneWriter, Apart, Progress, DestWhole, Wrote
<1>3. LandInv => LandInv'  BY DEF LandInv, Landing
<1> QED  BY <1>1, <1>2, <1>3

LEMMA RestFromWhole == WholeInv => RestIsWhole
BY DEF WholeInv, RestIsWhole, DestWhole

LEMMA LandStep == ASSUME FilesShape, WholeInv, LandInv, FilesNext PROVE LandInv'
<1>i. \A j \in Fetches : Landing(j)  BY DEF LandInv
<1>t. /\ fetch \in [Fetches -> FetchType] /\ landed \in [Fetches -> Seq(Seq(Blocks))]
      /\ status \in [Fetches -> {"unknown", "fetching", "ok", "failed", "lost"}]
      /\ carries \in [Fetches \cup Uploads -> FileNames \cup {"none"}]
      /\ crossed \in BOOLEAN
  BY FilesTypes DEF FilesShape, FilesTypeOK
<1>w. \A j \in Fetches, u \in Uploads : j # u  BY WritersApart
\* The pulls a step does not touch.
<1>o. ASSUME NEW i \in Fetches, fetch'[i] = fetch[i], status'[i] = status[i], landed'[i] = landed[i],
             carries'[i] = carries[i], crossed => crossed'
      PROVE  Landing(i)'
  BY <1>i, <1>o DEF Landing
<1>1. ASSUME NEW j \in Fetches, NEW f \in FileNames, FetchFile(j, f) PROVE \A i \in Fetches : Landing(i)'
  <2>1. /\ fetch'[j].pc = "get" /\ status'[j] = "fetching" /\ status[j] = "unknown"
        /\ \A i \in Fetches : i # j => fetch'[i] = fetch[i] /\ status'[i] = status[i] /\ carries'[i] = carries[i]
        /\ landed' = landed /\ crossed' = crossed
    BY <1>1, <1>t DEF FetchFile, FetchType
  <2>2. Landing(j)'  BY <1>i, <2>1 DEF Landing
  <2> QED  BY <1>o, <2>1, <2>2
<1>2. ASSUME NEW j \in Fetches, Get(j) PROVE \A i \in Fetches : Landing(i)'
  <2>1. /\ fetch[j].pc = "get" /\ UNCHANGED <<status, carries, landed>> /\ (crossed => crossed')
    BY <1>2, <1>t DEF Get
  <2>2. fetch'[j].pc = "body" /\ \A i \in Fetches : i # j => fetch'[i] = fetch[i]
    BY <1>2, GetDoes
  <2>3. Landing(j)'  BY <1>i, <2>1, <2>2 DEF Landing
  <2> QED  BY <1>o, <2>1, <2>2, <2>3
<1>3. ASSUME NEW j \in Fetches, Receive(j) PROVE \A i \in Fetches : Landing(i)'
  <2>1. UNCHANGED <<status, carries, landed, crossed>>  BY <1>3 DEF Receive
  <2>2. fetch[j].pc = "body" /\ fetch'[j].pc = "body" /\ \A i \in Fetches : i # j => fetch'[i] = fetch[i]
    BY <1>3, ReceiveDoes
  <2>3. Landing(j)'  BY <1>i, <2>1, <2>2 DEF Landing
  <2> QED  BY <1>o, <2>1, <2>2, <2>3
<1>4. ASSUME NEW j \in Fetches, FetchFails(j) PROVE \A i \in Fetches : Landing(i)'
  <2>1. /\ fetch[j].pc \in {"get", "body"} /\ UNCHANGED <<status, carries, landed, crossed>>
        /\ fetch'[j].pc = "failed" /\ \A i \in Fetches : i # j => fetch'[i] = fetch[i]
    BY <1>4, <1>t DEF FetchFails, FetchEnds, Idle, FetchType
  <2>2. Landing(j)'  BY <1>i, <2>1 DEF Landing
  <2> QED  BY <1>o, <2>1, <2>2
<1>5. ASSUME NEW j \in Fetches, FetchLands(j) PROVE \A i \in Fetches : Landing(i)'
  <2>1. /\ fetch[j].pc = "body" /\ fetch[j].at = Size[carries[j]] /\ UNCHANGED <<status, carries, crossed>>
        /\ \A i \in Fetches : i # j => fetch'[i] = fetch[i] /\ landed'[i] = landed[i]
        /\ \/ fetch'[j].pc = "failed" /\ landed'[j] = landed[j]
           \/ ~fetch[j].bad /\ fetch'[j].pc = "ok" /\ landed'[j] = <<disk[part]>>
    BY <1>5, <1>t DEF FetchLands, FetchEnds, Idle, FetchType, SumFits
  <2>2. ~crossed /\ ~fetch[j].bad => disk[part] = Body(carries[j])
    <3>1. ~crossed /\ ~fetch[j].bad => fetch[j].fd = part /\ disk[fetch[j].fd] = Wrote(j, fetch[j].at)
      BY <2>1 DEF WholeInv, Apart, Progress
    <3> QED  BY <3>1, <2>1, WroteAll
  <2>3. Landing(j)'
    <3>1. CASE fetch'[j].pc = "failed" /\ landed'[j] = landed[j]  BY <3>1, <1>i, <2>1 DEF Landing
    <3>2. CASE ~fetch[j].bad /\ fetch'[j].pc = "ok" /\ landed'[j] = <<disk[part]>>
      <4>1. landed'[j] # <<>>  BY <3>2
      <4>2. ~crossed' => landed'[j] = <<Body(carries'[j])>>
        BY <3>2, <2>1, <2>2
      <4>3. status'[j] = "fetching"  BY <1>i, <2>1 DEF Landing
      <4> QED  BY <3>2, <4>1, <4>2, <4>3, <1>t, <2>1 DEF Landing
    <3> QED  BY <3>1, <3>2, <2>1
  <2> QED  BY <1>o, <2>1, <2>3
<1>6. ASSUME NEW j \in Fetches, FetchReports(j) PROVE \A i \in Fetches : Landing(i)'
  <2>1. /\ fetch[j].pc \in {"ok", "failed"} /\ UNCHANGED <<carries, landed, crossed>>
        /\ fetch'[j].pc = "none" /\ status'[j] = fetch[j].pc
        /\ \A i \in Fetches : i # j => fetch'[i] = fetch[i] /\ status'[i] = status[i]
    BY <1>6, <1>t DEF FetchReports, Idle, FetchType
  <2>2. Landing(j)'  BY <1>i, <2>1 DEF Landing
  <2> QED  BY <1>o, <2>1, <2>2
<1>7. ASSUME NEW u \in Uploads, NEW f \in FileNames, UpOpen(u, f) PROVE \A i \in Fetches : Landing(i)'
  <2>1. UNCHANGED <<fetch, status, landed>> /\ (crossed => crossed') /\ \A i \in Fetches : carries'[i] = carries[i]
    BY <1>7, <1>t, <1>w DEF UpOpen
  <2> QED  BY <1>o, <2>1
<1>8. ASSUME NEW u \in Uploads, UpWrite(u) \/ \E how \in {"ok", "failed"} : UpEnds(u, how)
      PROVE \A i \in Fetches : Landing(i)'
  <2>1. UNCHANGED <<fetch, status, landed, carries>> /\ (crossed => crossed')
    BY <1>8, <1>t DEF UpWrite, UpEnds
  <2> QED  BY <1>o, <2>1
<1>9. ASSUME FilesRestart PROVE \A i \in Fetches : Landing(i)'
  <2> SUFFICES ASSUME NEW i \in Fetches PROVE Landing(i)'
    OBVIOUS
  <2>1. /\ fetch'[i].pc = "none" /\ UNCHANGED <<carries, landed>> /\ (crossed => crossed')
        /\ \/ fetch[i].pc = "none" /\ status[i] = "unknown" /\ status'[i] = "unknown"
           \/ status'[i] = "lost"
    <3>1. fetch'[i].pc = "none" /\ UNCHANGED <<carries, landed>>  BY <1>9 DEF FilesRestart, Idle
    <3>2. crossed => crossed'  BY <1>9 DEF FilesRestart
    <3>3. status'[i] = IF fetch[i].pc = "none" /\ status[i] = "unknown" THEN "unknown" ELSE "lost"
      BY <1>9 DEF FilesRestart
    <3> QED  BY <3>1, <3>2, <3>3
  <2> QED  BY <1>i, <2>1 DEF Landing
<1>10. \A i \in Fetches : Landing(i)'
  BY <1>1, <1>2, <1>3, <1>4, <1>5, <1>6, <1>7, <1>8, <1>9 DEF FilesNext, FetchStep
<1> QED  BY <1>10 DEF LandInv

-----------------------------------------------------------------------------
(***************************************************************************)
(* The calls.                                                              *)
(***************************************************************************)
Rs == Calls \X (1 .. 4)
Reqs(c) == Requests(Tool(c))
Asks(c) == Tool(c).kind # "check"

\* The type of the calls' variables, and what they say together.
CallType == [pc : {"new", "ready", "sent", "held", "poll", "done"}, n : 1 .. 4, polls : 0 .. MaxPolls]
Replies == {"none", "served", "done", "failed", "pending", "refused", "dryrun"}
Verdicts == {"none", "pending", "running", "served", "executed", "failed", "denied", "expired"}
Tellings == {"none", "done", "failed", "transfer failed", "error", "dryrun", "pending", "approved",
             "denied", "expired", "refused", "timeout", "exit 0", "exit 1", "exit 75"}
CallTypes ==
    /\ world \in Worlds
    /\ call \in [Calls -> CallType]
    /\ reply \in [Calls -> Replies]
    /\ approval \in [Rs -> Verdicts]
    /\ told \in [Calls -> Tellings]
    /\ late \subseteq Rs /\ ran \subseteq Rs
    /\ queue \in Seq({"down", "up"}) /\ keys \subseteq {"key"}
    /\ left \in [Bounds -> Nat] /\ gaveUp \subseteq Calls
    /\ away \subseteq Rs /\ unheard \subseteq Rs
CallShape(c) ==
    /\ call[c].n <= Len(Reqs(c)) /\ (call[c].pc = "new" => call[c].n = 1)
    /\ reply[c] # "none" => call[c].pc \in {"sent", "held"}
    /\ call[c].pc = "held" => reply[c] = "pending"
    /\ told[c] # "none" <=> call[c].pc = "done"
    /\ ~Asks(c) => call[c].pc \in {"new", "done"}

\* The requests of a call: nothing is known of one that it has not come to; only one that
\* was given up on is still on its way; what a human has not let run did not.
Undecided == {"pending", "running", "denied", "expired"}
Touched(r) == r \in ran \/ r \in late \/ approval[r] # "none"
Asking(c) ==
    \A m \in 1 .. 4 :
        /\ Touched(<<c, m>>) => m <= call[c].n /\ call[c].pc # "new" /\ Asks(c)
        /\ <<c, m>> \in late => c \in gaveUp
        /\ approval[<<c, m>>] \in Undecided /\ <<c, m>> \in ran => c \in gaveUp
        /\ approval[<<c, m>>] \in {"served", "executed"} => <<c, m>> \in ran
        /\ approval[<<c, m>>] = "served" => Tool(c).kind = "upload"

\* The request at hand and its answer.
Unanswered(c) == call[c].pc \in {"new", "ready"} \/ (call[c].pc = "sent" /\ reply[c] = "none")
Stray(c) == Now(c) \in ran => c \in gaveUp
Answered(c) ==
    /\ Unanswered(c) => approval[Now(c)] = "none" /\ Stray(c)
    /\ reply[c] \in {"done", "served"} => Now(c) \in ran
    /\ reply[c] = "failed" => Now(c) \in ran \/ Now(c) \in away
    /\ reply[c] \in {"done", "served", "failed", "refused", "dryrun"} => approval[Now(c)] = "none"
    /\ reply[c] \in {"refused", "dryrun"} => Stray(c)
    /\ reply[c] = "pending" => approval[Now(c)] # "none"
    /\ reply[c] = "served" => Tool(c).kind = "upload"
    /\ reply[c] = "dryrun" => Tool(c).dry

\* A dry run is answered with a plan, at its first request, or not at all.
Planned(c) ==
    Tool(c).dry /\ Asks(c) =>
        /\ call[c].pc \in {"new", "ready", "sent", "done"} /\ reply[c] \in {"none", "dryrun"}
        /\ call[c].pc \in {"ready", "sent"} => call[c].n = First(Tool(c))
        /\ told[c] \notin {"done", "approved"}

\* Any other call goes on only from a request that ran, or that it takes to have run.
Ordered(c) ==
    ~Tool(c).dry /\ Asks(c) =>
        /\ \A m \in 1 .. call[c].n - 1 : Went(<<c, m>>)
        /\ call[c].pc = "poll" => call[c].n = Len(Reqs(c)) /\ Went(Now(c))
        /\ told[c] \in {"done", "approved", "exit 0"} => call[c].n = Len(Reqs(c)) /\ Went(Now(c))

\* What a caller was told of the request at hand.
ToldRight(c) ==
    Asks(c) =>
        /\ told[c] \in {"dryrun", "refused"} => approval[Now(c)] = "none" /\ Stray(c)
        /\ told[c] \in {"denied", "expired"} => approval[Now(c)] = told[c]
        /\ told[c] \in ToldToWait => approval[Now(c)] # "none"

CallRight(c) == CallShape(c) /\ Asking(c) /\ Answered(c) /\ Planned(c) /\ Ordered(c) /\ ToldRight(c)

\* A push and its pull: the device pulls the file of the call whose request it served; a
\* push that is told its transfer failed has no pull that could still land, nor has one
\* that is told its request did, unless that answer stands for one that was lost.
Pulled(c) == <<c, "pull">>
PullOver(c) ==
    status[Pulled(c)] # "unknown" /\ landed[Pulled(c)] = <<>> /\ fetch[Pulled(c)].pc = "none"
NoPull(c) == <<c, 2>> \notin ran /\ approval[<<c, 2>>] \notin {"pending", "running"}
PushRight(c) ==
    /\ status[Pulled(c)] # "unknown" =>
          Tool(c).kind = "push" /\ <<c, 2>> \in ran /\ carries[Pulled(c)] = Tool(c).file
    /\ Tool(c).kind = "push" =>
          /\ c \in gaveUp => told[c] = "error"
          /\ reply[c] = "failed" /\ Now(c) \in ran => Now(c) \in unheard
          /\ \A m \in 1 .. 4 : approval[<<c, m>>] = "failed" /\ <<c, m>> \in ran
                               => c \in gaveUp \/ <<c, m>> \in unheard
          /\ told[c] = "done" => landed[Pulled(c)] # <<>>
          /\ told[c] = "transfer failed" => PullOver(c)
          /\ told[c] = "failed" => NoPull(c) \/ <<c, 2>> \in unheard

OpInv == CallTypes /\ FilesShape /\ WholeInv /\ LandInv /\ \A c \in Calls : CallRight(c) /\ PushRight(c)

-----------------------------------------------------------------------------
\* The requests a tool is made of.
LEMMA RequestsAre ==
    ASSUME NEW t \in Tools
    PROVE  /\ Len(Requests(t)) \in 1 .. 4
           /\ First(t) \in 1 .. Len(Requests(t)) /\ (~t.dry => First(t) = 1)
           /\ t.kind = "push" => Len(Requests(t)) = 2
           /\ t.kind = "upload" => Len(Requests(t)) = 1
           /\ \A n \in 1 .. Len(Requests(t)) :
                 /\ Requests(t)[n] = "fetch" => t.kind = "push" /\ n = 2
                 /\ Requests(t)[n] = "upload" => t.kind = "upload" /\ n = 1
           /\ t.kind \in {"push", "upload"} => ~IsInput(t)
<1>1. t.kind \in Kinds /\ t.dry \in BOOLEAN  BY DEF Tools
<1>k. DOMAIN KeyRequests = {"press", "type"}  BY DEF KeyRequests
<1>2. CASE t.kind = "press"
  <2>1. Requests(t) = <<"down", "up">>  BY <1>2, <1>k DEF Requests, KeyRequests
  <2> QED  BY <2>1, <1>2, <1>1 DEF First
<1>3. CASE t.kind = "type"
  <2>1. Requests(t) = <<"down", "up", "down", "up">>  BY <1>3, <1>k DEF Requests, KeyRequests
  <2> QED  BY <2>1, <1>3, <1>1 DEF First
<1>4. CASE t.kind = "push"
  <2>1. Requests(t) = <<"stage", "fetch">>  BY <1>4, <1>k DEF Requests, PushRequests
  <2>2. Len(Requests(t)) = 2 /\ Requests(t)[1] = "stage" /\ Requests(t)[2] = "fetch"  BY <2>1
  <2>3. First(t) \in {1, 2} /\ (~t.dry => First(t) = 1)  BY DEF First
  <2> QED  BY <2>2, <2>3, <1>4, <1>k DEF IsInput
<1>5. CASE t.kind \notin {"press", "type", "push"}
  <2>1. Requests(t) = <<t.kind>>  BY <1>5, <1>k DEF Requests
  <2>2. Len(Requests(t)) = 1 /\ Requests(t)[1] = t.kind  BY <2>1
  <2>3. t.kind # "fetch"  BY <1>1 DEF Kinds
  <2>4. First(t) = 1  BY <1>5 DEF First
  <2> QED  BY <2>2, <2>3, <2>4, <1>5, <1>k DEF IsInput
<1> QED  BY <1>2, <1>3, <1>4, <1>5

LEMMA RequestsSeq == ASSUME NEW t \in Tools PROVE DOMAIN Requests(t) = 1 .. Len(Requests(t))
<1>1. t.kind \in Kinds  BY DEF Tools
<1>2. DOMAIN KeyRequests = {"press", "type"}  BY DEF KeyRequests
<1>3. CASE t.kind = "press"
  <2>1. Requests(t) = <<"down", "up">>  BY <1>2, <1>3 DEF Requests, KeyRequests
  <2> QED  BY <2>1
<1>4. CASE t.kind = "type"
  <2>1. Requests(t) = <<"down", "up", "down", "up">>  BY <1>2, <1>4 DEF Requests, KeyRequests
  <2> QED  BY <2>1
<1>5. CASE t.kind = "push"
  <2>1. Requests(t) = <<"stage", "fetch">>  BY <1>2, <1>5 DEF Requests, PushRequests
  <2> QED  BY <2>1
<1>6. CASE t.kind \notin {"press", "type", "push"}
  <2>1. Requests(t) = <<t.kind>>  BY <1>2, <1>6 DEF Requests
  <2> QED  BY <2>1
<1> QED  BY <1>3, <1>4, <1>5, <1>6

LEMMA ToolIs ==
    ASSUME world \in Worlds, NEW c \in Calls
    PROVE  /\ Tool(c) \in Tools
           /\ Tool(c).cli => Tool(c).kind # "push" /\ ~IsInput(Tool(c))
           /\ Tool(c).dry \in BOOLEAN /\ Tool(c).file \in FileNames /\ Tool(c).of \in Calls
<1>1. world \in WorldSet /\ (world.tools[c].cli => world.tools[c].kind \in CliKinds)
  BY OperatorConstantsOK
<1>2. world.tools \in [Calls -> Tools]  BY <1>1 DEF WorldSet
<1>3. Tool(c) \in Tools  BY <1>2 DEF Tool
<1>4. Tool(c).dry \in BOOLEAN /\ Tool(c).file \in FileNames /\ Tool(c).of \in Calls  BY <1>3 DEF Tools
<1>5. "push" \notin CliKinds /\ "press" \notin CliKinds /\ "type" \notin CliKinds  BY DEF CliKinds, CliJobs
<1>6. Tool(c).cli => Tool(c).kind # "push" /\ ~IsInput(Tool(c))
  BY <1>1, <1>5 DEF Tool, IsInput, KeyRequests
<1> QED  BY <1>3, <1>4, <1>6

LEMMA ReqsAre ==
    ASSUME world \in Worlds, NEW c \in Calls
    PROVE  /\ Len(Reqs(c)) \in 1 .. 4
           /\ First(Tool(c)) \in 1 .. Len(Reqs(c)) /\ (~Tool(c).dry => First(Tool(c)) = 1)
           /\ Tool(c).kind = "push" => Len(Reqs(c)) = 2
           /\ Tool(c).kind = "upload" => Len(Reqs(c)) = 1
           /\ \A m \in 1 .. Len(Reqs(c)) :
                 /\ Request(<<c, m>>) = "fetch" => Tool(c).kind = "push" /\ m = 2
                 /\ Request(<<c, m>>) = "upload" => Tool(c).kind = "upload" /\ m = 1
           /\ Tool(c).kind \in {"push", "upload"} => ~IsInput(Tool(c))
<1>1. Tool(c) \in Tools  BY ToolIs
<1>2. \A m : Request(<<c, m>>) = Reqs(c)[m]  BY DEF Request, Reqs
<1> QED  BY <1>1, <1>2, RequestsAre DEF Reqs

\* What a request does on the device.
LEMMA DeviceDoes ==
    ASSUME CallTypes, NEW c \in Calls, NEW m \in 1 .. 4, m <= Len(Reqs(c)), NEW leg \in {"asked", "late"},
           OnDevice(<<c, m>>, leg)
    PROVE  /\ \/ UNCHANGED files
              \/ Tool(c).kind = "push" /\ m = 2 /\ FetchFile(Pulled(c), Tool(c).file)
              \/ Tool(c).kind = "upload" /\ UpOpen(<<c, leg>>, Tool(c).file)
           /\ ran' = ran \cup {<<c, m>>} /\ UNCHANGED keys
           /\ queue' \in Seq({"down", "up"})
<1> DEFINE what == Request(<<c, m>>)
<1>1. m \in 1 .. Len(Reqs(c))  BY ReqsAre DEF CallTypes
<1>2. /\ what = "fetch" => Tool(c).kind = "push" /\ m = 2
      /\ what = "upload" => Tool(c).kind = "upload"
  BY <1>1, ReqsAre DEF CallTypes
<1>3. queue \in Seq({"down", "up"})  BY DEF CallTypes
<1>4. ran' = ran \cup {<<c, m>>} /\ UNCHANGED keys  BY DEF OnDevice
<1>5. CASE what \in {"down", "up"} /\ InputEp(what) /\ UNCHANGED files
  <2>1. queue' \in Seq({"down", "up"})  BY <1>3, <1>5 DEF InputEp
  <2> QED  BY <2>1, <1>4, <1>5
<1>6. CASE what = "fetch" /\ FetchFile(Pulled(c), Tool(c).file) /\ UNCHANGED queue
  BY <1>2, <1>3, <1>4, <1>6
<1>7. CASE what = "upload" /\ UpOpen(<<c, leg>>, Tool(c).file) /\ UNCHANGED queue
  BY <1>2, <1>3, <1>4, <1>7
<1>8. CASE UNCHANGED <<files, queue>>
  BY <1>3, <1>4, <1>8
<1>9. <<c, m>>[1] = c  OBVIOUS
<1> HIDE DEF what
<1> QED  BY <1>5, <1>6, <1>7, <1>8, <1>9 DEF OnDevice, Pulled, what

-----------------------------------------------------------------------------
\* Nothing of a call changed, or nothing but its requests' fate.
Fates(c) == \A m \in 1 .. 4 : /\ <<c, m>> \in ran' <=> <<c, m>> \in ran
                              /\ <<c, m>> \in late' <=> <<c, m>> \in late
                              /\ approval'[<<c, m>>] = approval[<<c, m>>]
                              /\ <<c, m>> \in away' <=> <<c, m>> \in away
                              /\ <<c, m>> \in unheard' <=> <<c, m>> \in unheard
SameCall(c) == call'[c] = call[c] /\ reply'[c] = reply[c] /\ told'[c] = told[c]
Kept(c) == world' = world /\ SameCall(c) /\ Fates(c) /\ (c \in gaveUp' <=> c \in gaveUp)

\* Whether a request is taken to have run.
LEMMA WentIs ==
    ASSUME NEW c, NEW m
    PROVE  /\ Went(<<c, m>>) <=> <<c, m>> \in ran \/ (IsInput(Tool(c)) /\ <<c, m>> \in away)
           /\ world' = world => (Went(<<c, m>>)' <=> <<c, m>> \in ran' \/ (IsInput(Tool(c)) /\ <<c, m>> \in away'))
<1>1. <<c, m>>[1] = c  OBVIOUS
<1>2. world' = world => IsInput(Tool(c))' = IsInput(Tool(c))  BY DEF IsInput, Tool
<1> QED  BY <1>1, <1>2 DEF Went

LEMMA KeptRight == ASSUME CallTypes, NEW c \in Calls, CallRight(c), Kept(c) PROVE CallRight(c)'
<1> USE DEF Kept, SameCall, Fates
<1>1. call[c].n \in 1 .. 4  BY DEF CallTypes, CallType
<1>2. Tool(c)' = Tool(c) /\ Reqs(c)' = Reqs(c) /\ (Asks(c)' <=> Asks(c))
      /\ First(Tool(c))' = First(Tool(c)) /\ (IsInput(Tool(c))' <=> IsInput(Tool(c)))
  BY DEF Tool, Reqs, Asks, Requests, First, IsInput
<1>3. Now(c)' = Now(c) /\ (Stray(c)' <=> Stray(c)) /\ approval'[Now(c)] = approval[Now(c)]
      /\ (Now(c) \in ran' <=> Now(c) \in ran) /\ (Now(c) \in away' <=> Now(c) \in away)
  BY <1>1 DEF Now, Stray
<1>w. \A m \in 1 .. 4 : Went(<<c, m>>)' <=> Went(<<c, m>>)  BY WentIs
<1>4. CallShape(c)'  BY <1>2 DEF CallRight, CallShape
<1>5. Asking(c)'  BY <1>2 DEF CallRight, Asking, Touched
<1>6. Answered(c)'  BY <1>2, <1>3 DEF CallRight, Answered, Unanswered
<1>7. Planned(c)'  BY <1>2 DEF CallRight, Planned
<1>8. Ordered(c)'
  <2>1. \A m \in 1 .. call[c].n - 1 : m \in 1 .. 4  BY <1>1
  <2>2. Went(Now(c))' <=> Went(Now(c))  BY <1>1, <1>3, <1>w DEF Now
  <2> QED  BY <2>1, <2>2, <1>2, <1>w DEF CallRight, Ordered
<1>9. ToldRight(c)'  BY <1>2, <1>3 DEF CallRight, ToldRight
<1> QED  BY <1>4, <1>5, <1>6, <1>7, <1>8, <1>9 DEF CallRight

\* What a call's own step leaves alone.
HubSame == UNCHANGED <<world, approval, late, gaveUp, away, unheard, ran>>
OthersSame(c) == \A d \in Calls : d # c => SameCall(d)

LEMMA OthersRight ==
    ASSUME CallTypes, \A d \in Calls : CallRight(d), NEW c \in Calls, HubSame, OthersSame(c), CallRight(c)'
    PROVE  \A d \in Calls : CallRight(d)'
<1> SUFFICES ASSUME NEW d \in Calls, d # c PROVE CallRight(d)'
  OBVIOUS
<1>1. Kept(d)  BY DEF Kept, Fates, HubSame, OthersSame
<1> QED  BY <1>1, KeptRight

\* What a caller may be told where its call is.
Outcomes == {"done", "failed", "transfer failed", "error", "dryrun", "pending", "approved",
             "denied", "expired", "refused", "timeout"}
MayTell(c, what) ==
    /\ what \in Outcomes
    /\ Asks(c) =>
          /\ what \in {"dryrun", "refused"} => approval[Now(c)] = "none" /\ Stray(c)
          /\ what \in {"denied", "expired"} => approval[Now(c)] = what
          /\ what = "pending" => approval[Now(c)] # "none"
          /\ what \in {"done", "approved"} =>
                ~Tool(c).dry /\ call[c].n = Len(Reqs(c)) /\ Went(Now(c))
          /\ what = "dryrun" => Tool(c).dry

Told(c, what) == IF Tool(c).cli THEN ExitCode(what) ELSE what

LEMMA ToldIs ==
    ASSUME NEW c \in Calls, NEW what \in Outcomes, NEW t, t = Told(c, what)
    PROVE  /\ t \in Tellings \ {"none"}
           /\ t \in {"dryrun", "refused", "denied", "expired", "done", "approved", "pending", "failed",
                    "transfer failed"} => what = t
           /\ t \in ToldToWait => what = "pending"
           /\ t = "exit 0" => what \in {"done", "approved", "dryrun"}
BY DEF Told, Outcomes, ExitCode, Tellings, ToldToWait

LEMMA StopRight ==
    ASSUME CallTypes, NEW c \in Calls, CallRight(c), HubSame, NEW what, MayTell(c, what),
           call'[c].pc = "done", call'[c].n = call[c].n, reply'[c] = "none", told'[c] = Told(c, what)
    PROVE  CallRight(c)'
<1> USE DEF HubSame
<1>1. call[c].n \in 1 .. 4  BY DEF CallTypes, CallType
<1>2. Tool(c)' = Tool(c) /\ Reqs(c)' = Reqs(c) /\ (Asks(c)' <=> Asks(c))
      /\ First(Tool(c))' = First(Tool(c)) /\ (IsInput(Tool(c))' <=> IsInput(Tool(c)))
  BY DEF Tool, Reqs, Asks, Requests, First, IsInput
<1>3. Now(c)' = Now(c) /\ (Stray(c)' <=> Stray(c)) /\ approval' = approval /\ ran' = ran
  BY DEF Now, Stray
<1>w. \A r : Went(r)' <=> Went(r)  BY DEF Went, Tool, IsInput
<1>4. /\ told'[c] \in Tellings \ {"none"}
      /\ told'[c] \in {"dryrun", "refused", "denied", "expired", "done", "approved"} => what = told'[c]
      /\ told'[c] \in ToldToWait => what = "pending"
      /\ told'[c] = "exit 0" => what \in {"done", "approved", "dryrun"}
  BY ToldIs DEF MayTell
<1>5. CallShape(c)'  BY <1>2, <1>4 DEF CallRight, CallShape
<1>6. Asking(c)'  BY <1>2 DEF CallRight, Asking, Touched
<1>7. Answered(c)'  BY <1>2, <1>3 DEF Answered, Unanswered
<1>8. Planned(c)'  BY <1>2, <1>4 DEF Planned, MayTell
<1>9. Ordered(c)'
  <2> SUFFICES ASSUME ~Tool(c).dry /\ Asks(c)
               PROVE  /\ \A m \in 1 .. call[c].n - 1 : Went(<<c, m>>)
                      /\ told'[c] \in {"done", "approved", "exit 0"} => call[c].n = Len(Reqs(c)) /\ Went(Now(c))
    BY <1>2, <1>3, <1>w DEF Ordered
  <2>1. \A m \in 1 .. call[c].n - 1 : Went(<<c, m>>)
    BY DEF CallRight, Ordered
  <2>2. told'[c] \in {"done", "approved", "exit 0"} => what \in {"done", "approved"}
    BY <1>4 DEF MayTell
  <2> QED  BY <2>1, <2>2 DEF MayTell
<1>10. ToldRight(c)'
  BY <1>2, <1>3, <1>4 DEF ToldRight, MayTell
<1> QED  BY <1>5, <1>6, <1>7, <1>8, <1>9, <1>10 DEF CallRight

LEMMA StopDoes ==
    ASSUME CallTypes, NEW c \in Calls, NEW what, Stop(c, what)
    PROVE  /\ call'[c].pc = "done" /\ call'[c].n = call[c].n /\ reply'[c] = "none" /\ told'[c] = Told(c, what)
           /\ OthersSame(c)
<1>1. call \in [Calls -> CallType] /\ reply \in [Calls -> Replies] /\ told \in [Calls -> Tellings]
  BY DEF CallTypes
<1>2. call'[c].pc = "done" /\ call'[c].n = call[c].n /\ \A d \in Calls : d # c => call'[d] = call[d]
  BY <1>1 DEF Stop, CallType
<1>3. reply'[c] = "none" /\ \A d \in Calls : d # c => reply'[d] = reply[d]
  BY <1>1 DEF Stop
<1>4. told'[c] = Told(c, what) /\ \A d \in Calls : d # c => told'[d] = told[d]
  BY <1>1 DEF Stop, Told
<1> QED  BY <1>2, <1>3, <1>4 DEF OthersSame, SameCall

LEMMA StopAllRight ==
    ASSUME CallTypes, \A d \in Calls : CallRight(d), NEW c \in Calls, HubSame, NEW what, MayTell(c, what),
           Stop(c, what)
    PROVE  \A d \in Calls : CallRight(d)'
<1>1. CallRight(c)'  BY StopDoes, StopRight
<1> QED  BY <1>1, StopDoes, OthersRight

\* A step that only moves a call on: to another place, from where it says what it said of
\* the request at hand, or to the next request.
LEMMA MoveRight ==
    ASSUME CallTypes, \A d \in Calls : CallRight(d), NEW c \in Calls, HubSame,
           NEW pc \in {"ready", "sent", "held", "poll"}, NEW n \in 1 .. 4, NEW rep \in {"none", "pending"},
           call'[c].pc = pc, call'[c].n = n, reply'[c] = rep, told'[c] = told[c], OthersSame(c),
           call[c].pc # "done", Asks(c), n <= Len(Reqs(c)), call[c].n <= n,
           pc = "held" <=> rep = "pending",
           pc = "held" => reply[c] = "pending" /\ n = call[c].n /\ ~Tool(c).dry,
           pc \in {"ready", "sent"} => approval[<<c, n>>] = "none" /\ (<<c, n>> \in ran => c \in gaveUp),
           pc \in {"ready", "sent"} /\ Tool(c).dry => n = First(Tool(c)),
           ~Tool(c).dry => \A m \in 1 .. n - 1 : Went(<<c, m>>),
           pc = "poll" => n = Len(Reqs(c)) /\ Went(<<c, n>>) /\ ~Tool(c).dry
    PROVE  \A d \in Calls : CallRight(d)'
<1> USE DEF HubSame
<1>1. call[c].n \in 1 .. 4  BY DEF CallTypes, CallType
<1>2. Tool(c)' = Tool(c) /\ Reqs(c)' = Reqs(c) /\ (Asks(c)' <=> Asks(c))
      /\ First(Tool(c))' = First(Tool(c)) /\ (IsInput(Tool(c))' <=> IsInput(Tool(c)))
  BY DEF Tool, Reqs, Asks, Requests, First, IsInput
<1>3. Now(c)' = <<c, n>> /\ approval' = approval /\ ran' = ran /\ gaveUp' = gaveUp /\ late' = late
  BY DEF Now
<1>w. \A r : Went(r)' <=> Went(r)  BY DEF Went, Tool, IsInput
<1>4. told[c] = "none" /\ CallRight(c)  BY DEF CallRight, CallShape
<1>5. CallShape(c)'  BY <1>2, <1>4 DEF CallShape
<1>6. Asking(c)'  BY <1>1, <1>2, <1>4 DEF CallRight, Asking, Touched
<1>7. Answered(c)'
  <2>1. pc = "held" => Now(c) = <<c, n>> /\ approval[<<c, n>>] # "none"
    BY <1>4 DEF CallRight, Answered, Now
  <2> QED  BY <1>2, <1>3, <2>1 DEF Answered, Unanswered, Stray
<1>8. Planned(c)'  BY <1>2, <1>4 DEF Planned
<1>9. Ordered(c)'  BY <1>2, <1>3, <1>4, <1>w DEF Ordered
<1>10. ToldRight(c)'  BY <1>2, <1>4 DEF ToldRight, ToldToWait
<1>11. CallRight(c)'  BY <1>5, <1>6, <1>7, <1>8, <1>9, <1>10 DEF CallRight
<1> QED  BY <1>11, OthersRight

LEMMA ResolveRight ==
    ASSUME CallTypes, \A d \in Calls : CallRight(d), NEW c \in Calls, Resolve(c)
    PROVE  \A d \in Calls : CallRight(d)'
<1>1. call \in [Calls -> CallType] /\ world \in Worlds  BY DEF CallTypes
<1>2. HubSame /\ call[c].pc = "new" /\ Asks(c)  BY DEF Resolve, Still, HubSame, device, Asks
<1>3. CallRight(c) /\ call[c].n = 1  BY <1>2 DEF CallRight, CallShape
<1>4. CASE Stop(c, "error")
  <2>1. MayTell(c, "error")  BY DEF MayTell, Outcomes
  <2> QED  BY <1>2, <1>4, <2>1, StopAllRight
<1>5. CASE call' = [call EXCEPT ![c].pc = "ready", ![c].n = First(Tool(c))] /\ UNCHANGED <<told, reply>>
  <2> DEFINE n == First(Tool(c))
  <2>1. n \in 1 .. Len(Reqs(c)) /\ Len(Reqs(c)) \in 1 .. 4 /\ (~Tool(c).dry => n = 1)  BY <1>1, ReqsAre
  <2>2. n \in 1 .. 4 /\ n <= Len(Reqs(c)) /\ call[c].n <= n
    <3> DEFINE len == Len(Reqs(c))
    <3>1. n \in 1 .. len /\ len \in 1 .. 4 /\ call[c].n = 1  BY <1>3, <2>1
    <3> HIDE DEF n, len
    <3>2. n \in 1 .. 4 /\ n <= len /\ call[c].n <= n  BY <3>1
    <3> QED  BY <3>2 DEF len
  <2> HIDE DEF n
  <2>3. call'[c].pc = "ready" /\ call'[c].n = n /\ \A d \in Calls : d # c => call'[d] = call[d]
    BY <1>1, <1>5 DEF CallType, n
  <2>4. reply[c] = "none"  BY <1>2, <1>3 DEF CallRight, CallShape
  <2>5. \A m \in 1 .. 4 : ~Touched(<<c, m>>)  BY <1>2, <1>3 DEF CallRight, Asking
  <2>6. approval[<<c, n>>] = "none" /\ <<c, n>> \notin ran  BY <2>2, <2>5 DEF Touched
  <2>7. OthersSame(c) /\ told'[c] = told[c] /\ reply'[c] = "none"  BY <1>5, <2>3, <2>4 DEF OthersSame, SameCall
  <2>8. ~Tool(c).dry => \A m \in 1 .. n - 1 : Went(<<c, m>>)  BY <2>1
  <2>9. Tool(c).dry => n = First(Tool(c))  BY DEF n
  <2> QED  BY <1>2, <2>2, <2>3, <2>6, <2>7, <2>8, <2>9, MoveRight
<1> QED  BY <1>4, <1>5 DEF Resolve

LEMMA AskRight ==
    ASSUME CallTypes, \A d \in Calls : CallRight(d), NEW c \in Calls, Ask(c)
    PROVE  \A d \in Calls : CallRight(d)'
<1>1. call \in [Calls -> CallType] /\ world \in Worlds  BY DEF CallTypes
<1>2. HubSame /\ call[c].pc = "ready" /\ UNCHANGED <<told, reply>>  BY DEF Ask, Still, HubSame, device
<1>3. CallRight(c) /\ reply[c] = "none" /\ Asks(c)  BY <1>2 DEF CallRight, CallShape
<1> DEFINE n == call[c].n
<1>4. n \in 1 .. 4 /\ n <= Len(Reqs(c)) /\ call[c].n <= n
  <2>1. n \in 1 .. 4  BY <1>1 DEF CallType
  <2>2. n <= Len(Reqs(c))  BY <1>3 DEF CallRight, CallShape
  <2> QED  BY <2>1, <2>2
<1> HIDE DEF n
<1>5. call'[c].pc = "sent" /\ call'[c].n = n /\ \A d \in Calls : d # c => call'[d] = call[d]
  BY <1>1 DEF Ask, CallType, n
<1>6. OthersSame(c) /\ told'[c] = told[c] /\ reply'[c] = "none"  BY <1>2, <1>3, <1>5 DEF OthersSame, SameCall
<1>7. approval[<<c, n>>] = "none" /\ (<<c, n>> \in ran => c \in gaveUp)
  BY <1>2, <1>3 DEF CallRight, Answered, Unanswered, Stray, Now, n
<1>8. ~Tool(c).dry => \A m \in 1 .. n - 1 : Went(<<c, m>>)
  BY <1>3 DEF CallRight, Ordered, n
<1>9. Tool(c).dry => n = First(Tool(c))
  BY <1>2, <1>3 DEF CallRight, Planned, n
<1> QED  BY <1>2, <1>3, <1>4, <1>5, <1>6, <1>7, <1>8, <1>9, MoveRight

\* The request at hand is taken to have run.
LEMMA GoRight ==
    ASSUME CallTypes, \A d \in Calls : CallRight(d), NEW c \in Calls, HubSame, Asks(c), ~Tool(c).dry,
           call[c].pc \in {"sent", "held"}, Went(Now(c)),
           NEW what \in {"done", "approved"}, Go(c, what)
    PROVE  \A d \in Calls : CallRight(d)'
<1>1. /\ call \in [Calls -> CallType] /\ world \in Worlds
      /\ reply \in [Calls -> Replies]
  BY DEF CallTypes
<1>2. CallRight(c)  OBVIOUS
<1> DEFINE k == call[c].n
           len == Len(Reqs(c))
<1>3. k \in 1 .. 4 /\ k <= len /\ len \in 1 .. 4
  <2>1. k \in 1 .. 4  BY <1>1 DEF CallType
  <2>2. k <= len  BY <1>2 DEF CallRight, CallShape
  <2> QED  BY <2>1, <2>2, <1>1, ReqsAre
<1>4. \A m \in 1 .. k : Went(<<c, m>>)
  <2>1. \A m \in 1 .. k - 1 : Went(<<c, m>>)
    BY <1>2 DEF CallRight, Ordered
  <2> QED  BY <2>1, <1>3 DEF Now
<1>5. CASE k < len /\ call' = [call EXCEPT ![c].pc = "ready", ![c].n = @ + 1]
           /\ reply' = [reply EXCEPT ![c] = "none"] /\ UNCHANGED told
  <2> DEFINE n == k + 1
  <2>1. n \in 1 .. 4 /\ n <= len /\ k <= n /\ n - 1 = k
    <3>1. k \in 1 .. 4 /\ len \in 1 .. 4 /\ k < len  BY <1>3, <1>5
    <3> HIDE DEF k, len
    <3> QED  BY <3>1
  <2>2. call'[c].pc = "ready" /\ call'[c].n = n /\ \A d \in Calls : d # c => call'[d] = call[d]
    BY <1>1, <1>5 DEF CallType
  <2>3. approval[<<c, n>>] = "none" /\ <<c, n>> \notin ran
    <3>1. ~(n <= k)  BY <1>3
    <3> HIDE DEF n, k
    <3>2. Touched(<<c, n>>) => n <= call[c].n  BY <1>2, <2>1 DEF CallRight, Asking
    <3> QED  BY <3>1, <3>2 DEF Touched, k
  <2>4. OthersSame(c) /\ told'[c] = told[c] /\ reply'[c] = "none"
    BY <1>1, <1>5, <2>2 DEF OthersSame, SameCall
  <2>5. \A m \in 1 .. n - 1 : Went(<<c, m>>)  BY <1>4, <2>1
  <2>6. n <= Len(Reqs(c)) /\ call[c].n <= n  BY <2>1
  <2> HIDE DEF n, k, len
  <2> QED  BY <2>1, <2>2, <2>3, <2>4, <2>5, <2>6, MoveRight
<1>6. CASE ~(k < len) /\ call' = [call EXCEPT ![c].pc = "poll"] /\ Tool(c).kind = "push"
           /\ reply' = [reply EXCEPT ![c] = "none"] /\ UNCHANGED told
  <2>1. k = len  BY <1>3, <1>6
  <2>2. call'[c].pc = "poll" /\ call'[c].n = k /\ \A d \in Calls : d # c => call'[d] = call[d]
    BY <1>1, <1>6 DEF CallType
  <2>3. Went(<<c, k>>)  BY <1>3, <1>4
  <2>4. OthersSame(c) /\ told'[c] = told[c] /\ reply'[c] = "none"
    BY <1>1, <1>6, <2>2 DEF OthersSame, SameCall
  <2>5. \A m \in 1 .. k - 1 : Went(<<c, m>>)  BY <1>3, <1>4
  <2>6. k = Len(Reqs(c)) /\ k <= Len(Reqs(c)) /\ call[c].n <= k /\ k \in 1 .. 4  BY <2>1, <1>3
  <2> HIDE DEF k, len
  <2> QED  BY <2>2, <2>3, <2>4, <2>5, <2>6, MoveRight
<1>7. CASE ~(k < len) /\ Stop(c, what)
  <2>1. k = len  BY <1>3, <1>7
  <2>2. MayTell(c, what)  BY <2>1 DEF MayTell, Outcomes
  <2> QED  BY <1>7, <2>2, StopAllRight
<1> QED  BY <1>5, <1>6, <1>7 DEF Go, Reqs

LEMMA TakeRight ==
    ASSUME CallTypes, \A d \in Calls : CallRight(d), NEW c \in Calls, Take(c)
    PROVE  \A d \in Calls : CallRight(d)'
<1>1. /\ call \in [Calls -> CallType] /\ world \in Worlds
      /\ reply \in [Calls -> Replies]
  BY DEF CallTypes
<1>2. HubSame /\ call[c].pc = "sent"  BY DEF Take, Still, HubSame, device
<1>3. CallRight(c) /\ Asks(c)  BY <1>2 DEF CallRight, CallShape
<1>4. ~Tool(c).dry \/ reply[c] \in {"none", "dryrun"}
  BY <1>3 DEF CallRight, Planned
<1>5. CASE reply[c] = "done" /\ Go(c, "done")
  <2>1. Now(c) \in ran  BY <1>3, <1>5 DEF CallRight, Answered
  <2>2. Went(Now(c))  BY <2>1 DEF Went
  <2> QED  BY <1>2, <1>3, <1>4, <1>5, <2>2, GoRight
<1>6. CASE reply[c] = "failed" /\ IsInput(Tool(c)) /\ Go(c, "done")
  <2>1. Now(c) \in ran \/ Now(c) \in away  BY <1>3, <1>6 DEF CallRight, Answered
  <2>2. Went(Now(c))  BY <1>6, <2>1, WentIs DEF Now
  <2> QED  BY <1>2, <1>3, <1>4, <1>6, <2>2, GoRight
<1>7. CASE reply[c] = "failed" /\ Stop(c, "failed")
  <2>1. MayTell(c, "failed")  BY DEF MayTell, Outcomes
  <2> QED  BY <1>2, <1>7, <2>1, StopAllRight
<1>8. CASE reply[c] \in {"dryrun", "refused"} /\ Stop(c, reply[c])
  <2>1. MayTell(c, reply[c])
    <3>1. approval[Now(c)] = "none" /\ Stray(c) /\ (reply[c] = "dryrun" => Tool(c).dry)
      BY <1>3, <1>8 DEF CallRight, Answered
    <3> QED  BY <3>1, <1>8 DEF MayTell, Outcomes
  <2> QED  BY <1>2, <1>8, <2>1, StopAllRight
<1>9. CASE reply[c] = "pending" /\ Stop(c, "pending")
  <2>1. MayTell(c, "pending")  BY <1>3, <1>9 DEF CallRight, Answered, MayTell, Outcomes
  <2> QED  BY <1>2, <1>9, <2>1, StopAllRight
<1>10. CASE reply[c] = "pending" /\ call' = [call EXCEPT ![c].pc = "held"] /\ UNCHANGED <<told, reply>>
  <2> DEFINE n == call[c].n
  <2>1. n \in 1 .. 4 /\ n <= Len(Reqs(c)) /\ call[c].n <= n
    <3>1. n \in 1 .. 4  BY <1>1 DEF CallType
    <3>2. n <= Len(Reqs(c))  BY <1>3 DEF CallRight, CallShape
    <3> QED  BY <3>1, <3>2
  <2>2. call'[c].pc = "held" /\ call'[c].n = n /\ \A d \in Calls : d # c => call'[d] = call[d]
    BY <1>1, <1>10 DEF CallType
  <2> HIDE DEF n
  <2>3. OthersSame(c) /\ told'[c] = told[c] /\ reply'[c] = "pending"
    BY <1>10, <2>2 DEF OthersSame, SameCall
  <2>4. \A m \in 1 .. n - 1 : Went(<<c, m>>)
    BY <1>3, <1>4, <1>10 DEF CallRight, Ordered, n
  <2>5. reply[c] = "pending" /\ n = call[c].n /\ ~Tool(c).dry  BY <1>4, <1>10 DEF n
  <2> QED  BY <1>2, <1>3, <2>1, <2>2, <2>3, <2>4, <2>5, MoveRight
<1> QED  BY <1>5, <1>6, <1>7, <1>8, <1>9, <1>10 DEF Take

LEMMA SettleRight ==
    ASSUME CallTypes, \A d \in Calls : CallRight(d), NEW c \in Calls, Settle(c)
    PROVE  \A d \in Calls : CallRight(d)'
<1>1. /\ call \in [Calls -> CallType] /\ approval \in [Rs -> Verdicts]
  BY DEF CallTypes
<1>2. HubSame /\ call[c].pc = "held"  BY DEF Settle, Still, HubSame, device
<1>3. CallRight(c) /\ Asks(c) /\ ~Tool(c).dry  BY <1>2 DEF CallRight, CallShape, Planned
<1>4. Now(c) = <<c, call[c].n>> /\ call[c].n \in 1 .. 4  BY <1>1 DEF Now, CallType
<1> DEFINE s == FromView(approval[Now(c)])
<1>5. CASE s = "executed" /\ Go(c, "approved")
  <2>1. approval[Now(c)] = "executed"  BY <1>5 DEF FromView
  <2>2. Now(c) \in ran  BY <2>1, <1>3, <1>4 DEF CallRight, Asking
  <2>3. Went(Now(c))  BY <2>2 DEF Went
  <2> QED  BY <1>2, <1>3, <1>5, <2>3, GoRight
<1>6. CASE s \in {"failed", "denied", "expired"} /\ Stop(c, s)
  <2>1. s = approval[Now(c)]  BY <1>6 DEF FromView
  <2>2. MayTell(c, s)  BY <1>6, <2>1 DEF MayTell, Outcomes
  <2> HIDE DEF s
  <2> QED  BY <1>2, <1>6, <2>2, StopAllRight
<1> QED  BY <1>5, <1>6 DEF Settle

LEMMA EndsRight ==
    ASSUME CallTypes, \A d \in Calls : CallRight(d), NEW c \in Calls, WaitEnds(c) \/ Lookup(c)
    PROVE  \A d \in Calls : CallRight(d)'
<1>1. HubSame  BY DEF WaitEnds, Lookup, Still, HubSame, device
<1>2. CASE WaitEnds(c)
  <2>1. call[c].pc = "held" /\ Stop(c, "pending") /\ CallRight(c)  BY <1>2 DEF WaitEnds
  <2>2. reply[c] = "pending"  BY <2>1 DEF CallRight, CallShape
  <2>3. MayTell(c, "pending")  BY <2>1, <2>2 DEF CallRight, Answered, MayTell, Outcomes
  <2> QED  BY <1>1, <2>1, <2>3, StopAllRight
<1>3. CASE Lookup(c)
  <2> DEFINE s == FromView(approval[Now(Tool(c).of)])
             what == IF s \in {"executed", "failed"} THEN "approved" ELSE IF s = "none" THEN "pending" ELSE s
  <2>1. ~Asks(c) /\ Stop(c, what)  BY <1>3 DEF Lookup, Asks
  <2>2. s \in {"executed", "failed", "denied", "expired", "none"}  BY DEF FromView
  <2>3. MayTell(c, what)  BY <2>1, <2>2 DEF MayTell, Outcomes
  <2> HIDE DEF what
  <2> QED  BY <1>1, <2>1, <2>3, StopAllRight
<1> QED  BY <1>2, <1>3

LEMMA PollRight ==
    ASSUME CallTypes, \A d \in Calls : CallRight(d), NEW c \in Calls, Poll(c)
    PROVE  \A d \in Calls : CallRight(d)'
<1>1. /\ call \in [Calls -> CallType]
  BY DEF CallTypes
<1>2. HubSame /\ call[c].pc = "poll"  BY DEF Poll, Still, HubSame, device
<1>3. CallRight(c) /\ Asks(c) /\ ~Tool(c).dry  BY <1>2 DEF CallRight, CallShape, Planned
<1>4. call[c].n = Len(Reqs(c)) /\ Went(Now(c))
  BY <1>2, <1>3 DEF CallRight, Ordered
<1>5. ASSUME NEW what \in {"done", "transfer failed", "timeout"}, Stop(c, what) PROVE \A d \in Calls : CallRight(d)'
  <2>1. MayTell(c, what)  BY <1>3, <1>4 DEF MayTell, Outcomes
  <2> QED  BY <1>2, <1>5, <2>1, StopAllRight
<1>6. CASE Polled(c, call[c].polls + 1)
  <2> DEFINE n == call[c].n
             k == call[c].polls + 1
  <2>1. call'[c].pc = "poll" /\ call'[c].n = n /\ \A d \in Calls : d # c => call'[d] = call[d]
    <3>1. call' = [call EXCEPT ![c].polls = k]  BY <1>6 DEF Polled
    <3> HIDE DEF k
    <3> QED  BY <1>1, <1>2, <3>1 DEF CallType
  <2>2. reply'[c] = "none" /\ told'[c] = told[c] /\ OthersSame(c)
    BY <1>2, <1>3, <1>6, <2>1 DEF Polled, OthersSame, SameCall, CallRight, CallShape
  <2>3. CallRight(c)'
    <3>1. Unanswered(c)' = FALSE /\ Now(c)' = Now(c)  BY <2>1 DEF Unanswered, Now
    <3>2. Tool(c)' = Tool(c) /\ Reqs(c)' = Reqs(c) /\ (Asks(c)' <=> Asks(c)) /\ (Stray(c)' <=> Stray(c))
          /\ First(Tool(c))' = First(Tool(c)) /\ (IsInput(Tool(c))' <=> IsInput(Tool(c)))
      BY <1>2, <3>1 DEF HubSame, Tool, Reqs, Asks, Requests, First, IsInput, Stray
    <3>3. reply[c] = "none"  BY <1>2, <1>3 DEF CallRight, CallShape
    <3>4. CallShape(c)'  BY <1>2, <1>3, <2>1, <2>2, <3>2 DEF CallRight, CallShape
    <3>5. Asking(c)'  BY <1>2, <1>3, <2>1, <3>2 DEF CallRight, Asking, Touched, HubSame
    <3>6. Answered(c)'  BY <2>2, <3>1 DEF Answered
    <3>7. Planned(c)'  BY <1>3, <3>2 DEF Planned
    <3>w. \A r : Went(r)' <=> Went(r)  BY <1>2 DEF HubSame, Went, Tool, IsInput
    <3>8. Ordered(c)'  BY <1>2, <1>3, <2>1, <2>2, <3>1, <3>2, <3>w DEF CallRight, Ordered, HubSame
    <3>9. ToldRight(c)'  BY <1>2, <1>3, <2>2, <3>1, <3>2 DEF CallRight, ToldRight, HubSame
    <3> QED  BY <3>4, <3>5, <3>6, <3>7, <3>8, <3>9 DEF CallRight
  <2> QED  BY <1>2, <2>2, <2>3, OthersRight
<1> QED  BY <1>5, <1>6 DEF Poll, MorePolls

-----------------------------------------------------------------------------
\* The hub answers the request at hand: it ran, it was turned away, it is a plan or a
\* refusal, or it waits for a human.
Answers(c, a) ==
    /\ Asked(c) /\ Answer(c, a) /\ a # "none"
    /\ UNCHANGED <<world, call, told, late, gaveUp>>
    /\ approval' = IF a = "pending" THEN [approval EXCEPT ![Now(c)] = "pending"] ELSE approval
    /\ CASE a \in {"done", "served"} -> /\ ran' = ran \cup {Now(c)}
                                        /\ UNCHANGED <<away, unheard>>
         [] a = "failed" -> \/ /\ ran' = ran \cup {Now(c)} /\ away' = away
                               /\ unheard' = unheard \cup {Now(c)}
                            \/ /\ ran' = ran /\ unheard' = unheard
                               /\ away' = away \cup {Now(c)}
         [] OTHER -> UNCHANGED <<ran, away, unheard>>
    /\ a = "dryrun" <=> Dry(c)
    /\ a = "served" => Tool(c).kind = "upload"

LEMMA AnswerRight ==
    ASSUME CallTypes, \A d \in Calls : CallRight(d), NEW c \in Calls, NEW a \in Replies, Answers(c, a)
    PROVE  \A d \in Calls : CallRight(d)'
<1> USE DEF Answers
<1>1. /\ call \in [Calls -> CallType] /\ reply \in [Calls -> Replies] /\ approval \in [Rs -> Verdicts]
  BY DEF CallTypes
<1> DEFINE n == call[c].n
<1>2. n \in 1 .. 4  BY <1>1 DEF CallType
<1>3. Now(c) = <<c, n>> /\ <<c, n>> \in Rs  BY <1>2 DEF Now, Rs
<1>4. call[c].pc = "sent" /\ reply[c] = "none" /\ CallRight(c)  BY DEF Asked
<1>5. Asks(c) /\ approval[<<c, n>>] = "none" /\ (<<c, n>> \in ran => c \in gaveUp) /\ told[c] = "none"
  BY <1>3, <1>4 DEF CallRight, CallShape, Answered, Unanswered, Stray
<1>6. reply'[c] = a /\ \A d \in Calls : d # c => reply'[d] = reply[d]
  BY <1>1 DEF Answer
<1> HIDE DEF n
<1>a. /\ ran' = ran \/ ran' = ran \cup {<<c, n>>}
      /\ away' = away \/ away' = away \cup {<<c, n>>}
      /\ unheard' = unheard \/ unheard' = unheard \cup {<<c, n>>}
  BY <1>3
<1>7. \A r \in Rs : r # <<c, n>> => /\ (r \in ran' <=> r \in ran) /\ approval'[r] = approval[r]
                                    /\ (r \in away' <=> r \in away) /\ (r \in unheard' <=> r \in unheard)
  BY <1>1, <1>3, <1>a
<1>8. ASSUME NEW d \in Calls, d # c PROVE CallRight(d)'
  <2>1. \A m \in 1 .. 4 : <<d, m>> \in Rs /\ <<d, m>> # <<c, n>>  BY <1>8 DEF Rs
  <2>2. Kept(d)  BY <1>6, <1>7, <1>8, <2>1 DEF Kept, SameCall, Fates
  <2> QED  BY <2>2, KeptRight
<1>9. Tool(c)' = Tool(c) /\ Reqs(c)' = Reqs(c) /\ (Asks(c)' <=> Asks(c)) /\ Now(c)' = <<c, n>>
      /\ First(Tool(c))' = First(Tool(c)) /\ (IsInput(Tool(c))' <=> IsInput(Tool(c)))
  BY <1>3 DEF Tool, Reqs, Asks, Requests, First, IsInput, Now
<1>10. a \in {"done", "served"} => <<c, n>> \in ran' /\ approval'[<<c, n>>] = "none"
  BY <1>3, <1>5
<1>11. a = "pending" => approval'[<<c, n>>] = "pending" /\ (<<c, n>> \in ran' => c \in gaveUp)
  BY <1>1, <1>3, <1>5
<1>12. /\ a \in {"dryrun", "refused"} => ran' = ran /\ approval'[<<c, n>>] = "none"
       /\ a = "failed" => /\ approval'[<<c, n>>] = "none"
                          /\ <<c, n>> \in ran' \/ <<c, n>> \in away'
  BY <1>3, <1>5
<1>r. a \in {"done", "served", "pending", "failed", "dryrun", "refused"}  BY DEF Replies
<1>13. CallShape(c)'  BY <1>4, <1>5, <1>6, <1>9 DEF CallRight, CallShape
<1>14. Asking(c)'
  <2> SUFFICES ASSUME NEW m \in 1 .. 4
               PROVE  /\ Touched(<<c, m>>)' => m <= call[c].n /\ call[c].pc # "new" /\ Asks(c)
                      /\ <<c, m>> \in late => c \in gaveUp
                      /\ approval'[<<c, m>>] \in Undecided /\ <<c, m>> \in ran' => c \in gaveUp
                      /\ approval'[<<c, m>>] \in {"served", "executed"} => <<c, m>> \in ran'
                      /\ approval'[<<c, m>>] = "served" => Tool(c).kind = "upload"
    BY <1>9 DEF Asking, Touched
  <2>1. CASE m = n
    BY <1>2, <1>4, <1>5, <1>r, <1>10, <1>11, <1>12, <2>1 DEF CallRight, Asking, Undecided, n
  <2>2. CASE m # n
    <3>1. <<c, m>> \in Rs /\ <<c, m>> # <<c, n>>  BY <2>2 DEF Rs
    <3>2. (<<c, m>> \in ran' <=> <<c, m>> \in ran) /\ approval'[<<c, m>>] = approval[<<c, m>>]
      BY <1>7, <3>1
    <3> QED  BY <1>4, <3>2 DEF CallRight, Asking, Touched
  <2> QED  BY <2>1, <2>2
<1>15. Answered(c)'
  BY <1>4, <1>5, <1>6, <1>9, <1>r, <1>10, <1>11, <1>12 DEF Answered, Unanswered, Stray, Dry
<1>16. Planned(c)'
  <2>1. Tool(c).dry /\ Asks(c) => call[c].n = First(Tool(c))  BY <1>4 DEF CallRight, Planned
  <2> QED  BY <1>4, <1>5, <1>6, <1>9, <2>1 DEF Planned, Dry
<1>17. Ordered(c)'
  <2>1. \A m \in 1 .. 4 : Went(<<c, m>>) => Went(<<c, m>>)'  BY <1>a, WentIs
  <2>2. \A m \in 1 .. n - 1 : m \in 1 .. 4  BY <1>2
  <2> QED  BY <1>4, <1>5, <1>9, <2>1, <2>2 DEF CallRight, Ordered, n
<1>18. ToldRight(c)'  BY <1>5 DEF ToldRight, ToldToWait
<1>19. CallRight(c)'  BY <1>13, <1>14, <1>15, <1>16, <1>17, <1>18 DEF CallRight
<1> QED  BY <1>8, <1>19

LEMMA NowIs == ASSUME CallTypes, NEW c \in Calls, CallRight(c)
               PROVE  Now(c) = <<c, call[c].n>> /\ call[c].n \in 1 .. 4 /\ call[c].n <= Len(Reqs(c)) /\ Now(c) \in Rs
<1>1. call[c].n \in 1 .. 4  BY DEF CallTypes, CallType
<1>2. call[c].n <= Len(Reqs(c))  BY DEF CallRight, CallShape
<1> QED  BY <1>1, <1>2 DEF Now, Rs

LEMMA ServeAnswers ==
    ASSUME CallTypes, NEW c \in Calls, CallRight(c), Serve(c)
    PROVE  \E a \in Replies : Answers(c, a)
<1>1. Asked(c) /\ ~Dry(c) /\ UNCHANGED <<world, call, approval, told, late, gaveUp>>
  BY DEF Serve
<1>2. Now(c) = <<c, call[c].n>> /\ call[c].n \in 1 .. 4 /\ call[c].n <= Len(Reqs(c))  BY NowIs
<1>3. CASE OnDevice(Now(c), "asked") /\ Answer(c, IF Request(Now(c)) = "upload" THEN "served" ELSE "done")
           /\ UNCHANGED <<left, away, unheard>>
  <2> DEFINE a == IF Request(Now(c)) = "upload" THEN "served" ELSE "done"
  <2>1. ran' = ran \cup {Now(c)}  BY <1>3 DEF OnDevice
  <2>2. a = "served" => Tool(c).kind = "upload"
    <3>1. call[c].n \in 1 .. Len(Reqs(c))  BY <1>2, ReqsAre DEF CallTypes
    <3> QED  BY <1>2, <3>1, ReqsAre DEF CallTypes
  <2>3. a \in {"done", "served"} /\ a \in Replies \ {"none"} /\ a # "dryrun" /\ a # "pending"  BY DEF Replies
  <2>4. Answer(c, a)  BY <1>3
  <2> HIDE DEF a
  <2> QED  BY <1>1, <1>3, <2>1, <2>2, <2>3, <2>4 DEF Answers
<1>f. "failed" \in Replies \ {"none"}  BY DEF Replies
<1>4. CASE Answer(c, "failed") /\ TurnedAway(Now(c)) /\ UNCHANGED device
  <2>1. ran' = ran /\ unheard' = unheard /\ away' = away \cup {Now(c)}  BY <1>4 DEF device, TurnedAway
  <2> QED  BY <1>1, <1>4, <1>f, <2>1 DEF Answers
<1>5. CASE Answer(c, "failed") /\ OnDevice(Now(c), "asked") /\ Unheard(Now(c))
  <2>1. ran' = ran \cup {Now(c)} /\ unheard' = unheard \cup {Now(c)} /\ away' = away
    BY <1>5 DEF OnDevice, Unheard
  <2> QED  BY <1>1, <1>5, <1>f, <2>1 DEF Answers
<1> QED  BY <1>3, <1>4, <1>5 DEF Serve

LEMMA VerdictAnswers ==
    ASSUME NEW c \in Calls, Verdict(c)
    PROVE  \E a \in Replies : Answers(c, a)
<1>1. Asked(c) /\ UNCHANGED <<world, call, told, late, gaveUp, ran, away, unheard>>
  BY DEF Verdict, device
<1>2. {"dryrun", "pending", "refused"} \subseteq Replies \ {"none"}  BY DEF Replies
<1>3. PICK a \in {"dryrun", "pending", "refused"} :
          /\ Answer(c, a) /\ (a = "dryrun" <=> Dry(c))
          /\ approval' = IF a = "pending" THEN [approval EXCEPT ![Now(c)] = "pending"] ELSE approval
  <2>1. CASE Dry(c) /\ Answer(c, "dryrun") /\ UNCHANGED approval  BY <2>1
  <2>2. CASE ~Dry(c) /\ approval' = [approval EXCEPT ![Now(c)] = "pending"] /\ Answer(c, "pending")  BY <2>2
  <2>3. CASE ~Dry(c) /\ Answer(c, "refused") /\ UNCHANGED approval  BY <2>3
  <2> QED  BY <2>1, <2>2, <2>3 DEF Verdict
<1> QED  BY <1>1, <1>2, <1>3 DEF Answers

\* What becomes of a request of a call that is held, was given up on, or is replayed.
Fated(c, m, v) ==
    /\ UNCHANGED <<world, call, reply, told, gaveUp>> /\ Touched(<<c, m>>)
    /\ ran' = ran \/ ran' = ran \cup {<<c, m>>}
    /\ away' = away \/ away' = away \cup {<<c, m>>}
    /\ unheard' = unheard \/ unheard' = unheard \cup {<<c, m>>}
    /\ late' = late \/ late' = late \ {<<c, m>>}
    /\ approval' = [approval EXCEPT ![<<c, m>>] = v]
    /\ <<c, m>> \in ran' => \/ <<c, m>> \in ran \/ c \in gaveUp \/ v \in {"served", "executed"}
                            \/ v = "failed" /\ approval[<<c, m>>] = "running" /\ <<c, m>> \in unheard'
    /\ approval[<<c, m>>] \in {"pending", "running", "served"} \/ v = approval[<<c, m>>]
    /\ v = "none" => approval[<<c, m>>] = "none"
    /\ v = "served" => Tool(c).kind = "upload"
    /\ v \in {"served", "executed"} => <<c, m>> \in ran'
    /\ v \in Undecided /\ <<c, m>> \in ran' => c \in gaveUp

LEMMA FateRight ==
    ASSUME CallTypes, \A d \in Calls : CallRight(d), NEW c \in Calls, NEW m \in 1 .. 4, NEW v \in Verdicts,
           Fated(c, m, v)
    PROVE  \A d \in Calls : CallRight(d)'
<1> USE DEF Fated
<1>1. /\ call \in [Calls -> CallType] /\ approval \in [Rs -> Verdicts]
  BY DEF CallTypes
<1>2. <<c, m>> \in Rs  BY DEF Rs
<1>3. \A r \in Rs : r # <<c, m>> => /\ r \in ran' <=> r \in ran
                                    /\ r \in away' <=> r \in away
                                    /\ r \in unheard' <=> r \in unheard
                                    /\ r \in late' <=> r \in late
                                    /\ approval'[r] = approval[r]
  BY <1>1, <1>2
<1>4. ASSUME NEW d \in Calls, d # c PROVE CallRight(d)'
  <2>1. \A k \in 1 .. 4 : <<d, k>> \in Rs /\ <<d, k>> # <<c, m>>  BY <1>4 DEF Rs
  <2>2. Kept(d)  BY <1>3, <2>1 DEF Kept, SameCall, Fates
  <2> QED  BY <2>2, KeptRight
<1>5. approval'[<<c, m>>] = v  BY <1>1, <1>2
<1>6. CallRight(c) /\ Now(c) = <<c, call[c].n>> /\ call[c].n \in 1 .. 4  BY NowIs
<1>7. Tool(c)' = Tool(c) /\ Reqs(c)' = Reqs(c) /\ (Asks(c)' <=> Asks(c)) /\ Now(c)' = Now(c)
      /\ First(Tool(c))' = First(Tool(c)) /\ (IsInput(Tool(c))' <=> IsInput(Tool(c)))
  BY DEF Tool, Reqs, Asks, Requests, First, IsInput, Now
<1>8. m <= call[c].n /\ call[c].pc # "new" /\ Asks(c)  BY <1>6 DEF CallRight, Asking
<1>9. \A k \in 1 .. 4 : k # m => /\ <<c, k>> \in ran' <=> <<c, k>> \in ran
                                 /\ <<c, k>> \in late' <=> <<c, k>> \in late
                                 /\ approval'[<<c, k>>] = approval[<<c, k>>]
  <2>1. \A k \in 1 .. 4 : <<c, k>> \in Rs /\ (k # m => <<c, k>> # <<c, m>>)  BY DEF Rs
  <2> QED  BY <1>3, <2>1
<1>10. <<c, m>> \in late' => <<c, m>> \in late  OBVIOUS
<1>11. CallShape(c)'  BY <1>6, <1>7 DEF CallRight, CallShape
<1>12. Asking(c)'
  <2> SUFFICES ASSUME NEW k \in 1 .. 4
               PROVE  /\ Touched(<<c, k>>)' => k <= call[c].n /\ call[c].pc # "new" /\ Asks(c)
                      /\ <<c, k>> \in late' => c \in gaveUp
                      /\ approval'[<<c, k>>] \in Undecided /\ <<c, k>> \in ran' => c \in gaveUp
                      /\ approval'[<<c, k>>] \in {"served", "executed"} => <<c, k>> \in ran'
                      /\ approval'[<<c, k>>] = "served" => Tool(c).kind = "upload"
    BY <1>7 DEF Asking, Touched
  <2>1. CASE k = m
    <3>2. <<c, k>> \in late' => c \in gaveUp  BY <1>6, <1>10, <2>1 DEF CallRight, Asking
    <3> QED  BY <1>5, <1>8, <2>1, <3>2
  <2>2. CASE k # m
    BY <1>6, <1>9, <2>2 DEF CallRight, Asking, Touched
  <2> QED  BY <2>1, <2>2
\* Of the request at hand nothing is undone.
<1>13. /\ Now(c) \in ran => Now(c) \in ran'
       /\ Now(c) \in away => Now(c) \in away'
       /\ approval[Now(c)] # "none" => approval'[Now(c)] # "none"
       /\ approval[Now(c)] \in {"none", "denied", "expired"} => approval'[Now(c)] = approval[Now(c)]
       /\ approval[Now(c)] = "none" /\ Stray(c) => Stray(c)'
  <2>1. CASE call[c].n = m
    <3>1. Now(c) = <<c, m>>  BY <1>6, <2>1
    <3>2. approval[<<c, m>>] \in {"none", "denied", "expired"} => v = approval[<<c, m>>]  OBVIOUS
    <3>3. approval[<<c, m>>] # "none" => v # "none"  OBVIOUS
    <3>4. approval[<<c, m>>] = "none" /\ <<c, m>> \in ran' => <<c, m>> \in ran \/ c \in gaveUp
      OBVIOUS
    <3> QED  BY <1>5, <1>7, <3>1, <3>2, <3>3, <3>4 DEF Stray
  <2>2. CASE call[c].n # m
    <3>1. (Now(c) \in ran' <=> Now(c) \in ran) /\ approval'[Now(c)] = approval[Now(c)]
      BY <1>6, <1>9, <2>2
    <3> QED  BY <1>7, <3>1 DEF Stray
  <2> QED  BY <2>1, <2>2
<1>14. Answered(c)'
  BY <1>6, <1>7, <1>13 DEF CallRight, Answered, Unanswered
<1>15. Planned(c)'  BY <1>6, <1>7 DEF CallRight, Planned
<1>16. Ordered(c)'
  <2>1. \A k \in 1 .. 4 : Went(<<c, k>>) => Went(<<c, k>>)'  BY WentIs
  <2>2. \A k \in 1 .. call[c].n - 1 : k \in 1 .. 4  BY <1>6
  <2> QED  BY <1>6, <1>7, <2>1, <2>2 DEF CallRight, Ordered
<1>17. ToldRight(c)'
  BY <1>6, <1>7, <1>13 DEF CallRight, ToldRight
<1>18. CallRight(c)'  BY <1>11, <1>12, <1>14, <1>15, <1>16, <1>17 DEF CallRight
<1> QED  BY <1>4, <1>18

LEMMA DecideFates ==
    ASSUME CallTypes, NEW c \in Calls, NEW m \in 1 .. 4, CallRight(c), Decide(<<c, m>>)
    PROVE  \E v \in Verdicts : Fated(c, m, v)
<1>1. /\ approval[<<c, m>>] = "pending" /\ UNCHANGED <<world, call, reply, told, late, gaveUp, ran, away, unheard>>
  BY DEF Decide, device
<1>2. PICK v \in {"running", "denied", "expired"} : approval' = [approval EXCEPT ![<<c, m>>] = v]
  BY DEF Decide
<1>3. v \in Verdicts /\ v \in Undecided /\ v # "none" /\ v \notin {"served", "executed"}
  BY DEF Verdicts, Undecided
<1>4. <<c, m>> \in ran => c \in gaveUp
  BY <1>1 DEF CallRight, Asking, Undecided
<1>5. Touched(<<c, m>>)  BY <1>1 DEF Touched
<1> QED  BY <1>1, <1>2, <1>3, <1>4, <1>5 DEF Fated

LEMMA ReplayFates ==
    ASSUME CallTypes, NEW c \in Calls, NEW m \in 1 .. 4, CallRight(c), Replay(<<c, m>>)
    PROVE  \E v \in Verdicts : Fated(c, m, v)
<1>1. approval[<<c, m>>] = "running" /\ UNCHANGED <<world, call, reply, told, late, gaveUp>>
  BY DEF Replay
<1>2. Touched(<<c, m>>)  BY <1>1 DEF Touched
<1>3. m <= call[c].n /\ call[c].n \in 1 .. 4 /\ call[c].n <= Len(Reqs(c))
  BY <1>2, NowIs DEF CallRight, Asking
<1>4. CASE OnDevice(<<c, m>>, "asked") /\ UNCHANGED <<left, away, unheard>>
           /\ approval' = [approval EXCEPT ![<<c, m>>] = IF Request(<<c, m>>) = "upload" THEN "served" ELSE "executed"]
  <2> DEFINE v == IF Request(<<c, m>>) = "upload" THEN "served" ELSE "executed"
  <2>1. ran' = ran \cup {<<c, m>>}  BY <1>4 DEF OnDevice
  <2>2. v = "served" => Tool(c).kind = "upload"
    <3>1. m \in 1 .. Len(Reqs(c))  BY <1>3, ReqsAre DEF CallTypes
    <3> QED  BY <3>1, ReqsAre DEF CallTypes
  <2>3. v \in {"served", "executed"} /\ v \in Verdicts /\ v \notin Undecided /\ v # "none"
    BY DEF Verdicts, Undecided
  <2>4. approval' = [approval EXCEPT ![<<c, m>>] = v]  BY <1>4
  <2> HIDE DEF v
  <2>5. <<c, m>> \in ran'  BY <2>1
  <2> QED  BY <1>1, <1>2, <1>4, <2>1, <2>2, <2>3, <2>4, <2>5 DEF Fated
<1>f. "failed" \in Verdicts /\ "failed" \notin Undecided  BY DEF Verdicts, Undecided
<1>5. CASE approval' = [approval EXCEPT ![<<c, m>>] = "failed"] /\ TurnedAway(<<c, m>>) /\ UNCHANGED device
  <2>1. ran' = ran /\ unheard' = unheard /\ away' = away \cup {<<c, m>>}  BY <1>5 DEF device, TurnedAway
  <2> QED  BY <1>1, <1>2, <1>5, <1>f, <2>1 DEF Fated
<1>6. CASE approval' = [approval EXCEPT ![<<c, m>>] = "failed"] /\ OnDevice(<<c, m>>, "asked") /\ Unheard(<<c, m>>)
  <2>1. ran' = ran \cup {<<c, m>>} /\ unheard' = unheard \cup {<<c, m>>} /\ away' = away
    BY <1>6 DEF OnDevice, Unheard
  <2> QED  BY <1>1, <1>2, <1>6, <1>f, <2>1 DEF Fated
<1> QED  BY <1>4, <1>5, <1>6 DEF Replay

LEMMA LateFates ==
    ASSUME CallTypes, NEW c \in Calls, NEW m \in 1 .. 4, CallRight(c), LateServed(<<c, m>>)
    PROVE  \E v \in Verdicts : Fated(c, m, v)
<1>1. /\ <<c, m>> \in late /\ late' = late \ {<<c, m>>}
      /\ UNCHANGED <<world, call, reply, approval, told, gaveUp, away, unheard>>
  BY DEF LateServed
<1>2. ran' = ran \/ ran' = ran \cup {<<c, m>>}  BY DEF LateServed, OnDevice, device
<1>3. Touched(<<c, m>>) /\ c \in gaveUp  BY <1>1 DEF Touched, CallRight, Asking
<1> DEFINE v == approval[<<c, m>>]
<1>4. /\ v \in Verdicts /\ approval' = [approval EXCEPT ![<<c, m>>] = v]
  <2>1. approval \in [Rs -> Verdicts] /\ <<c, m>> \in Rs  BY DEF CallTypes, Rs
  <2> QED  BY <1>1, <2>1
<1>5. v = "served" => Tool(c).kind = "upload"  BY DEF CallRight, Asking
<1>6. v \in {"served", "executed"} => <<c, m>> \in ran'  BY <1>2 DEF CallRight, Asking
<1> HIDE DEF v
<1>7. v = approval[<<c, m>>]  BY DEF v
<1> QED  BY <1>1, <1>2, <1>3, <1>4, <1>5, <1>6, <1>7 DEF Fated

\* An upload is over, or the agent restarts: who asked for it has the answer.
LEMMA OverRight ==
    ASSUME CallTypes, \A d \in Calls : CallRight(d), NEW c \in Calls,
           UNCHANGED <<world, call, told, late, gaveUp, ran, away, unheard>>,
           reply'[c] = reply[c] \/ (reply[c] = "served" /\ reply'[c] \in {"done", "failed"}),
           \A m \in 1 .. 4 : \/ approval'[<<c, m>>] = approval[<<c, m>>]
                             \/ approval[<<c, m>>] = "served" /\ approval'[<<c, m>>] \in {"executed", "failed"}
    PROVE  CallRight(c)'
<1>1. CallRight(c) /\ Now(c) = <<c, call[c].n>> /\ call[c].n \in 1 .. 4  BY NowIs
<1>2. Tool(c)' = Tool(c) /\ Reqs(c)' = Reqs(c) /\ (Asks(c)' <=> Asks(c)) /\ Now(c)' = Now(c) /\ (Stray(c)' <=> Stray(c))
      /\ First(Tool(c))' = First(Tool(c)) /\ (IsInput(Tool(c))' <=> IsInput(Tool(c)))
  BY DEF Tool, Reqs, Asks, Requests, First, IsInput, Now, Stray
<1>3. \/ approval'[Now(c)] = approval[Now(c)]
      \/ approval[Now(c)] = "served" /\ approval'[Now(c)] \in {"executed", "failed"}
  BY <1>1
<1>4. CallShape(c)'  BY <1>1, <1>2 DEF CallRight, CallShape
<1>5. Asking(c)'
  BY <1>1, <1>2 DEF CallRight, Asking, Touched, Undecided
<1>6. Answered(c)'
  BY <1>1, <1>2, <1>3 DEF CallRight, Answered, Unanswered
<1>7. Planned(c)'  BY <1>1, <1>2 DEF CallRight, Planned
<1>w. \A r : Went(r)' <=> Went(r)  BY DEF Went, Tool, IsInput
<1>8. Ordered(c)'  BY <1>1, <1>2, <1>w DEF CallRight, Ordered
<1>9. ToldRight(c)'  BY <1>1, <1>2, <1>3 DEF CallRight, ToldRight
<1> QED  BY <1>4, <1>5, <1>6, <1>7, <1>8, <1>9 DEF CallRight

LEMMA OversAre ==
    ASSUME CallTypes, (\E u \in Uploads : Written(u)) \/ Restart, NEW d \in Calls
    PROVE  /\ reply'[d] = reply[d] \/ (reply[d] = "served" /\ reply'[d] \in {"done", "failed"})
           /\ \A m \in 1 .. 4 : \/ approval'[<<d, m>>] = approval[<<d, m>>]
                                \/ approval[<<d, m>>] = "served" /\ approval'[<<d, m>>] \in {"executed", "failed"}
<1>1. /\ reply \in [Calls -> Replies] /\ approval \in [Rs -> Verdicts]
  BY DEF CallTypes
<1>2. \A m \in 1 .. 4 : <<d, m>> \in Rs  BY DEF Rs
<1>3. ASSUME NEW u \in Uploads, Written(u)
      PROVE  /\ reply'[d] = reply[d] \/ (reply[d] = "served" /\ reply'[d] \in {"done", "failed"})
             /\ \A m \in 1 .. 4 : \/ approval'[<<d, m>>] = approval[<<d, m>>]
                                  \/ approval[<<d, m>>] = "served" /\ approval'[<<d, m>>] \in {"executed", "failed"}
  <2>1. u[1] \in Calls  BY OperatorConstantsOK
  <2> DEFINE c == u[1]
  <2>2. PICK how \in {"ok", "failed"} :
            /\ reply' = IF u[2] = "asked" /\ reply[c] = "served"
                        THEN [reply EXCEPT ![c] = IF how = "ok" THEN "done" ELSE "failed"] ELSE reply
            /\ approval' = IF u[2] = "asked" /\ approval[<<c, 1>>] = "served"
                           THEN [approval EXCEPT ![<<c, 1>>] = IF how = "ok" THEN "executed" ELSE "failed"]
                           ELSE approval
    BY <1>3 DEF Written
  <2>3. reply'[d] = reply[d] \/ (reply[d] = "served" /\ reply'[d] \in {"done", "failed"})
    BY <1>1, <2>1, <2>2
  <2>4. ASSUME NEW m \in 1 .. 4
        PROVE  \/ approval'[<<d, m>>] = approval[<<d, m>>]
               \/ approval[<<d, m>>] = "served" /\ approval'[<<d, m>>] \in {"executed", "failed"}
    <3> HIDE DEF c
    <3> QED  BY <1>1, <1>2, <2>2
  <2> QED  BY <2>3, <2>4
<1>4. CASE Restart
  BY <1>1, <1>2, <1>4 DEF Restart
<1> QED  BY <1>3, <1>4

\* The request at hand is given up on; it may still arrive.
LEMMA GivesUpRight ==
    ASSUME CallTypes, \A d \in Calls : CallRight(d), NEW c \in Calls, Asked(c),
           UNCHANGED <<world, call, reply, approval, told, ran, away, unheard>>,
           late' = late \cup {Now(c)}, gaveUp' = gaveUp \cup {c}
    PROVE  \A d \in Calls : CallRight(d)'
<1>1. CallRight(c) /\ Now(c) = <<c, call[c].n>> /\ call[c].n \in 1 .. 4  BY NowIs
<1>2. ASSUME NEW d \in Calls, d # c PROVE CallRight(d)'
  <2>1. Kept(d)  BY <1>1, <1>2 DEF Kept, SameCall, Fates
  <2> QED  BY <2>1, KeptRight
<1>3. Tool(c)' = Tool(c) /\ Reqs(c)' = Reqs(c) /\ (Asks(c)' <=> Asks(c)) /\ Now(c)' = Now(c) /\ Stray(c)'
      /\ First(Tool(c))' = First(Tool(c)) /\ (IsInput(Tool(c))' <=> IsInput(Tool(c)))
  BY DEF Tool, Reqs, Asks, Requests, First, IsInput, Now, Stray
<1>4. Asks(c)  BY <1>1 DEF CallRight, CallShape, Asked
<1>5. CallShape(c)'  BY <1>1, <1>3 DEF CallRight, CallShape
<1>6. Asking(c)'  BY <1>1, <1>3, <1>4 DEF CallRight, Asking, Touched, Asked
<1>7. Answered(c)'  BY <1>1, <1>3 DEF CallRight, Answered, Unanswered
<1>8. Planned(c)'  BY <1>1, <1>3 DEF CallRight, Planned
<1>w. \A r : Went(r)' <=> Went(r)  BY DEF Went, Tool, IsInput
<1>9. Ordered(c)'  BY <1>1, <1>3, <1>w DEF CallRight, Ordered
<1>10. ToldRight(c)'  BY <1>1, <1>3 DEF CallRight, ToldRight
<1>11. CallRight(c)'  BY <1>5, <1>6, <1>7, <1>8, <1>9, <1>10 DEF CallRight
<1> QED  BY <1>2, <1>11

LEMMA BreaksRight ==
    ASSUME CallTypes, \A d \in Calls : CallRight(d), NEW c \in Calls, Breaks(c)
    PROVE  \A d \in Calls : CallRight(d)'
<1>1. call[c].pc = "sent" /\ Stop(c, "error") /\ UNCHANGED <<world, approval, ran, away, unheard>>
  BY DEF Breaks, device
<1>2. MayTell(c, "error")  BY DEF MayTell, Outcomes
<1>3. CASE UNCHANGED <<late, gaveUp>>
  <2>1. HubSame  BY <1>1, <1>3 DEF HubSame
  <2> QED  BY <1>1, <1>2, <2>1, StopAllRight
<1>4. CASE late' = late \cup {Now(c)} /\ gaveUp' = gaveUp \cup {c}
  <2>1. CallRight(c) /\ Now(c) = <<c, call[c].n>> /\ call[c].n \in 1 .. 4  BY NowIs
  <2>2. /\ call'[c].pc = "done" /\ call'[c].n = call[c].n /\ reply'[c] = "none" /\ told'[c] = Told(c, "error")
        /\ OthersSame(c)
    BY <1>1, StopDoes
  <2>3. ASSUME NEW d \in Calls, d # c PROVE CallRight(d)'
    <3>1. Kept(d)  BY <1>1, <1>4, <2>1, <2>2, <2>3 DEF Kept, OthersSame, Fates
    <3> QED  BY <3>1, KeptRight
  <2>4. Tool(c)' = Tool(c) /\ Reqs(c)' = Reqs(c) /\ (Asks(c)' <=> Asks(c)) /\ Now(c)' = Now(c)
        /\ First(Tool(c))' = First(Tool(c)) /\ (IsInput(Tool(c))' <=> IsInput(Tool(c)))
    BY <1>1, <2>2 DEF Tool, Reqs, Asks, Requests, First, IsInput, Now
  <2>5. told'[c] \in {"error", "exit 1"}  BY <2>2 DEF Told, ExitCode
  <2>6. Asks(c)  BY <1>1, <2>1 DEF CallRight, CallShape
  <2>7. CallShape(c)'  BY <2>1, <2>2, <2>4, <2>5 DEF CallRight, CallShape
  <2>8. Asking(c)'  BY <1>1, <1>4, <2>1, <2>2, <2>4, <2>6 DEF CallRight, Asking, Touched
  <2>9. Answered(c)'  BY <2>2, <2>4 DEF Answered, Unanswered
  <2>10. Planned(c)'  BY <2>2, <2>4, <2>5 DEF Planned
  <2>w. \A r : Went(r)' <=> Went(r)  BY <1>1 DEF Went, Tool, IsInput
  <2>11. Ordered(c)'
    BY <1>1, <2>1, <2>2, <2>4, <2>5, <2>w DEF CallRight, Ordered
  <2>12. ToldRight(c)'  BY <2>4, <2>5 DEF ToldRight, ToldToWait
  <2>13. CallRight(c)'  BY <2>7, <2>8, <2>9, <2>10, <2>11, <2>12 DEF CallRight
  <2> QED  BY <2>3, <2>13
<1> QED  BY <1>3, <1>4 DEF Breaks

LEMMA CallsRightStep ==
    ASSUME CallTypes, \A d \in Calls : CallRight(d), Next
    PROVE  \A d \in Calls : CallRight(d)'
<1>1. CASE OfAgent
  <2>1. ASSUME Inject \/ (\E j \in Fetches : Pull(j)) \/ (\E u \in Uploads : Write(u))
        PROVE \A d \in Calls : CallRight(d)'
    <3>1. UNCHANGED <<world, call, reply, told, approval, late, gaveUp, ran, away, unheard>>
      BY <2>1 DEF Inject, Pull, Write
    <3> SUFFICES ASSUME NEW d \in Calls PROVE CallRight(d)'
      OBVIOUS
    <3>2. Kept(d)  BY <3>1 DEF Kept, SameCall, Fates
    <3> QED  BY <3>2, KeptRight
  <2>2. ASSUME NEW u \in Uploads, Written(u) PROVE \A d \in Calls : CallRight(d)'
    <3>1. UNCHANGED <<world, call, told, late, gaveUp, ran, away, unheard>>  BY <2>2 DEF Written
    <3> QED  BY <2>2, <3>1, OversAre, OverRight
  <2> QED  BY <1>1, <2>1, <2>2 DEF OfAgent
<1>2. ASSUME NEW r \in DOMAIN approval, Decide(r) \/ Replay(r) \/ LateServed(r)
      PROVE  \A d \in Calls : CallRight(d)'
  <2>1. r \in Rs  BY DEF CallTypes
  <2>2. PICK c \in Calls, m \in 1 .. 4 : r = <<c, m>>  BY <2>1 DEF Rs
  <2>3. Decide(<<c, m>>) \/ Replay(<<c, m>>) \/ LateServed(<<c, m>>)  BY <1>2, <2>2
  <2> QED  BY <2>3, DecideFates, ReplayFates, LateFates, FateRight
<1>3. ASSUME NEW c \in Calls, LanGivesUp(c) PROVE \A d \in Calls : CallRight(d)'
  BY <1>3, GivesUpRight DEF LanGivesUp, device
<1>4. CASE OfOthers
  <2>1. ASSUME Restart PROVE \A d \in Calls : CallRight(d)'
    <3>1. UNCHANGED <<world, call, told, late, gaveUp, ran, away, unheard>>  BY <2>1 DEF Restart
    <3> QED  BY <2>1, <3>1, OversAre, OverRight
  <2> QED  BY <1>2, <1>3, <1>4, <2>1, BreaksRight DEF OfOthers
<1>5. ASSUME NEW c \in Calls, Resolve(c) \/ Lookup(c) \/ OfTool(c) \/ OfHub(c)
      PROVE  \A d \in Calls : CallRight(d)'
  BY <1>5, ResolveRight, EndsRight, AskRight, TakeRight, SettleRight, PollRight, ServeAnswers, VerdictAnswers,
     AnswerRight
     DEF OfTool, OfHub
<1> QED  BY <1>1, <1>4, <1>5 DEF Next

-----------------------------------------------------------------------------
\* The types.
LEMMA StopTypes ==
    ASSUME CallTypes, NEW c \in Calls, NEW what \in Outcomes, Stop(c, what)
    PROVE  call' \in [Calls -> CallType] /\ reply' \in [Calls -> Replies] /\ told' \in [Calls -> Tellings]
<1>1. call \in [Calls -> CallType] /\ reply \in [Calls -> Replies] /\ told \in [Calls -> Tellings]
  BY DEF CallTypes
<1>2. call' \in [Calls -> CallType]  BY <1>1 DEF Stop, CallType
<1>3. reply' \in [Calls -> Replies]  BY <1>1 DEF Stop, Replies
<1>4. told' \in [Calls -> Tellings]
  <2> DEFINE t == Told(c, what)
  <2>1. t \in Tellings  BY DEF Told, ExitCode, Outcomes, Tellings
  <2>2. told' = [told EXCEPT ![c] = t]  BY DEF Stop, Told
  <2> HIDE DEF t
  <2> QED  BY <1>1, <2>1, <2>2
<1> QED  BY <1>2, <1>3, <1>4

LEMMA StillTypes ==
    ASSUME CallTypes, Still,
           call' \in [Calls -> CallType] /\ reply' \in [Calls -> Replies] /\ told' \in [Calls -> Tellings]
    PROVE  CallTypes'
BY DEF CallTypes, Still, device

LEMMA GoTypes ==
    ASSUME CallTypes, NEW c \in Calls, NEW what \in Outcomes, Go(c, what)
    PROVE  call' \in [Calls -> CallType] /\ reply' \in [Calls -> Replies] /\ told' \in [Calls -> Tellings]
<1>1. call \in [Calls -> CallType] /\ reply \in [Calls -> Replies] /\ told \in [Calls -> Tellings] /\ world \in Worlds
  BY DEF CallTypes
<1>2. CASE call[c].n < Len(Reqs(c)) /\ call' = [call EXCEPT ![c].pc = "ready", ![c].n = @ + 1]
           /\ reply' = [reply EXCEPT ![c] = "none"] /\ UNCHANGED told
  <2> DEFINE n == call[c].n + 1
  <2>1. n \in 1 .. 4
    <3> DEFINE k == call[c].n
               len == Len(Reqs(c))
    <3>1. len \in 1 .. 4 /\ k \in 1 .. 4 /\ k < len  BY <1>1, <1>2, ReqsAre DEF CallType
    <3> HIDE DEF k, len
    <3>2. k + 1 \in 1 .. 4  BY <3>1
    <3> QED  BY <3>2 DEF k
  <2>2. call' = [call EXCEPT ![c].pc = "ready", ![c].n = n]  BY <1>1, <1>2 DEF CallType
  <2> HIDE DEF n
  <2>3. call' \in [Calls -> CallType]  BY <1>1, <2>1, <2>2 DEF CallType
  <2>4. reply' \in [Calls -> Replies]  BY <1>1, <1>2 DEF Replies
  <2> QED  BY <1>1, <1>2, <2>3, <2>4
<1>3. CASE call' = [call EXCEPT ![c].pc = "poll"] /\ reply' = [reply EXCEPT ![c] = "none"] /\ UNCHANGED told
  <2>1. call' \in [Calls -> CallType]  BY <1>1, <1>3 DEF CallType
  <2>2. reply' \in [Calls -> Replies]  BY <1>1, <1>3 DEF Replies
  <2> QED  BY <1>1, <1>3, <2>1, <2>2
<1>4. CASE Stop(c, what)
  BY <1>4, StopTypes
<1> QED  BY <1>2, <1>3, <1>4 DEF Go, Reqs

LEMMA ToolTypes ==
    ASSUME CallTypes, NEW c \in Calls, Resolve(c) \/ Lookup(c) \/ OfTool(c)
    PROVE  CallTypes'
<1>1. /\ call \in [Calls -> CallType] /\ reply \in [Calls -> Replies] /\ told \in [Calls -> Tellings]
      /\ world \in Worlds /\ approval \in [Rs -> Verdicts]
  BY DEF CallTypes
<1>2. Still  BY DEF Resolve, Lookup, OfTool, Ask, Take, Settle, WaitEnds, Poll
<1>o. {"done", "failed", "error", "pending", "approved", "denied", "expired", "dryrun", "refused", "timeout"} \subseteq Outcomes
  BY DEF Outcomes
<1> DEFINE Typed == call' \in [Calls -> CallType] /\ reply' \in [Calls -> Replies] /\ told' \in [Calls -> Tellings]
<1>3. CASE Resolve(c)
  <2>1. CASE Stop(c, "error")  BY <2>1, <1>o, <1>2, StopTypes, StillTypes
  <2>2. CASE call' = [call EXCEPT ![c].pc = "ready", ![c].n = First(Tool(c))] /\ UNCHANGED <<told, reply>>
    <3> DEFINE n == First(Tool(c))
    <3>1. n \in 1 .. 4
      <4> DEFINE len == Len(Reqs(c))
      <4>1. n \in 1 .. len /\ len \in 1 .. 4  BY <1>1, ReqsAre
      <4> HIDE DEF n, len
      <4> QED  BY <4>1
    <3> HIDE DEF n
    <3>2. call' = [call EXCEPT ![c].pc = "ready", ![c].n = n]  BY <2>2 DEF n
    <3>3. call' \in [Calls -> CallType]  BY <1>1, <3>1, <3>2 DEF CallType
    <3>4. Typed  BY <1>1, <2>2, <3>3
    <3> QED  BY <1>2, <3>4, StillTypes
  <2> QED  BY <1>3, <2>1, <2>2 DEF Resolve
<1>4. CASE Ask(c)
  <2>1. Typed  BY <1>1, <1>4 DEF Ask, CallType
  <2> QED  BY <1>2, <2>1, StillTypes
<1>5. CASE Take(c)
  <2>1. CASE Go(c, "done")  BY <1>2, <1>o, <2>1, GoTypes, StillTypes
  <2>2. ASSUME NEW what \in Outcomes, Stop(c, what) PROVE CallTypes'
    BY <1>2, <2>2, StopTypes, StillTypes
  <2>3. CASE call' = [call EXCEPT ![c].pc = "held"] /\ UNCHANGED <<told, reply>>
    <3>1. Typed  BY <1>1, <2>3 DEF CallType
    <3> QED  BY <1>2, <3>1, StillTypes
  <2> QED  BY <1>o, <1>5, <2>1, <2>2, <2>3 DEF Take
<1>6. CASE Settle(c) \/ WaitEnds(c) \/ Lookup(c)
  <2>1. CASE Go(c, "approved")  BY <1>2, <1>o, <2>1, GoTypes, StillTypes
  <2>2. CASE \E what \in Outcomes : Stop(c, what)
    BY <1>2, <2>2, StopTypes, StillTypes
  <2>3. \A v : FromView(v) \in {"executed", "failed", "denied", "expired", "none"}  BY DEF FromView
  <2>4. CASE Lookup(c)
    <3> DEFINE s == FromView(approval[Now(Tool(c).of)])
               what == IF s \in {"executed", "failed"} THEN "approved" ELSE IF s = "none" THEN "pending" ELSE s
    <3>1. what \in Outcomes  BY <2>3, <1>o
    <3>2. Stop(c, what)  BY <2>4 DEF Lookup
    <3> HIDE DEF what
    <3> QED  BY <2>2, <3>1, <3>2
  <2>5. CASE Settle(c)
    <3> DEFINE s == FromView(approval[Now(c)])
    <3>1. CASE s \in {"failed", "denied", "expired"} /\ Stop(c, s)
      <4>1. s \in Outcomes  BY <3>1, <1>o
      <4> QED  BY <2>2, <3>1, <4>1
    <3> QED  BY <2>1, <2>5, <3>1 DEF Settle
  <2>6. CASE WaitEnds(c)  BY <2>2, <2>6, <1>o DEF WaitEnds
  <2> QED  BY <1>6, <2>4, <2>5, <2>6
<1>7. CASE Poll(c)
  <2>1. ASSUME NEW what \in {"done", "transfer failed", "timeout"}, Stop(c, what) PROVE CallTypes'
    <3>1. what \in Outcomes  BY DEF Outcomes
    <3> QED  BY <1>2, <2>1, <3>1, StopTypes, StillTypes
  <2>2. CASE call[c].polls + 1 < MaxPolls /\ Polled(c, call[c].polls + 1)
    <3> DEFINE k == call[c].polls + 1
    <3>1. k \in 0 .. MaxPolls
      <4>1. call[c].polls \in 0 .. MaxPolls /\ MaxPolls \in Nat  BY <1>1, OperatorConstantsOK DEF CallType
      <4> QED  BY <2>2, <4>1
    <3> HIDE DEF k
    <3>2. call' = [call EXCEPT ![c].polls = k] /\ UNCHANGED <<told, reply>>  BY <2>2 DEF Polled, k
    <3>3. Typed  BY <1>1, <3>1, <3>2 DEF CallType
    <3> QED  BY <1>2, <3>3, StillTypes
  <2> QED  BY <1>7, <2>1, <2>2 DEF Poll, MorePolls
<1> QED  BY <1>3, <1>4, <1>5, <1>6, <1>7 DEF OfTool

LEMMA CallTypesStep ==
    ASSUME CallTypes, \A d \in Calls : CallRight(d), Next
    PROVE  CallTypes'
<1>1. /\ call \in [Calls -> CallType] /\ reply \in [Calls -> Replies] /\ told \in [Calls -> Tellings]
      /\ world \in Worlds /\ approval \in [Rs -> Verdicts] /\ ran \subseteq Rs /\ late \subseteq Rs
      /\ queue \in Seq({"down", "up"}) /\ keys \subseteq {"key"} /\ left \in [Bounds -> Nat] /\ gaveUp \subseteq Calls
      /\ away \subseteq Rs /\ unheard \subseteq Rs
  BY DEF CallTypes
<1>b. \A b \in Bounds : left[b] > 0 => [left EXCEPT ![b] = @ - 1] \in [Bounds -> Nat]
  BY <1>1
<1>n. \A c \in Calls : Now(c) \in Rs  BY NowIs
<1>2. ASSUME Inject PROVE CallTypes'
  <2>1. queue' \in Seq({"down", "up"})
    <3>1. queue # <<>> /\ queue' = Tail(queue)  BY <1>2 DEF Inject
    <3> QED  BY <1>1, <3>1
  <2>2. keys' \subseteq {"key"}  BY <1>1, <1>2 DEF Inject, MapKey
  <2> QED  BY <1>1, <1>2, <2>1, <2>2 DEF CallTypes, Inject
<1>3. ASSUME (\E j \in Fetches : Pull(j)) \/ (\E u \in Uploads : Write(u)) PROVE CallTypes'
  BY <1>1, <1>3 DEF CallTypes, Pull, Write
<1>4. ASSUME NEW u \in Uploads, Written(u) PROVE CallTypes'
  <2>1. /\ UNCHANGED <<world, call, told, late, left, gaveUp, away, unheard, queue, keys, ran>>  BY <1>4 DEF Written
  <2>2. reply' \in [Calls -> Replies]
    <3>1. {"done", "failed"} \subseteq Replies  BY DEF Replies
    <3> QED  BY <1>1, <1>4, <3>1 DEF Written
  <2>3. approval' \in [Rs -> Verdicts]
    <3>1. {"executed", "failed"} \subseteq Verdicts  BY DEF Verdicts
    <3> QED  BY <1>1, <1>4, <3>1 DEF Written
  <2> QED  BY <1>1, <2>1, <2>2, <2>3 DEF CallTypes
<1>5. ASSUME Restart PROVE CallTypes'
  <2>1. UNCHANGED <<world, call, told, late, gaveUp, keys, ran, away, unheard>> /\ queue' = <<>>  BY <1>5 DEF Restart
  <2>2. reply' \in [Calls -> Replies]
    <3>1. "failed" \in Replies  BY DEF Replies
    <3> QED  BY <1>1, <1>5, <3>1 DEF Restart
  <2>3. approval' \in [Rs -> Verdicts]
    <3>1. "failed" \in Verdicts  BY DEF Verdicts
    <3> QED  BY <1>1, <1>5, <3>1 DEF Restart
  <2>4. left' \in [Bounds -> Nat]  BY <1>b, <1>5 DEF Restart, Bounds
  <2> QED  BY <1>1, <2>1, <2>2, <2>3, <2>4 DEF CallTypes
<1>6. ASSUME NEW r \in Rs, TurnedAway(r) \/ Unheard(r)
      PROVE  left' \in [Bounds -> Nat] /\ away' \subseteq Rs /\ unheard' \subseteq Rs
  <2>1. left' \in [Bounds -> Nat]  BY <1>1, <1>b, <1>6 DEF TurnedAway, Unheard, Bounds
  <2> QED  BY <1>1, <1>6, <2>1 DEF TurnedAway, Unheard
<1>7. ASSUME NEW c \in Calls, NEW m \in 1 .. 4, m <= Len(Reqs(c)), NEW leg \in {"asked", "late"},
             OnDevice(<<c, m>>, leg)
      PROVE  ran' \subseteq Rs /\ keys' \subseteq {"key"} /\ queue' \in Seq({"down", "up"})
  <2>1. ran' = ran \cup {<<c, m>>} /\ UNCHANGED keys /\ queue' \in Seq({"down", "up"})  BY <1>7, DeviceDoes
  <2>2. <<c, m>> \in Rs  BY DEF Rs
  <2> QED  BY <1>1, <2>1, <2>2
<1>8. ASSUME NEW c \in Calls, Serve(c) PROVE CallTypes'
  <2>1. UNCHANGED <<world, call, approval, told, late, gaveUp>>  BY <1>8 DEF Serve
  <2>2. Now(c) = <<c, call[c].n>> /\ call[c].n \in 1 .. 4 /\ call[c].n <= Len(Reqs(c))  BY NowIs
  <2>3. reply' \in [Calls -> Replies]
    <3>1. {"served", "done", "failed"} \subseteq Replies  BY DEF Replies
    <3> QED  BY <1>1, <1>8, <3>1 DEF Serve, Answer
  <2>4. CASE OnDevice(Now(c), "asked") /\ UNCHANGED <<left, away, unheard>>
    BY <1>1, <1>7, <2>1, <2>2, <2>3, <2>4 DEF CallTypes
  <2>5. CASE TurnedAway(Now(c)) /\ UNCHANGED device
    BY <1>1, <1>6, <1>n, <2>1, <2>3, <2>5 DEF CallTypes, device
  <2>6. CASE OnDevice(Now(c), "asked") /\ Unheard(Now(c))
    <3>1. ran' \subseteq Rs /\ keys' \subseteq {"key"} /\ queue' \in Seq({"down", "up"})  BY <1>7, <2>2, <2>6
    <3> QED  BY <1>1, <1>6, <1>n, <2>1, <2>3, <2>6, <3>1 DEF CallTypes
  <2> QED  BY <1>8, <2>4, <2>5, <2>6 DEF Serve
<1>9. ASSUME NEW c \in Calls, Verdict(c) PROVE CallTypes'
  <2>1. UNCHANGED <<world, call, told, late, left, gaveUp, away, unheard, queue, keys, ran>>  BY <1>9 DEF Verdict, device
  <2>2. reply' \in [Calls -> Replies]
    <3>1. {"dryrun", "pending", "refused"} \subseteq Replies  BY DEF Replies
    <3> QED  BY <1>1, <1>9, <3>1 DEF Verdict, Answer
  <2>3. approval' \in [Rs -> Verdicts]
    <3>1. "pending" \in Verdicts  BY DEF Verdicts
    <3> QED  BY <1>1, <1>9, <3>1 DEF Verdict
  <2> QED  BY <1>1, <2>1, <2>2, <2>3 DEF CallTypes
<1>10. ASSUME NEW r \in Rs, Decide(r) PROVE CallTypes'
  <2>1. UNCHANGED <<world, call, reply, told, late, left, gaveUp, away, unheard, queue, keys, ran>>  BY <1>10 DEF Decide, device
  <2>2. approval' \in [Rs -> Verdicts]
    <3>1. {"running", "denied", "expired"} \subseteq Verdicts  BY DEF Verdicts
    <3> QED  BY <1>1, <1>10, <3>1 DEF Decide
  <2> QED  BY <1>1, <2>1, <2>2 DEF CallTypes
<1>11. ASSUME NEW c \in Calls, NEW m \in 1 .. 4, Touched(<<c, m>>) PROVE m <= Len(Reqs(c))
  <2>1. m <= call[c].n  BY <1>11 DEF CallRight, Asking
  <2>2. call[c].n \in 1 .. 4 /\ call[c].n <= Len(Reqs(c)) /\ Len(Reqs(c)) \in 1 .. 4  BY <1>1, NowIs, ReqsAre
  <2> QED  BY <2>1, <2>2
<1>12. ASSUME NEW c \in Calls, NEW m \in 1 .. 4, Replay(<<c, m>>) PROVE CallTypes'
  <2>1. UNCHANGED <<world, call, reply, told, late, gaveUp>> /\ approval[<<c, m>>] = "running"  BY <1>12 DEF Replay
  <2>2. m <= Len(Reqs(c))  BY <1>11, <2>1 DEF Touched
  <2>3. approval' \in [Rs -> Verdicts]
    <3>1. {"served", "executed", "failed"} \subseteq Verdicts  BY DEF Verdicts
    <3> QED  BY <1>1, <1>12, <3>1 DEF Replay
  <2>r. <<c, m>> \in Rs  BY DEF Rs
  <2>4. CASE OnDevice(<<c, m>>, "asked") /\ UNCHANGED <<left, away, unheard>>
    BY <1>1, <1>7, <2>1, <2>2, <2>3, <2>4 DEF CallTypes
  <2>5. CASE TurnedAway(<<c, m>>) /\ UNCHANGED device
    BY <1>1, <1>6, <2>1, <2>3, <2>5, <2>r DEF CallTypes, device
  <2>6. CASE OnDevice(<<c, m>>, "asked") /\ Unheard(<<c, m>>)
    <3>1. ran' \subseteq Rs /\ keys' \subseteq {"key"} /\ queue' \in Seq({"down", "up"})  BY <1>7, <2>2, <2>6
    <3> QED  BY <1>1, <1>6, <2>1, <2>3, <2>6, <2>r, <3>1 DEF CallTypes
  <2> QED  BY <1>12, <2>4, <2>5, <2>6 DEF Replay
<1>13. ASSUME NEW c \in Calls, NEW m \in 1 .. 4, LateServed(<<c, m>>) PROVE CallTypes'
  <2>1. UNCHANGED <<world, call, reply, approval, told, left, gaveUp, away, unheard>> /\ late' \subseteq Rs
    BY <1>1, <1>13 DEF LateServed
  <2>2. m <= Len(Reqs(c))  BY <1>11, <1>13 DEF Touched, LateServed
  <2>4. CASE OnDevice(<<c, m>>, "late")
    BY <1>1, <1>7, <2>1, <2>2, <2>4 DEF CallTypes
  <2>5. CASE UNCHANGED device
    BY <1>1, <2>1, <2>5 DEF CallTypes, device
  <2> QED  BY <1>13, <2>4, <2>5 DEF LateServed
<1>14. ASSUME NEW c \in Calls, Breaks(c) PROVE CallTypes'
  <2>1. UNCHANGED <<world, approval, queue, keys, ran, away, unheard>>  BY <1>14 DEF Breaks, device
  <2>2. left' \in [Bounds -> Nat]  BY <1>b, <1>14 DEF Breaks, Bounds
  <2>3. late' \subseteq Rs /\ gaveUp' \subseteq Calls  BY <1>1, <1>n, <1>14 DEF Breaks
  <2>4. Stop(c, "error") /\ "error" \in Outcomes  BY <1>14 DEF Breaks, Outcomes
  <2>5. call' \in [Calls -> CallType] /\ reply' \in [Calls -> Replies] /\ told' \in [Calls -> Tellings]
    BY <2>4, StopTypes
  <2> QED  BY <1>1, <2>1, <2>2, <2>3, <2>5 DEF CallTypes
<1>15. ASSUME NEW c \in Calls, LanGivesUp(c) PROVE CallTypes'
  <2>1. UNCHANGED <<world, call, reply, approval, told, queue, keys, ran, away, unheard>>  BY <1>15 DEF LanGivesUp, device
  <2>2. left' \in [Bounds -> Nat]  BY <1>b, <1>15 DEF LanGivesUp, Bounds
  <2>3. late' \subseteq Rs /\ gaveUp' \subseteq Calls  BY <1>1, <1>n, <1>15 DEF LanGivesUp
  <2> QED  BY <1>1, <2>1, <2>2, <2>3 DEF CallTypes
<1>16. ASSUME NEW r \in DOMAIN approval, Decide(r) \/ Replay(r) \/ LateServed(r) PROVE CallTypes'
  <2>1. r \in Rs  BY <1>1
  <2>2. PICK c \in Calls, m \in 1 .. 4 : r = <<c, m>>  BY <2>1 DEF Rs
  <2>3. Decide(r) \/ Replay(<<c, m>>) \/ LateServed(<<c, m>>)  BY <1>16, <2>2
  <2> QED  BY <2>1, <2>3, <1>10, <1>12, <1>13
<1>17. CASE OfAgent  BY <1>2, <1>3, <1>4, <1>17 DEF OfAgent
<1>18. CASE OfOthers  BY <1>5, <1>14, <1>15, <1>16, <1>18 DEF OfOthers
<1>19. ASSUME NEW c \in Calls, Resolve(c) \/ Lookup(c) \/ OfTool(c) \/ OfHub(c) PROVE CallTypes'
  BY <1>8, <1>9, <1>19, ToolTypes DEF OfHub
<1> QED  BY <1>17, <1>18, <1>19 DEF Next
-----------------------------------------------------------------------------
\* A step of the files that starts no pull; what it leaves of a call's pull.
FilesOwn ==
    \/ \E j \in Fetches : FetchStep(j)
    \/ \E u \in Uploads : UpWrite(u) \/ (\E how \in {"ok", "failed"} : UpEnds(u, how))
                          \/ \E f \in FileNames : UpOpen(u, f)
    \/ FilesRestart
Starts(c) == Tool(c).kind = "push" /\ FetchFile(Pulled(c), Tool(c).file) /\ <<c, 2>> \in ran'
PullKept(c) ==
    /\ status'[Pulled(c)] = "unknown" <=> status[Pulled(c)] = "unknown"
    /\ carries'[Pulled(c)] = carries[Pulled(c)]
    /\ landed[Pulled(c)] # <<>> => landed'[Pulled(c)] # <<>>
    /\ PullOver(c) => PullOver(c)'

LEMMA Legs == \A c \in Calls : /\ Pulled(c) \in Fetches
                               /\ \A leg \in {"asked", "late"} : <<c, leg>> \in Uploads
BY OperatorConstantsOK DEF Pulled

\* A request served starts the pull of its push, opens its upload, or leaves the files.
LEMMA ServedFiles ==
    ASSUME CallTypes, NEW c \in Calls, NEW m \in 1 .. 4, m <= Len(Reqs(c)), NEW leg \in {"asked", "late"},
           OnDevice(<<c, m>>, leg)
    PROVE  UNCHANGED files \/ FilesOwn \/ Starts(c)
<1>1. Tool(c).file \in FileNames /\ Pulled(c) \in Fetches /\ <<c, leg>> \in Uploads
  BY ToolIs, Legs DEF CallTypes
<1>2. ran' = ran \cup {<<c, m>>}  BY DeviceDoes
<1>3. CASE UNCHANGED files  BY <1>3
<1>4. CASE Tool(c).kind = "push" /\ m = 2 /\ FetchFile(Pulled(c), Tool(c).file)  BY <1>2, <1>4 DEF Starts
<1>5. CASE UpOpen(<<c, leg>>, Tool(c).file)  BY <1>1, <1>5 DEF FilesOwn
<1> QED  BY <1>3, <1>4, <1>5, DeviceDoes

LEMMA FilesOf ==
    ASSUME CallTypes, \A d \in Calls : CallRight(d), Next
    PROVE  UNCHANGED files \/ FilesOwn \/ \E c \in Calls : Starts(c)
<1>1. ASSUME NEW c \in Calls, NEW m \in 1 .. 4, Touched(<<c, m>>) PROVE m <= Len(Reqs(c))
  <2>1. m <= call[c].n  BY <1>1 DEF CallRight, Asking
  <2>2. call[c].n \in 1 .. 4 /\ call[c].n <= Len(Reqs(c)) /\ Len(Reqs(c)) \in 1 .. 4
    BY NowIs, ReqsAre DEF CallTypes
  <2> QED  BY <2>1, <2>2
<1>2. CASE OfAgent
  <2>1. ASSUME NEW u \in Uploads, Write(u) \/ Written(u) PROVE FilesOwn
    BY <2>1 DEF Write, Written, FilesOwn
  <2>2. ASSUME NEW j \in Fetches, Pull(j) PROVE FilesOwn
    BY <2>2 DEF Pull, FilesOwn
  <2>3. CASE Inject  BY <2>3 DEF Inject
  <2> QED  BY <1>2, <2>1, <2>2, <2>3 DEF OfAgent
<1>3. ASSUME NEW r \in DOMAIN approval, Decide(r) \/ Replay(r) \/ LateServed(r)
      PROVE  UNCHANGED files \/ FilesOwn \/ \E c \in Calls : Starts(c)
  <2>1. r \in Rs  BY DEF CallTypes
  <2>2. PICK c \in Calls, m \in 1 .. 4 : r = <<c, m>>  BY <2>1 DEF Rs
  <2>3. CASE UNCHANGED files  BY <2>3
  <2>4. CASE Replay(<<c, m>>) /\ OnDevice(<<c, m>>, "asked")
    <3>1. m <= Len(Reqs(c))  BY <1>1, <2>4 DEF Replay, Touched
    <3> QED  BY <2>4, <3>1, ServedFiles
  <2>5. CASE LateServed(<<c, m>>) /\ OnDevice(<<c, m>>, "late")
    <3>1. m <= Len(Reqs(c))  BY <1>1, <2>5 DEF LateServed, Touched
    <3> QED  BY <2>5, <3>1, ServedFiles
  <2> QED  BY <1>3, <2>2, <2>3, <2>4, <2>5 DEF Decide, Replay, LateServed, device
<1>4. CASE OfOthers
  <2>1. CASE Restart  BY <2>1 DEF Restart, FilesOwn
  <2>2. ASSUME NEW c \in Calls, Breaks(c) \/ LanGivesUp(c) PROVE UNCHANGED files
    BY <2>2 DEF Breaks, LanGivesUp, device
  <2> QED  BY <1>3, <1>4, <2>1, <2>2 DEF OfOthers
<1>5. ASSUME NEW c \in Calls, Resolve(c) \/ Lookup(c) \/ OfTool(c) \/ Verdict(c) PROVE UNCHANGED files
  BY <1>5 DEF Resolve, Lookup, OfTool, Verdict, Ask, Take, Settle, WaitEnds, Poll, Still, device
<1>6. ASSUME NEW c \in Calls, Serve(c) PROVE UNCHANGED files \/ FilesOwn \/ \E d \in Calls : Starts(d)
  <2>1. Now(c) = <<c, call[c].n>> /\ call[c].n \in 1 .. 4 /\ call[c].n <= Len(Reqs(c))  BY NowIs
  <2>2. CASE OnDevice(Now(c), "asked")  BY <2>1, <2>2, ServedFiles
  <2> QED  BY <1>6, <2>2 DEF Serve, device
<1> QED  BY <1>2, <1>4, <1>5, <1>6 DEF Next, OfHub

LEMMA OwnIsNext == FilesOwn => FilesNext
BY DEF FilesOwn, FilesNext

LEMMA StartIsNext == ASSUME CallTypes, NEW c \in Calls, Starts(c) PROVE FilesNext
BY ToolIs, Legs DEF CallTypes, Starts, FilesNext

LEMMA PullsKept ==
    ASSUME FilesShape, LandInv, FilesOwn, NEW c \in Calls
    PROVE  PullKept(c)
<1> DEFINE p == Pulled(c)
<1>1. p \in Fetches  BY Legs
<1>t. /\ fetch \in [Fetches -> FetchType] /\ landed \in [Fetches -> Seq(Seq(Blocks))]
      /\ status \in [Fetches -> {"unknown", "fetching", "ok", "failed", "lost"}]
      /\ carries \in [Fetches \cup Uploads -> FileNames \cup {"none"}]
  BY FilesTypes DEF FilesShape, FilesTypeOK
<1>w. \A u \in Uploads : p # u  BY <1>1, WritersApart
<1>l. fetch[p].pc # "none" => status[p] = "fetching"  BY <1>1 DEF LandInv, Landing
<1> HIDE DEF p
<1> SUFFICES /\ status'[p] = "unknown" <=> status[p] = "unknown"
             /\ carries'[p] = carries[p]
             /\ landed[p] # <<>> => landed'[p] # <<>>
             /\ fetch[p].pc = "none" => fetch'[p].pc = "none" /\ landed'[p] = landed[p]
  BY DEF PullKept, PullOver, p
<1>2. ASSUME NEW j \in Fetches, Get(j) \/ Receive(j) \/ FetchFails(j)
      PROVE  /\ UNCHANGED <<status, carries, landed>>
             /\ fetch[j].pc # "none" /\ \A i \in Fetches : i # j => fetch'[i] = fetch[i]
  BY <1>2, <1>t DEF Get, Receive, FetchFails, FetchEnds
<1>3. ASSUME NEW j \in Fetches, FetchLands(j)
      PROVE  /\ UNCHANGED <<status, carries>> /\ (landed[j] # <<>> => landed'[j] # <<>>)
             /\ fetch[j].pc # "none"
             /\ \A i \in Fetches : i # j => fetch'[i] = fetch[i] /\ landed'[i] = landed[i]
  <2>1. /\ UNCHANGED <<status, carries>> /\ fetch[j].pc # "none"
        /\ \A i \in Fetches : i # j => fetch'[i] = fetch[i] /\ landed'[i] = landed[i]
    BY <1>3, <1>t DEF FetchLands, FetchEnds
  <2>2. landed'[j] = landed[j] \/ landed'[j] = <<disk[part]>>
    BY <1>3, <1>t DEF FetchLands
  <2>3. <<disk[part]>> # <<>>  OBVIOUS
  <2> QED  BY <2>1, <2>2, <2>3
<1>4. ASSUME NEW j \in Fetches, FetchReports(j)
      PROVE  /\ UNCHANGED <<landed, carries>>
             /\ fetch[j].pc \in {"ok", "failed"} /\ status'[j] = fetch[j].pc
             /\ \A i \in Fetches : i # j => fetch'[i] = fetch[i] /\ status'[i] = status[i]
  BY <1>4, <1>t DEF FetchReports
<1>5. ASSUME NEW u \in Uploads, UpWrite(u) \/ \E how \in {"ok", "failed"} : UpEnds(u, how)
      PROVE  UNCHANGED <<fetch, status, landed, carries>>
  BY <1>5 DEF UpWrite, UpEnds
<1>6. ASSUME NEW u \in Uploads, NEW f \in FileNames, UpOpen(u, f)
      PROVE  UNCHANGED <<fetch, status, landed>> /\ carries'[p] = carries[p]
  BY <1>6, <1>t, <1>1, <1>w DEF UpOpen
<1>7. ASSUME FilesRestart
      PROVE  /\ UNCHANGED <<landed, carries>> /\ fetch'[p].pc = "none"
             /\ status'[p] = IF fetch[p].pc = "none" /\ status[p] = "unknown" THEN "unknown" ELSE "lost"
  BY <1>7, <1>1 DEF FilesRestart, Idle
<1>8. CASE \E j \in Fetches : FetchStep(j)
  <2> PICK j \in Fetches : FetchStep(j)  BY <1>8
  <2>1. CASE Get(j) \/ Receive(j) \/ FetchFails(j)  BY <1>1, <1>2, <2>1
  <2>2. CASE FetchLands(j)  BY <1>1, <1>3, <2>2
  <2>3. CASE FetchReports(j)  BY <1>1, <1>4, <1>l, <2>3
  <2> QED  BY <2>1, <2>2, <2>3 DEF FetchStep
<1>9. CASE FilesRestart  BY <1>7, <1>9, <1>l
<1> QED  BY <1>5, <1>6, <1>8, <1>9 DEF FilesOwn
-----------------------------------------------------------------------------
\* What a step says of a push, before its own effect on the pull is counted.
PushSays(c) ==
    /\ world' = world
    /\ \A m \in 1 .. 4 : <<c, m>> \in ran => <<c, m>> \in ran'
    /\ Tool(c).kind = "push" =>
          /\ c \in gaveUp' => told'[c] = "error"
          /\ reply'[c] = "failed" /\ Now(c)' \in ran' => Now(c)' \in unheard'
          /\ \A m \in 1 .. 4 : approval'[<<c, m>>] = "failed" /\ <<c, m>> \in ran'
                               => c \in gaveUp' \/ <<c, m>> \in unheard'
          /\ told'[c] = "done" => landed[Pulled(c)] # <<>>
          /\ told'[c] = "transfer failed" => PullOver(c)
          /\ told'[c] = "failed" => NoPull(c)' \/ <<c, 2>> \in unheard'

LEMMA PushStep ==
    ASSUME FilesShape, LandInv, NEW c \in Calls, PushRight(c), PushSays(c),
           UNCHANGED files \/ FilesOwn \/ \E d \in Calls : Starts(d)
    PROVE  PushRight(c)'
<1>w. world' = world  BY DEF PushSays
<1>1. Tool(c)' = Tool(c) /\ Pulled(c)' = Pulled(c)  BY <1>w DEF Tool, Pulled
<1>2. Pulled(c) \in Fetches  BY Legs
<1>3. <<c, 2>> \in ran => <<c, 2>> \in ran'
  <2>1. \A m \in 1 .. 4 : <<c, m>> \in ran => <<c, m>> \in ran'  BY Zenon DEF PushSays
  <2> QED  BY <2>1
<1>4. CASE PullKept(c)
  BY <1>1, <1>3, <1>4 DEF PushRight, PushSays, PullKept
<1>5. CASE UNCHANGED files
  <2>1. PullKept(c)  BY <1>1, <1>5 DEF files, PullKept, PullOver
  <2> QED  BY <1>4, <2>1
<1>6. ASSUME NEW d \in Calls, Starts(d) PROVE PushRight(c)'
  <2>t. /\ fetch \in [Fetches -> FetchType]
        /\ status \in [Fetches -> {"unknown", "fetching", "ok", "failed", "lost"}]
        /\ carries \in [Fetches \cup Uploads -> FileNames \cup {"none"}]
    BY FilesTypes DEF FilesShape, FilesTypeOK
  <2>1. FetchFile(Pulled(d), Tool(d).file) /\ Tool(d).kind = "push" /\ <<d, 2>> \in ran'  BY <1>6 DEF Starts
  <2>2. landed' = landed  BY <2>1 DEF FetchFile
  <2>3. CASE d = c
    <3>1. status'[Pulled(c)] = "fetching" /\ status[Pulled(c)] = "unknown"
      BY <1>2, <2>1, <2>3, <2>t DEF FetchFile
    <3>2. carries'[Pulled(c)] = Tool(c).file  BY <1>2, <2>1, <2>3, <2>t DEF FetchFile
    <3>3. ~PullOver(c)  BY <3>1 DEF PullOver
    <3> QED  BY <1>1, <2>1, <2>2, <2>3, <3>1, <3>2, <3>3 DEF PushRight, PushSays
  <2>4. CASE d # c
    <3>1. Pulled(d) # Pulled(c) /\ Pulled(d) \in Fetches  BY <2>4, Legs DEF Pulled
    <3> HIDE DEF Pulled
    <3>2. /\ status'[Pulled(c)] = status[Pulled(c)] /\ fetch'[Pulled(c)] = fetch[Pulled(c)]
          /\ carries'[Pulled(c)] = carries[Pulled(c)]
      BY <1>2, <2>1, <2>t, <3>1 DEF FetchFile
    <3>3. PullKept(c)  BY <1>1, <2>2, <3>2 DEF PullKept, PullOver
    <3> QED  BY <1>4, <3>3
  <2> QED  BY <2>3, <2>4
<1> QED  BY <1>4, <1>5, <1>6, PullsKept

LEMMA KeptSays == ASSUME CallTypes, NEW c \in Calls, PushRight(c), Kept(c) PROVE PushSays(c)
<1> USE DEF Kept, SameCall, Fates
<1>1. call[c].n \in 1 .. 4  BY DEF CallTypes, CallType
<1>2. Now(c)' = Now(c) /\ (Now(c) \in ran' <=> Now(c) \in ran) /\ (Now(c) \in unheard' <=> Now(c) \in unheard)
  BY <1>1 DEF Now
<1>3. NoPull(c)' <=> NoPull(c)  BY DEF NoPull
<1>4. world' = world /\ \A m \in 1 .. 4 : <<c, m>> \in ran => <<c, m>> \in ran'  OBVIOUS
<1> SUFFICES ASSUME Tool(c).kind = "push" PROVE PushSays(c)
  BY <1>4 DEF PushSays
<1>5. told'[c] = "failed" => NoPull(c)' \/ <<c, 2>> \in unheard'
  BY <1>3 DEF PushRight
<1>6. \A m \in 1 .. 4 : approval'[<<c, m>>] = "failed" /\ <<c, m>> \in ran'
                        => c \in gaveUp' \/ <<c, m>> \in unheard'
  BY DEF PushRight
<1>7. reply'[c] = "failed" /\ Now(c)' \in ran' => Now(c)' \in unheard'
  BY <1>2 DEF PushRight
<1>8. /\ c \in gaveUp' => told'[c] = "error"
      /\ told'[c] = "done" => landed[Pulled(c)] # <<>>
      /\ told'[c] = "transfer failed" => PullOver(c)
  BY DEF PushRight
<1> QED  BY <1>4, <1>5, <1>6, <1>7, <1>8 DEF PushSays

\* A push that was given up on has been told so.
LEMMA NotGivenUp ==
    ASSUME NEW c \in Calls, CallRight(c), PushRight(c), Tool(c).kind = "push",
           call[c].pc # "done" \/ told[c] # "error"
    PROVE  c \notin gaveUp
BY DEF CallRight, CallShape, PushRight

\* A call's own step, on or to an end.
LEMMA OwnSays ==
    ASSUME CallTypes, \A d \in Calls : CallRight(d) /\ PushRight(d), NEW c \in Calls, HubSame, OthersSame(c),
           call[c].pc # "done", reply'[c] # "failed",
           Tool(c).kind = "push" => \/ told'[c] = told[c]
                                    \/ told'[c] \notin {"done", "failed", "transfer failed"}
                                    \/ told'[c] = "done" /\ landed[Pulled(c)] # <<>>
                                    \/ told'[c] = "transfer failed" /\ PullOver(c)
                                    \/ told'[c] = "failed" /\ (NoPull(c) \/ <<c, 2>> \in unheard)
    PROVE  \A d \in Calls : PushSays(d)
<1> USE DEF HubSame
<1>1. ASSUME NEW d \in Calls, d # c PROVE PushSays(d)
  <2>1. Kept(d)  BY <1>1 DEF Kept, Fates, OthersSame
  <2> QED  BY <2>1, KeptSays
<1>2. Tool(c).kind = "push" => c \notin gaveUp  BY NotGivenUp
<1>3. NoPull(c)' <=> NoPull(c)  BY DEF NoPull
<1>4. told[c] = "none"  BY DEF CallRight, CallShape
<1>5. PushSays(c)  BY <1>2, <1>3, <1>4 DEF PushSays, PushRight
<1> QED  BY <1>1, <1>5

LEMMA StopSays ==
    ASSUME CallTypes, \A d \in Calls : CallRight(d) /\ PushRight(d), NEW c \in Calls, HubSame,
           call[c].pc # "done", NEW what \in Outcomes, Stop(c, what),
           Tool(c).kind = "push" /\ what = "done" => landed[Pulled(c)] # <<>>,
           Tool(c).kind = "push" /\ what = "transfer failed" => PullOver(c),
           Tool(c).kind = "push" /\ what = "failed" => NoPull(c) \/ <<c, 2>> \in unheard
    PROVE  \A d \in Calls : PushSays(d)
<1>1. reply'[c] = "none" /\ told'[c] = Told(c, what) /\ OthersSame(c)  BY StopDoes
<1>2. told'[c] \in {"done", "failed", "transfer failed"} => what = told'[c]  BY <1>1, ToldIs
<1> QED  BY <1>1, <1>2, OwnSays

LEMMA GoSays ==
    ASSUME CallTypes, \A d \in Calls : CallRight(d) /\ PushRight(d), NEW c \in Calls, HubSame,
           call[c].pc # "done", NEW what \in {"done", "approved"}, Go(c, what)
    PROVE  \A d \in Calls : PushSays(d)
<1>1. call \in [Calls -> CallType] /\ reply \in [Calls -> Replies]  BY DEF CallTypes
<1>2. CASE Stop(c, what) /\ Tool(c).kind # "push"
  <2>1. what \in Outcomes  BY DEF Outcomes
  <2> QED  BY <1>2, <2>1, StopSays
<1>3. CASE /\ \A d \in Calls : d # c => call'[d] = call[d]
           /\ reply' = [reply EXCEPT ![c] = "none"] /\ UNCHANGED told
  <2>1. OthersSame(c) /\ reply'[c] = "none" /\ told'[c] = told[c]  BY <1>1, <1>3 DEF OthersSame, SameCall
  <2> QED  BY <2>1, OwnSays
<1> QED  BY <1>1, <1>2, <1>3 DEF Go

\* What did not run at the request at hand starts no pull any more; if it ran, its answer
\* was lost.
LEMMA NoneYet ==
    ASSUME CallTypes, NEW c \in Calls, CallRight(c), Tool(c).kind = "push",
           Now(c) \in ran => Now(c) \in unheard, approval[Now(c)] \notin {"pending", "running"}
    PROVE  NoPull(c) \/ <<c, 2>> \in unheard
<1>1. call[c].n \in 1 .. 4 /\ call[c].n <= 2 /\ Now(c) = <<c, call[c].n>>
  BY NowIs, ReqsAre DEF CallTypes
<1>2. CASE call[c].n = 2  BY <1>1, <1>2 DEF NoPull
<1>3. CASE call[c].n = 1
  <2>1. ~Touched(<<c, 2>>)  BY <1>3 DEF CallRight, Asking
  <2> QED  BY <2>1 DEF Touched, NoPull
<1> QED  BY <1>1, <1>2, <1>3

LEMMA ToolSays ==
    ASSUME CallTypes, LandInv, \A d \in Calls : CallRight(d) /\ PushRight(d), NEW c \in Calls,
           Resolve(c) \/ Lookup(c) \/ OfTool(c)
    PROVE  \A d \in Calls : PushSays(d)
<1>1. call \in [Calls -> CallType] /\ reply \in [Calls -> Replies]  BY DEF CallTypes
<1>2. HubSame  BY DEF Resolve, Lookup, OfTool, Ask, Take, Settle, WaitEnds, Poll, Still, HubSame, device
<1>3. call[c].pc # "done"  BY DEF Resolve, Lookup, OfTool, Ask, Take, Settle, WaitEnds, Poll
<1>4. CallRight(c) /\ PushRight(c)  OBVIOUS
<1>5. ASSUME NEW what \in Outcomes \ {"done", "failed", "transfer failed"}, Stop(c, what)
      PROVE  \A d \in Calls : PushSays(d)
  BY <1>2, <1>3, <1>5, StopSays
<1>6. ASSUME UNCHANGED told, \A d \in Calls : d # c => call'[d] = call[d] /\ reply'[d] = reply[d],
             reply'[c] # "failed"
      PROVE  \A d \in Calls : PushSays(d)
  <2>1. OthersSame(c)  BY <1>6 DEF OthersSame, SameCall
  <2> QED  BY <1>2, <1>3, <1>6, <2>1, OwnSays
<1>o. {"error", "pending", "approved", "denied", "expired", "dryrun", "refused", "timeout"}
      \subseteq Outcomes \ {"done", "failed", "transfer failed"}
  BY DEF Outcomes
<1>p. {"done", "failed", "transfer failed", "approved"} \subseteq Outcomes  BY DEF Outcomes
<1>7. CASE Resolve(c) \/ Ask(c)
  <2>1. reply[c] = "none"  BY <1>4, <1>7 DEF CallRight, CallShape, Resolve, Ask
  <2>2. CASE Stop(c, "error")  BY <1>5, <1>o, <2>2
  <2>3. CASE UNCHANGED <<told, reply>> /\ \A d \in Calls : d # c => call'[d] = call[d]
    BY <1>6, <2>1, <2>3
  <2> QED  BY <1>1, <1>7, <2>2, <2>3 DEF Resolve, Ask
<1>8. CASE Lookup(c) \/ WaitEnds(c)
  <2>1. \A v : FromView(v) \in {"executed", "failed", "denied", "expired", "none"}  BY DEF FromView
  <2>2. CASE WaitEnds(c)  BY <1>5, <1>o, <2>2 DEF WaitEnds
  <2>3. CASE Lookup(c)
    <3> DEFINE s == FromView(approval[Now(Tool(c).of)])
               what == IF s \in {"executed", "failed"} THEN "approved" ELSE IF s = "none" THEN "pending" ELSE s
    <3>1. what \in Outcomes \ {"done", "failed", "transfer failed"}  BY <2>1, <1>o
    <3>2. Stop(c, what)  BY <2>3 DEF Lookup
    <3> HIDE DEF what
    <3> QED  BY <1>5, <3>1, <3>2
  <2> QED  BY <1>8, <2>2, <2>3
<1>9. CASE Take(c)
  <2>1. CASE reply[c] = "failed" /\ Stop(c, "failed")
    <3>1. approval[Now(c)] = "none"  BY <1>4, <2>1 DEF CallRight, Answered
    <3>2. Tool(c).kind = "push" /\ Now(c) \in ran => Now(c) \in unheard  BY <1>4, <2>1 DEF PushRight
    <3>3. Tool(c).kind = "push" => NoPull(c) \/ <<c, 2>> \in unheard  BY <1>4, <3>1, <3>2, NoneYet
    <3> QED  BY <1>2, <1>3, <1>p, <2>1, <3>3, StopSays
  <2>2. CASE Go(c, "done")  BY <1>2, <1>3, <1>p, <2>2, GoSays
  <2>3. CASE \E what \in {"dryrun", "refused", "pending"} : Stop(c, what)  BY <1>5, <1>o, <2>3
  <2>4. CASE reply[c] = "pending" /\ call' = [call EXCEPT ![c].pc = "held"] /\ UNCHANGED <<told, reply>>
    BY <1>1, <1>6, <2>4
  <2> QED  BY <1>9, <2>1, <2>2, <2>3, <2>4 DEF Take
<1>10. CASE Settle(c)
  <2> DEFINE s == FromView(approval[Now(c)])
  <2>1. CASE s = "failed" /\ Stop(c, s)
    <3>1. approval[Now(c)] = "failed"  BY <2>1 DEF FromView
    <3>2. Now(c) = <<c, call[c].n>> /\ call[c].n \in 1 .. 4  BY NowIs
    <3>3. Tool(c).kind = "push" /\ Now(c) \in ran => Now(c) \in unheard
      <4>1. Tool(c).kind = "push" /\ Now(c) \in ran => c \in gaveUp \/ Now(c) \in unheard
        BY <1>4, <3>1, <3>2 DEF PushRight
      <4> QED  BY <1>3, <1>4, <4>1, NotGivenUp
    <3>4. Tool(c).kind = "push" => NoPull(c) \/ <<c, 2>> \in unheard  BY <1>4, <3>1, <3>3, NoneYet
    <3> QED  BY <1>2, <1>3, <1>p, <2>1, <3>4, StopSays
  <2>2. CASE Go(c, "approved")  BY <1>2, <1>3, <1>p, <2>2, GoSays
  <2>3. CASE s \in {"denied", "expired"} /\ Stop(c, s)
    <3>1. \E what \in {"denied", "expired"} : Stop(c, what)  BY <2>3
    <3> QED  BY <1>5, <1>o, <3>1
  <2> QED  BY <1>10, <2>1, <2>2, <2>3 DEF Settle
<1>11. CASE Poll(c)
  <2>1. Pulled(c) \in Fetches /\ Landing(Pulled(c))  BY Legs DEF LandInv
  <2>2. CASE FileStatus(Pulled(c)) = "ok" /\ Stop(c, "done")
    <3>1. status[Pulled(c)] = "ok"  BY <2>2 DEF FileStatus
    <3>2. landed[Pulled(c)] # <<>>  BY <2>1, <3>1 DEF Landing
    <3> QED  BY <1>2, <1>3, <1>p, <2>2, <3>2, StopSays
  <2>3. CASE FileStatus(Pulled(c)) = "failed" /\ Stop(c, "transfer failed")
    <3>1. status[Pulled(c)] = "failed"  BY <2>3 DEF FileStatus
    <3>2. PullOver(c)  BY <2>1, <3>1 DEF Landing, PullOver
    <3> QED  BY <1>2, <1>3, <1>p, <2>3, <3>2, StopSays
  <2>4. CASE MorePolls(c)
    <3>1. CASE Stop(c, "timeout")  BY <1>5, <1>o, <3>1
    <3>2. CASE Polled(c, call[c].polls + 1)
      <4>1. UNCHANGED <<told, reply>> /\ \A d \in Calls : d # c => call'[d] = call[d]
        BY <1>1, <3>2 DEF Polled
      <4>2. reply[c] = "none"  BY <1>4, <1>11 DEF CallRight, CallShape, Poll
      <4> QED  BY <1>6, <4>1, <4>2
    <3> QED  BY <2>4, <3>1, <3>2 DEF MorePolls
  <2> QED  BY <1>11, <2>2, <2>3, <2>4 DEF Poll, Pulled
<1> QED  BY <1>7, <1>8, <1>9, <1>10, <1>11 DEF OfTool

LEMMA AnswerSays ==
    ASSUME CallTypes, \A d \in Calls : CallRight(d) /\ PushRight(d), NEW c \in Calls, NEW a \in Replies,
           Answers(c, a)
    PROVE  \A d \in Calls : PushSays(d)
<1> USE DEF Answers
<1>1. /\ reply \in [Calls -> Replies] /\ approval \in [Rs -> Verdicts]
  BY DEF CallTypes
<1>2. Now(c) = <<c, call[c].n>> /\ call[c].n \in 1 .. 4 /\ Now(c) \in Rs  BY NowIs
<1>3. call[c].pc = "sent" /\ reply[c] = "none" /\ CallRight(c) /\ PushRight(c)  BY DEF Asked
<1>4. told[c] = "none" /\ approval[Now(c)] = "none" /\ (Now(c) \in ran => c \in gaveUp)
  BY <1>3 DEF CallRight, CallShape, Answered, Unanswered, Stray
<1>5. reply'[c] = a /\ \A d \in Calls : d # c => reply'[d] = reply[d]
  BY <1>1 DEF Answer
<1>a. /\ ran' = ran \/ ran' = ran \cup {Now(c)}
      /\ away' = away \/ away' = away \cup {Now(c)}
      /\ unheard' = unheard \/ unheard' = unheard \cup {Now(c)}
  OBVIOUS
<1>6. \A r \in Rs : r # Now(c) => /\ (r \in ran' <=> r \in ran) /\ approval'[r] = approval[r]
                                  /\ (r \in away' <=> r \in away) /\ (r \in unheard' <=> r \in unheard)
  BY <1>1, <1>2, <1>a
<1>7. ASSUME NEW d \in Calls, d # c PROVE PushSays(d)
  <2>1. \A m \in 1 .. 4 : <<d, m>> \in Rs /\ <<d, m>> # Now(c)  BY <1>2, <1>7 DEF Rs
  <2>2. Kept(d)  BY <1>5, <1>6, <1>7, <2>1 DEF Kept, SameCall, Fates
  <2> QED  BY <2>2, KeptSays
<1>8. Tool(c).kind = "push" => c \notin gaveUp  BY <1>3, NotGivenUp
<1>9. Tool(c).kind = "push" /\ a = "failed" /\ Now(c)' \in ran' => Now(c)' \in unheard'
  BY <1>4, <1>8 DEF Now
<1>10. approval'[Now(c)] # "failed"  BY <1>1, <1>2, <1>4
<1>11. \A m \in 1 .. 4 : <<c, m>> \in Rs  BY DEF Rs
<1>12. PushSays(c)
  BY <1>3, <1>4, <1>5, <1>6, <1>8, <1>9, <1>10, <1>11 DEF PushSays, PushRight
<1> QED  BY <1>7, <1>12

LEMMA FateSays ==
    ASSUME CallTypes, \A d \in Calls : CallRight(d) /\ PushRight(d), NEW c \in Calls, NEW m \in 1 .. 4,
           NEW v \in Verdicts, Fated(c, m, v)
    PROVE  \A d \in Calls : PushSays(d)
<1> USE DEF Fated
<1>1. approval \in [Rs -> Verdicts]  BY DEF CallTypes
<1>2. <<c, m>> \in Rs  BY DEF Rs
<1>3. \A r \in Rs : r # <<c, m>> => /\ r \in ran' <=> r \in ran
                                    /\ r \in away' <=> r \in away
                                    /\ r \in unheard' <=> r \in unheard
                                    /\ r \in late' <=> r \in late
                                    /\ approval'[r] = approval[r]
  BY <1>1, <1>2
<1>4. ASSUME NEW d \in Calls, d # c PROVE PushSays(d)
  <2>1. \A k \in 1 .. 4 : <<d, k>> \in Rs /\ <<d, k>> # <<c, m>>  BY <1>4 DEF Rs
  <2>2. Kept(d)  BY <1>3, <2>1 DEF Kept, SameCall, Fates
  <2> QED  BY <2>2, KeptSays
<1>5. approval'[<<c, m>>] = v  BY <1>1, <1>2
<1>6. CallRight(c) /\ PushRight(c) /\ Now(c) = <<c, call[c].n>> /\ call[c].n \in 1 .. 4 /\ Now(c)' = Now(c)
  BY NowIs DEF Now
<1>7. \A k \in 1 .. 4 : <<c, k>> \in Rs /\ (k # m => <<c, k>> # <<c, m>>)  BY DEF Rs
<1> SUFFICES ASSUME Tool(c).kind = "push" PROVE PushSays(c)
  BY <1>4 DEF PushSays
\* What is run now was waiting for it, or given up on.
<1>8. <<c, m>> \in ran' => \/ <<c, m>> \in ran \/ c \in gaveUp
                           \/ approval[<<c, m>>] \in {"pending", "running"} /\ v = "executed"
                           \/ approval[<<c, m>>] = "running" /\ v = "failed" /\ <<c, m>> \in unheard'
  <2>1. approval[<<c, m>>] \in {"served", "executed"} => <<c, m>> \in ran  BY <1>6 DEF CallRight, Asking
  <2> QED  BY <2>1
<1>9. reply[c] = "failed" /\ Now(c) \in ran' => Now(c) \in unheard'
  <2> SUFFICES ASSUME reply[c] = "failed", Now(c) \in ran' PROVE Now(c) \in unheard'
    OBVIOUS
  <2>1. approval[Now(c)] = "none" /\ call[c].pc # "done" /\ (Now(c) \in ran => Now(c) \in unheard)
    BY <1>6 DEF CallRight, CallShape, Answered, PushRight
  <2>2. c \notin gaveUp  BY <1>6, <2>1, NotGivenUp
  <2>3. CASE Now(c) = <<c, m>>  BY <1>8, <2>1, <2>2, <2>3
  <2>4. CASE Now(c) # <<c, m>>  BY <1>3, <1>6, <1>7, <2>1, <2>4
  <2> QED  BY <2>3, <2>4
<1>10. ASSUME NEW k \in 1 .. 4, approval'[<<c, k>>] = "failed", <<c, k>> \in ran'
       PROVE  c \in gaveUp \/ <<c, k>> \in unheard'
  <2>1. CASE k # m
    <3>1. approval[<<c, k>>] = "failed" /\ <<c, k>> \in ran  BY <1>3, <1>7, <1>10, <2>1
    <3> QED  BY <1>6, <3>1 DEF PushRight
  <2>2. CASE k = m
    <3>1. v = "failed"  BY <1>5, <1>10, <2>2
    <3>2. <<c, m>> \in ran \/ c \in gaveUp \/ <<c, m>> \in unheard'  BY <1>8, <1>10, <2>2, <3>1
    <3>3. approval[<<c, m>>] \in {"pending", "running", "failed"}
      BY <1>6, <3>1 DEF CallRight, Asking
    <3> QED  BY <1>6, <2>2, <3>2, <3>3 DEF CallRight, Asking, PushRight, Undecided
  <2> QED  BY <2>1, <2>2
<1>11. told[c] = "failed" => NoPull(c)' \/ <<c, 2>> \in unheard'
  <2> SUFFICES ASSUME told[c] = "failed", NoPull(c), <<c, 2>> \notin unheard' PROVE NoPull(c)'
    BY <1>6 DEF PushRight
  <2>1. c \notin gaveUp  BY <1>6, NotGivenUp
  <2>2. CASE m = 2
    <3>1. v \notin {"pending", "running"}
      <4>1. approval[<<c, m>>] # "served"  BY <1>6 DEF CallRight, Asking
      <4> QED  BY <2>2, <4>1 DEF NoPull
    <3>2. <<c, m>> \notin ran'  BY <1>8, <2>1, <2>2 DEF NoPull
    <3> QED  BY <1>5, <2>2, <3>1, <3>2 DEF NoPull
  <2>3. CASE m # 2
    BY <1>3, <1>7, <2>3 DEF NoPull
  <2> QED  BY <2>2, <2>3
<1>12. c \in gaveUp => told[c] = "error"  BY <1>6 DEF PushRight
<1>13. /\ told[c] = "done" => landed[Pulled(c)] # <<>>
       /\ told[c] = "transfer failed" => PullOver(c)
  BY <1>6 DEF PushRight
<1> QED  BY <1>6, <1>9, <1>10, <1>11, <1>12, <1>13 DEF PushSays

LEMMA OverSays ==
    ASSUME CallTypes, NEW c \in Calls, CallRight(c), PushRight(c),
           UNCHANGED <<world, call, told, late, gaveUp, ran, away, unheard>>,
           reply'[c] = reply[c] \/ (reply[c] = "served" /\ reply'[c] \in {"done", "failed"}),
           \A m \in 1 .. 4 : \/ approval'[<<c, m>>] = approval[<<c, m>>]
                             \/ approval[<<c, m>>] = "served" /\ approval'[<<c, m>>] \in {"executed", "failed"}
    PROVE  PushSays(c)
<1>1. CASE Tool(c).kind = "push"
  <2>1. reply'[c] = reply[c] /\ \A m \in 1 .. 4 : approval'[<<c, m>>] = approval[<<c, m>>]
    BY <1>1 DEF CallRight, Answered, Asking
  <2>2. Kept(c)  BY <2>1 DEF Kept, SameCall, Fates
  <2> QED  BY <2>2, KeptSays
<1>2. CASE Tool(c).kind # "push"  BY <1>2 DEF PushSays
<1> QED  BY <1>1, <1>2

LEMMA BreaksSays ==
    ASSUME CallTypes, \A d \in Calls : CallRight(d) /\ PushRight(d), NEW c \in Calls,
           Breaks(c) \/ LanGivesUp(c)
    PROVE  \A d \in Calls : PushSays(d)
<1>1. /\ UNCHANGED <<world, approval, ran, away, unheard>> /\ gaveUp \subseteq gaveUp' /\ gaveUp' \subseteq gaveUp \cup {c}
      /\ late \subseteq late' /\ late' \subseteq late \cup {Now(c)}
  BY DEF Breaks, LanGivesUp, device
<1>s. world' = world /\ ran' = ran /\ approval' = approval /\ unheard' = unheard  BY <1>1
<1>2. Now(c) = <<c, call[c].n>>  BY NowIs
<1>3. OthersSame(c)
  <2>1. CASE Breaks(c)
    <3>1. Stop(c, "error")  BY <2>1 DEF Breaks
    <3> QED  BY <3>1, StopDoes
  <2>2. CASE LanGivesUp(c)  BY <2>2 DEF LanGivesUp, OthersSame, SameCall
  <2> QED  BY <2>1, <2>2
<1>4. ASSUME NEW d \in Calls, d # c PROVE PushSays(d)
  <2>1. Kept(d)  BY <1>1, <1>2, <1>3, <1>4 DEF Kept, OthersSame, Fates
  <2> QED  BY <2>1, KeptSays
<1>5. ASSUME Tool(c).kind = "push" PROVE PushSays(c)
  <2>1. Breaks(c)
    <3>1. ~IsInput(Tool(c)) /\ "push" \notin DeviceKinds  BY <1>5, ReqsAre DEF DeviceKinds, CallTypes
    <3> QED  BY <1>5, <3>1 DEF LanGivesUp
  <2>2. Stop(c, "error")  BY <2>1 DEF Breaks
  <2>3. reply'[c] = "none" /\ told'[c] = "error"
    BY <1>5, <2>2, StopDoes, ToolIs DEF Told, CallTypes
  <2>4. \A m \in 1 .. 4 : approval[<<c, m>>] = "failed" /\ <<c, m>> \in ran
                          => c \in gaveUp' \/ <<c, m>> \in unheard
    BY <1>1, <1>5 DEF PushRight
  <2> QED  BY <1>s, <2>3, <2>4 DEF PushSays
<1>6. ASSUME Tool(c).kind # "push" PROVE PushSays(c)
  BY <1>s, <1>6 DEF PushSays
<1> QED  BY <1>4, <1>5, <1>6

LEMMA SaysStep ==
    ASSUME CallTypes, LandInv, \A d \in Calls : CallRight(d) /\ PushRight(d), Next
    PROVE  \A d \in Calls : PushSays(d)
<1>1. ASSUME Inject \/ (\E j \in Fetches : Pull(j)) \/ (\E u \in Uploads : Write(u))
      PROVE  \A d \in Calls : PushSays(d)
  <2>1. UNCHANGED <<world, call, reply, told, approval, late, gaveUp, ran, away, unheard>>
    BY <1>1 DEF Inject, Pull, Write
  <2> SUFFICES ASSUME NEW d \in Calls PROVE PushSays(d)
    OBVIOUS
  <2>2. Kept(d)  BY <2>1 DEF Kept, SameCall, Fates
  <2> QED  BY <2>2, KeptSays
<1>2. ASSUME (\E u \in Uploads : Written(u)) \/ Restart PROVE \A d \in Calls : PushSays(d)
  <2> SUFFICES ASSUME NEW d \in Calls PROVE PushSays(d)
    OBVIOUS
  <2>1. UNCHANGED <<world, call, told, late, gaveUp, ran, away, unheard>>  BY <1>2 DEF Written, Restart
  <2>2. reply'[d] = reply[d] \/ (reply[d] = "served" /\ reply'[d] \in {"done", "failed"})
    BY <1>2, OversAre
  <2>3. \A m \in 1 .. 4 : \/ approval'[<<d, m>>] = approval[<<d, m>>]
                          \/ approval[<<d, m>>] = "served" /\ approval'[<<d, m>>] \in {"executed", "failed"}
    BY <1>2, OversAre
  <2> QED  BY <2>1, <2>2, <2>3, OverSays
<1>3. ASSUME NEW r \in DOMAIN approval, Decide(r) \/ Replay(r) \/ LateServed(r)
      PROVE  \A d \in Calls : PushSays(d)
  <2>1. r \in Rs  BY DEF CallTypes
  <2>2. PICK c \in Calls, m \in 1 .. 4 : r = <<c, m>>  BY <2>1 DEF Rs
  <2>3. Decide(<<c, m>>) \/ Replay(<<c, m>>) \/ LateServed(<<c, m>>)  BY <1>3, <2>2
  <2> QED  BY <2>3, DecideFates, ReplayFates, LateFates, FateSays
<1>4. ASSUME NEW c \in Calls, Resolve(c) \/ Lookup(c) \/ OfTool(c) \/ OfHub(c)
      PROVE  \A d \in Calls : PushSays(d)
  BY <1>4, ToolSays, ServeAnswers, VerdictAnswers, AnswerSays DEF OfHub
<1> QED  BY <1>1, <1>2, <1>3, <1>4, BreaksSays DEF Next, OfAgent, OfOthers

-----------------------------------------------------------------------------
(***************************************************************************)
(* The invariant, and what follows from it.                                *)
(***************************************************************************)
LEMMA OpInit == Init => OpInv
<1> SUFFICES ASSUME Init PROVE OpInv
  OBVIOUS
<1>1. /\ call = [c \in Calls |-> [pc |-> "new", n |-> 1, polls |-> 0]]
      /\ reply = [c \in Calls |-> "none"] /\ approval = [r \in Rs |-> "none"] /\ told = [c \in Calls |-> "none"]
      /\ late = {} /\ queue = <<>> /\ keys = {} /\ ran = {} /\ gaveUp = {}
      /\ away = {} /\ unheard = {}
  BY DEF Init, Rs
<1>2. PICK w \in Worlds : world = w /\ folder = w.folder /\ faults = w.faults /\ left = w.budget
  BY DEF Init
<1>3. w \in WorldSet  BY OperatorConstantsOK
<1>4. folder \in Folders /\ faults \in Nat /\ left \in [Bounds -> Nat]  BY <1>2, <1>3 DEF WorldSet
<1>5. CallTypes
  <2>1. call \in [Calls -> CallType]
    <3>1. 1 \in 1 .. 4 /\ 0 \in 0 .. MaxPolls  BY OperatorConstantsOK
    <3> QED  BY <1>1, <3>1 DEF CallType
  <2> QED  BY <1>1, <1>2, <1>4, <2>1 DEF CallTypes, Replies, Verdicts, Tellings
<1>6. FilesInit  BY DEF Init
<1>7. FilesShape
  <2>1. FilesTypeOK
    <3>1. disk \in [Inodes -> Seq(Blocks)] /\ landed \in [Fetches -> Seq(Seq(Blocks))]
      BY <1>6 DEF FilesInit
    <3>2. fetch \in [Fetches -> [pc : {"none", "get", "body", "ok", "failed"},
                                fd : Inodes \cup {0}, at : Nat, bad : BOOLEAN]]
      BY <1>6 DEF FilesInit, Idle
    <3>3. upload \in [Uploads -> [pc : {"none", "write", "ok", "failed"}, fd : Inodes \cup {0}, at : Nat]]
      BY <1>6 DEF FilesInit, Closed
    <3>4. /\ status \in [Fetches -> {"unknown", "fetching", "ok", "failed", "lost"}]
          /\ carries \in [Fetches \cup Uploads -> FileNames \cup {"none"}]
          /\ {dest, part} \subseteq Inodes \cup {0} /\ crossed \in BOOLEAN
      BY <1>6 DEF FilesInit
    <3> QED  BY <1>4, <3>1, <3>2, <3>3, <3>4 DEF FilesTypeOK
  <2>2. (\A j \in Fetches : FetchOpen(j)) /\ (\A u \in Uploads : UploadOpen(u))
    BY <1>6 DEF FilesInit, FetchOpen, UploadOpen, Idle, Closed
  <2> QED  BY <2>1, <2>2 DEF FilesShape
<1>8. WholeInv
  BY <1>6 DEF FilesInit, WholeInv, OneWriter, Apart, Progress, DestWhole, Idle, Closed
<1>9. LandInv  BY <1>6 DEF FilesInit, LandInv, Landing, Idle
<1>10. ASSUME NEW c \in Calls PROVE CallRight(c) /\ PushRight(c)
  <2>1. Len(Reqs(c)) \in 1 .. 4  BY <1>2, ReqsAre
  <2>2. call[c].n <= Len(Reqs(c))
    <3> DEFINE len == Len(Reqs(c))
    <3>1. len \in 1 .. 4 /\ call[c].n = 1  BY <1>1, <2>1
    <3> HIDE DEF len
    <3>2. call[c].n <= len  BY <3>1
    <3> QED  BY <3>2 DEF len
  <2>3. call[c].pc = "new" /\ call[c].n = 1 /\ reply[c] = "none" /\ told[c] = "none"  BY <1>1
  <2>4. \A m \in 1 .. 4 : approval[<<c, m>>] = "none" /\ <<c, m>> \notin ran /\ <<c, m>> \notin late
    BY <1>1 DEF Rs
  <2>5. approval[Now(c)] = "none" /\ Now(c) \notin ran  BY <2>3, <2>4 DEF Now
  <2>6. CallShape(c)  BY <2>2, <2>3 DEF CallShape
  <2>7. Asking(c)  BY <2>4 DEF Asking, Touched, Undecided
  <2>8. Answered(c)  BY <2>3, <2>5 DEF Answered, Stray
  <2>9. Planned(c)  BY <2>3 DEF Planned
  <2>10. Ordered(c)  BY <2>3 DEF Ordered
  <2>11. ToldRight(c)  BY <2>3 DEF ToldRight, ToldToWait
  <2>12. PushRight(c)
    <3>1. status[Pulled(c)] = "unknown"  BY <1>6, Legs DEF FilesInit
    <3> QED  BY <1>1, <2>3, <2>4, <3>1 DEF PushRight
  <2> QED  BY <2>6, <2>7, <2>8, <2>9, <2>10, <2>11, <2>12 DEF CallRight
<1> QED  BY <1>5, <1>7, <1>8, <1>9, <1>10 DEF OpInv

LEMMA OpStep == OpInv /\ [Next]_vars => OpInv'
<1> SUFFICES ASSUME OpInv, [Next]_vars PROVE OpInv'
  OBVIOUS
<1>1. /\ CallTypes /\ FilesShape /\ WholeInv /\ LandInv
      /\ \A c \in Calls : CallRight(c) /\ PushRight(c)
  BY DEF OpInv
<1>2. CASE Next
  <2>1. CallTypes' /\ \A c \in Calls : CallRight(c)'  BY <1>1, <1>2, CallTypesStep, CallsRightStep
  <2>2. UNCHANGED files \/ FilesOwn \/ \E c \in Calls : Starts(c)  BY <1>1, <1>2, FilesOf
  <2>3. FilesNext \/ UNCHANGED files  BY <1>1, <2>2, OwnIsNext, StartIsNext
  <2>4. FilesShape' /\ WholeInv' /\ LandInv'  BY <1>1, <2>3, FilesShapeStep, WholeStep, LandStep, FilesSame
  <2>5. \A c \in Calls : PushRight(c)'  BY <1>1, <1>2, <2>2, SaysStep, PushStep
  <2> QED  BY <2>1, <2>4, <2>5 DEF OpInv
<1>3. CASE UNCHANGED vars
  <2>1. UNCHANGED <<world, call, reply, told, approval, late, left, gaveUp, away, unheard, ran, queue, keys>>
        /\ UNCHANGED files
    BY <1>3 DEF vars, device
  <2>2. CallTypes'  BY <1>1, <2>1 DEF CallTypes
  <2>3. FilesShape' /\ WholeInv' /\ LandInv'  BY <1>1, <2>1, FilesSame
  <2>4. \A c \in Calls : Kept(c)  BY <2>1 DEF Kept, SameCall, Fates
  <2>5. \A c \in Calls : CallRight(c)'  BY <1>1, <2>4, KeptRight
  <2>6. \A c \in Calls : PushRight(c)'  BY <1>1, <2>1, <2>4, KeptSays, PushStep
  <2> QED  BY <2>2, <2>3, <2>5, <2>6 DEF OpInv
<1> QED  BY <1>2, <1>3

LEMMA OpAlways == Spec => []OpInv
<1>1. OpInv /\ [Next]_vars => OpInv'  BY OpStep
<1> QED  BY <1>1, OpInit, PTL DEF Spec

LEMMA OpTypes == OpInv => TypeOK
<1> SUFFICES ASSUME OpInv PROVE TypeOK
  OBVIOUS
<1>1. CallTypes /\ FilesTypeOK  BY DEF OpInv, FilesShape
<1> QED  BY <1>1 DEF TypeOK, CallTypes, CallType, Replies, Verdicts, Tellings, Rs

\* Every variable of the calls, the hub and the device's files has its type, whatever calls
\* run beside each other (crates/mcp, crates/cli, the agent's http.rs).
THEOREM OperatorTypeOK == Spec => []TypeOK
BY OpAlways, OpTypes, PTL

\* At rest the destination of /upload and /fetch-file (crates/agent/src/http.rs) is one of
\* the operator's files from end to end, or nothing, for any number of pulls and uploads
\* of files of any size, failures and restarts, as long as no two writers met in one file
\* and none in place was cut off.
THEOREM RestStaysWhole == Spec => []RestIsWhole
<1>1. OpInv => RestIsWhole  BY RestFromWhole DEF OpInv
<1> QED  BY <1>1, OpAlways, PTL

\* "a partial or corrupt download never lands at the final path" (http.rs), as far as the
\* code keeps it: what a pull renames to the destination is the staged file, unless two
\* writers met in one file.
THEOREM LandsWholeAlone == Spec => [](~crossed => LandsWhole)
<1>1. OpInv => (~crossed => LandsWhole)  BY DEF OpInv, LandInv, Landing, LandsWhole
<1> QED  BY <1>1, OpAlways, PTL

LEMMA StopsFromRight == OpInv => StopsWhereTold
<1> SUFFICES ASSUME OpInv, NEW c \in Calls, told[c] # "none", Asks(c)
             PROVE  /\ \A m \in 1 .. call[c].n - 1 : Tool(c).dry \/ Went(<<c, m>>)
                    /\ \A m \in 1 .. 4 : m > call[c].n => <<c, m>> \notin ran
                    /\ told[c] \in {"dryrun", "refused", "denied", "expired"} /\ Now(c) \in ran => c \in gaveUp
                    /\ told[c] \in ToldToWait /\ Now(c) \in ran
                       => approval[Now(c)] \in {"served", "executed", "failed"} \/ c \in gaveUp
                    /\ told[c] \in {"done", "approved"} \/ (told[c] = "exit 0" /\ ~Tool(c).dry)
                       => \A m \in DOMAIN Requests(Tool(c)) : Went(<<c, m>>)
  BY DEF StopsWhereTold, Asks
<1>1. CallTypes /\ CallRight(c)  BY DEF OpInv
<1>2. Now(c) = <<c, call[c].n>> /\ call[c].n \in 1 .. 4 /\ Now(c) \in Rs  BY <1>1, NowIs
<1>3. \A m \in 1 .. call[c].n - 1 : Tool(c).dry \/ Went(<<c, m>>)
  BY <1>1 DEF CallRight, Ordered
<1>4. ASSUME NEW m \in 1 .. 4, m > call[c].n PROVE <<c, m>> \notin ran
  <2>1. <<c, m>> \in ran => m <= call[c].n  BY <1>1 DEF CallRight, Asking, Touched
  <2> QED  BY <1>2, <1>4, <2>1
<1>5. ASSUME told[c] \in {"dryrun", "refused", "denied", "expired"}, Now(c) \in ran
      PROVE  c \in gaveUp
  <2>1. CASE told[c] \in {"dryrun", "refused"}
    BY <1>1, <1>5, <2>1 DEF CallRight, ToldRight, Stray
  <2>2. CASE told[c] \in {"denied", "expired"}
    <3>1. approval[Now(c)] \in Undecided  BY <1>1, <1>5, <2>2 DEF CallRight, ToldRight, Undecided
    <3> QED  BY <1>1, <1>2, <1>5, <3>1 DEF CallRight, Asking
  <2> QED  BY <1>5, <2>1, <2>2
<1>6. ASSUME told[c] \in ToldToWait, Now(c) \in ran
      PROVE  approval[Now(c)] \in {"served", "executed", "failed"} \/ c \in gaveUp
  <2>1. approval[Now(c)] # "none"  BY <1>1, <1>6 DEF CallRight, ToldRight
  <2>2. approval[Now(c)] \in Undecided => c \in gaveUp  BY <1>1, <1>2, <1>6 DEF CallRight, Asking
  <2>3. approval[Now(c)] \in Verdicts  BY <1>1, <1>2 DEF CallTypes
  <2> QED  BY <2>1, <2>2, <2>3 DEF Undecided, Verdicts
<1>7. ASSUME told[c] \in {"done", "approved"} \/ (told[c] = "exit 0" /\ ~Tool(c).dry),
             NEW m \in DOMAIN Requests(Tool(c))
      PROVE  Went(<<c, m>>)
  <2>1. ~Tool(c).dry  BY <1>1, <1>7 DEF CallRight, Planned
  <2>2. call[c].n = Len(Reqs(c)) /\ Went(Now(c))
    BY <1>1, <1>7, <2>1 DEF CallRight, Ordered
  <2>3. m \in 1 .. Len(Reqs(c))
    <3>1. Tool(c) \in Tools  BY <1>1, ToolIs DEF CallTypes
    <3> QED  BY <3>1, RequestsSeq DEF Reqs
  <2> QED  BY <1>2, <1>3, <2>1, <2>2, <2>3
<1> QED  BY <1>3, <1>4, <1>5, <1>6, <1>7

\* "stop here and return this, because the hub did not simply run it" (crates/mcp): what a
\* caller is told fits what became of its requests. Each one before the one its call stopped
\* at ran (of a key or a click, it may have been answered with an error instead), and none
\* after it ever runs; the one it stopped at does not run if it was refused, denied,
\* expired or planned, and if it was told to wait for a human only once he approved. What
\* was told to have run did, to its last request; a key or a click told to be pressed had
\* no event held or refused. So for any number of calls beside each other, any verdicts,
\* lost answers, late requests and restarts.
THEOREM CallersToldRight == Spec => []StopsWhereTold
BY OpAlways, StopsFromRight, PTL

LEMMA PushFromRight == OpInv => PushTold
<1> SUFFICES ASSUME OpInv, NEW c \in Calls, Tool(c).kind = "push"
             PROVE  /\ told[c] = "done" => /\ landed[Pulled(c)] # <<>>
                                           /\ crossed \/ landed[Pulled(c)] = <<Body(Tool(c).file)>>
                    /\ told[c] \in {"failed", "transfer failed"} /\ landed[Pulled(c)] # <<>>
                       => told[c] = "failed" /\ <<c, 2>> \in unheard
  BY DEF PushTold, Pulled
<1>1. PushRight(c) /\ Pulled(c) \in Fetches  BY Legs DEF OpInv
<1>2. Landing(Pulled(c))  BY <1>1 DEF OpInv, LandInv
<1>3. landed[Pulled(c)] # <<>> => status[Pulled(c)] # "unknown"  BY <1>2 DEF Landing
<1>4. landed[Pulled(c)] # <<>> => crossed \/ landed[Pulled(c)] = <<Body(Tool(c).file)>>
  BY <1>1, <1>2, <1>3 DEF Landing, PushRight
<1>5. /\ told[c] = "transfer failed" => landed[Pulled(c)] = <<>>
      /\ told[c] = "failed" /\ landed[Pulled(c)] # <<>> => <<c, 2>> \in unheard
  BY <1>1, <1>3 DEF PushRight, PullOver, NoPull
<1> QED  BY <1>1, <1>4, <1>5 DEF PushRight

\* push_file (crates/mcp): "pushed" means that the staged file was renamed to the
\* destination, whole unless two pulls shared one `.part`; "transfer failed" means that this
\* pull changed nothing there, and never will; so does "push failed", unless the request
\* for the pull ran on the device and its answer was lost on the way to the hub.
THEOREM PushesToldRight == Spec => []PushTold
BY OpAlways, PushFromRight, PTL
===============================================================================
