-------------------------------- MODULE Files --------------------------------
(* The agent's file endpoints (crates/agent/src/http.rs) for one destination: *)
(* /upload, which writes the file in place; /fetch-file, which starts a       *)
(* thread that pulls a staged file into `<dest>.part` and renames it; and     *)
(* /file-status. A file is an inode, since a writer keeps writing to the one  *)
(* it opened whatever becomes of its name. A block is the file it comes from; *)
(* its place in the sequence is its place in the file.                        *)
EXTENDS Naturals, Sequences, FiniteSets

CONSTANTS
    Fetches,    \* fetch jobs ever started, by the name the hub gives them
    Uploads,    \* uploads ever served
    FileNames,  \* files of the operator's
    Size,       \* per file, its blocks
    Bad,        \* a block that was damaged on the way
    Hole        \* a block nobody wrote

ASSUME FilesConstantsOK ==
    /\ IsFiniteSet(Fetches) /\ IsFiniteSet(Uploads)
    /\ Size \in [FileNames -> Nat \ {0}]
    /\ Bad \notin FileNames /\ Hole \notin FileNames

VARIABLES
    folder,     \* the directory asked for, and whether a share is configured
    disk,       \* per inode, its blocks
    dest, part, \* the inodes `<dest>` and `<dest>.part` name, 0 for none
    fetch,      \* per job, its thread
    status,     \* per job, its FetchStatus in fetch_jobs()
    upload,     \* per upload, the request that writes it
    carries,    \* per writer, the file it carries
    faults,     \* bound: failures left
    landed,     \* history: per job, none or what it renamed to `<dest>`
    crossed     \* history: two writers met in one file, or a writer in place
                \* was cut off

names == <<disk, dest, part>>
files == <<folder, names, fetch, status, upload, carries, faults, landed, crossed>>

Inodes  == 1 .. Cardinality(Fetches) + Cardinality(Uploads) + 1
Body(f) == [i \in 1 .. Size[f] |-> f]
Blocks  == FileNames \cup {Bad, Hole}

Idle   == [pc |-> "none", fd |-> 0, at |-> 0, bad |-> FALSE]
Closed == [pc |-> "none", fd |-> 0, at |-> 0]

OpenFds == {fetch[j].fd : j \in Fetches} \cup {upload[u].fd : u \in Uploads}
Free    == CHOOSE i \in Inodes : i \notin OpenFds \cup {dest, part}

(* File::create: the inode the name has, or a new one, empty.                *)
Create(name) ==
    LET i == IF name = 0 THEN Free ELSE name
    IN [inode |-> i, disk |-> [disk EXCEPT ![i] = <<>>]]

(* write_all at the writer's own offset; what lies before it and was cut off *)
(* by another File::create reads as a hole.                                  *)
WriteAt(i, k, b) ==
    LET old == disk[i]
        len == IF Len(old) < k THEN k ELSE Len(old)
    IN [disk EXCEPT ![i] =
            [n \in 1 .. len |-> IF n = k THEN b ELSE IF n <= Len(old) THEN old[n] ELSE Hole]]

-----------------------------------------------------------------------------
(* The destination                                                           *)

(* What resolve_path and the handlers tell apart in a directory: `under` says *)
(* that it is, links followed, inside the share; `there` that it exists.     *)
Paths == [absolute : BOOLEAN, dotdot : BOOLEAN, under : BOOLEAN, there : BOOLEAN]

\* No directory is asked for: the home directory, or the share by its own path.
Default == [absolute |-> TRUE, dotdot |-> FALSE, under |-> TRUE, there |-> TRUE]

Folders == [share : BOOLEAN, dir : Paths]

(* resolve_path: with a share, a relative path inside it; without, any that  *)
(* has no `..`.                                                              *)
ResolvePath ==
    /\ ~folder.dir.dotdot
    /\ folder.share => ~folder.dir.absolute /\ folder.dir.under

-----------------------------------------------------------------------------
(* /fetch-file                                                               *)

(* The destination is inside the allowed root: the job is recorded and its   *)
(* thread is spawned. `f` is the staged file behind the url and its sha256.  *)
FetchFile(j, f) ==
    /\ ResolvePath
    /\ fetch[j].pc = "none" /\ status[j] = "unknown"
    /\ fetch' = [fetch EXCEPT ![j].pc = "get"]
    /\ status' = [status EXCEPT ![j] = "fetching"]
    /\ carries' = [carries EXCEPT ![j] = f]
    /\ UNCHANGED <<folder, names, upload, faults, landed, crossed>>

FetchEnds(j, how) == fetch' = [fetch EXCEPT ![j] = [Idle EXCEPT !.pc = how]]

\* Mutant: the bytes go to the final path.
GetInPlace(j) ==
    LET c == Create(dest) IN
    /\ fetch[j].pc = "get" /\ folder.dir.there
    /\ fetch' = [fetch EXCEPT ![j].pc = "body", ![j].fd = c.inode]
    /\ disk' = c.disk
    /\ dest' = c.inode
    /\ part' = c.inode
    /\ crossed' = (crossed \/ \E i \in Fetches : fetch[i].pc = "body")
    /\ UNCHANGED <<folder, status, upload, carries, faults, landed>>

(* The GET is answered and `<dest>.part` is created, or emptied.             *)
Get(j) ==
    LET c == Create(part) IN
    /\ fetch[j].pc = "get" /\ folder.dir.there
    /\ fetch' = [fetch EXCEPT ![j].pc = "body", ![j].fd = c.inode]
    /\ disk' = c.disk
    /\ part' = c.inode
    /\ crossed' = (crossed \/ \E i \in Fetches : fetch[i].pc = "body")
    /\ UNCHANGED <<folder, dest, status, upload, carries, faults, landed>>

(* One read and one write of the loop; the bytes may arrive damaged.         *)
Receive(j) ==
    /\ fetch[j].pc = "body"
    /\ fetch[j].at < Size[carries[j]]
    /\ \E b \in {carries[j]} \cup (IF faults > 0 THEN {Bad} ELSE {}) :
          /\ disk' = WriteAt(fetch[j].fd, fetch[j].at + 1, b)
          /\ fetch' = [fetch EXCEPT ![j].at = @ + 1, ![j].bad = @ \/ b = Bad]
          /\ faults' = IF b = Bad THEN faults - 1 ELSE faults
    /\ UNCHANGED <<folder, dest, part, status, upload, carries, landed, crossed>>

(* The GET, the create, a read or a write fails: `<dest>.part` stays.        *)
FetchFails(j) ==
    /\ \/ /\ fetch[j].pc \in {"get", "body"}
          /\ faults > 0
          /\ faults' = faults - 1
       \/ /\ fetch[j].pc = "get" /\ ~folder.dir.there
          /\ UNCHANGED faults
    /\ FetchEnds(j, "failed")
    /\ UNCHANGED <<folder, names, status, upload, carries, landed, crossed>>

\* Mutant: the sum is not compared.
SumIgnored(j) == TRUE

(* The sum is of the bytes this thread received, not of the file.            *)
SumFits(j) == ~fetch[j].bad

(* The end of the body: the sum decides whether the file is removed or       *)
(* renamed; both go by the name, whoever made the file that has it now.      *)
FetchLands(j) ==
    /\ fetch[j].pc = "body"
    /\ fetch[j].at = Size[carries[j]]
    /\ \/ /\ ~SumFits(j)
          /\ part' = 0
          /\ FetchEnds(j, "failed")
          /\ UNCHANGED <<dest, landed>>
       \/ /\ SumFits(j) /\ part # 0
          /\ dest' = part
          /\ part' = 0
          /\ landed' = [landed EXCEPT ![j] = <<disk[part]>>]
          /\ FetchEnds(j, "ok")
       \/ /\ SumFits(j) /\ part = 0
          /\ FetchEnds(j, "failed")
          /\ UNCHANGED <<dest, part, landed>>
    /\ UNCHANGED <<folder, disk, status, upload, carries, faults, crossed>>

(* ... and the thread reports it.                                            *)
FetchReports(j) ==
    /\ fetch[j].pc \in {"ok", "failed"}
    /\ status' = [status EXCEPT ![j] = fetch[j].pc]
    /\ fetch' = [fetch EXCEPT ![j] = Idle]
    /\ UNCHANGED <<folder, names, upload, carries, faults, landed, crossed>>

-----------------------------------------------------------------------------
(* /upload: std::fs::write of the body, in the request's own thread          *)

UpOpen(u, f) ==
    LET c == Create(dest) IN
    /\ ResolvePath /\ folder.dir.there
    /\ upload[u].pc = "none"
    /\ upload' = [upload EXCEPT ![u] = [pc |-> "write", fd |-> c.inode, at |-> 0]]
    /\ carries' = [carries EXCEPT ![u] = f]
    /\ disk' = c.disk
    /\ dest' = c.inode
    /\ crossed' = (crossed \/ \E v \in Uploads : upload[v].pc = "write")
    /\ UNCHANGED <<folder, part, fetch, status, faults, landed>>

UpWrite(u) ==
    /\ upload[u].pc = "write"
    /\ upload[u].at < Size[carries[u]]
    /\ disk' = WriteAt(upload[u].fd, upload[u].at + 1, carries[u])
    /\ upload' = [upload EXCEPT ![u].at = @ + 1]
    /\ UNCHANGED <<folder, dest, part, fetch, status, carries, faults, landed, crossed>>

(* The last byte is written, or a write failed and what is there stays.      *)
UpEnds(u, how) ==
    /\ upload[u].pc = "write"
    /\ \/ /\ how = "ok" /\ upload[u].at = Size[carries[u]]
          /\ UNCHANGED <<faults, crossed>>
       \/ /\ how = "failed" /\ faults > 0
          /\ faults' = faults - 1
          /\ crossed' = TRUE
    /\ upload' = [upload EXCEPT ![u] = [Closed EXCEPT !.pc = how]]
    /\ UNCHANGED <<folder, names, fetch, status, carries, landed>>

-----------------------------------------------------------------------------
(* The agent ends and starts again: no thread, no fetch_jobs(); the files    *)
(* are as they were.                                                         *)
FilesRestart ==
    /\ fetch' = [j \in Fetches |-> Idle]
    /\ status' = [j \in Fetches |-> IF fetch[j].pc = "none" /\ status[j] = "unknown"
                                    THEN "unknown" ELSE "lost"]
    /\ upload' = [u \in Uploads |-> IF upload[u].pc = "write" THEN [Closed EXCEPT !.pc = "failed"]
                                    ELSE upload[u]]
    /\ crossed' = (crossed \/ \E u \in Uploads : upload[u].pc = "write")
    /\ UNCHANGED <<folder, names, carries, faults, landed>>

(* What GET /file-status says of a job: a job that is not in the map is not  *)
(* done, as one that is fetched is not.                                      *)
FileStatus(j) == IF status[j] \in {"ok", "failed"} THEN status[j] ELSE "open"

-----------------------------------------------------------------------------
FilesInit ==
    /\ disk = [i \in Inodes |-> <<>>]
    /\ dest = 0 /\ part = 0
    /\ fetch = [j \in Fetches |-> Idle]
    /\ status = [j \in Fetches |-> "unknown"]
    /\ upload = [u \in Uploads |-> Closed]
    /\ carries = [w \in Fetches \cup Uploads |-> "none"]
    /\ landed = [j \in Fetches |-> <<>>]
    /\ crossed = FALSE

(* A step of the agent's own threads; a request served starts the others.    *)
FetchStep(j) == Get(j) \/ Receive(j) \/ FetchFails(j) \/ FetchLands(j) \/ FetchReports(j)

(* Every variable has its type. *)
FilesTypeOK ==
    /\ disk \in [Inodes -> Seq(Blocks)]
    /\ folder \in Folders
    /\ {dest, part} \subseteq Inodes \cup {0}
    /\ fetch \in [Fetches -> [pc : {"none", "get", "body", "ok", "failed"},
                              fd : Inodes \cup {0}, at : Nat, bad : BOOLEAN]]
    /\ status \in [Fetches -> {"unknown", "fetching", "ok", "failed", "lost"}]
    /\ upload \in [Uploads -> [pc : {"none", "write", "ok", "failed"},
                               fd : Inodes \cup {0}, at : Nat]]
    /\ carries \in [Fetches \cup Uploads -> FileNames \cup {"none"}]
    /\ landed \in [Fetches -> Seq(Seq(Blocks))]
    /\ crossed \in BOOLEAN /\ faults \in Nat

(* At rest the destination is one of the operator's files from end to end,   *)
(* or nothing: a pull that is cut off, damaged, refused or restarted leaves  *)
(* what was there. Only two writers in one file, or a write in place that    *)
(* was cut off, may leave anything else.                                     *)
RestIsWhole ==
    ~crossed /\ dest # 0 /\ (\A u \in Uploads : upload[u].pc # "write")
    => \E f \in FileNames : disk[dest] = Body(f)

(* "a partial or corrupt download never lands at the final path": what a     *)
(* pull renames to the destination is the staged file.                       *)
LandsWhole == \A j \in Fetches : landed[j] # <<>> => landed[j] = <<Body(carries[j])>>
===============================================================================
