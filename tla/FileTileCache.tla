--------------------------- MODULE FileTileCache ---------------------------
(***************************************************************************)
(* FileTileCache: a file per tile, written under a temporary name and      *)
(* renamed, so that whoever opens a tile's file finds a whole one. Each    *)
(* step is one operation of the file system. A file is an inode: names     *)
(* lead to it, and a process that holds it open keeps it whatever happens  *)
(* to the names. Any operation may fail, and the process may die between   *)
(* any two; what it had written by then stays, temporary files included,   *)
(* for nothing ever removes those. A loss of power, which may also lose    *)
(* data that was never synced, is not modelled.                            *)
(***************************************************************************)
EXTENDS Naturals

CONSTANTS
  Tiles, Callers, Contents,
  Inodes,     \* bound: the files the disk has room for
  Nonces,     \* bound: the nanoseconds that name temporary files
  Chunks,     \* the writes it takes to write a tile
  NoFile

ASSUME StoreAssumption ==
  /\ Chunks \in Nat \ {0}
  /\ NoFile \notin Inodes
  /\ {"none", "torn", "ok", "error"} \cap Contents = {}

VARIABLES
  tileFile,   \* [Tiles -> inode named z/x/y.tile, or NoFile]
  tempFile,   \* [Tiles -> [Nonces -> inode named z/x/y.nonce.tmp, or NoFile]]
  data,       \* [Inodes -> the bytes meant for it and how many are written]
  calls       \* the calls that are running

storeVars == <<tileFile, tempFile, data, calls>>

(* Where a call is: before the named operation, or with an answer.         *)
Idle == [op |-> "idle"]
Answer(value) == [op |-> "answer", value |-> value]
Request ==
  [op : {"open", "unlink"}, id : Tiles]
  \cup [op : {"create"}, id : Tiles, bytes : Contents]
Running ==
  [op : {"read"}, inode : Inodes]
  \cup [op : {"write", "rename"}, id : Tiles, bytes : Contents,
        nonce : Nonces, inode : Inodes]
Value == Contents \cup {"none", "torn", "ok", "error"}

StoreTypeOK ==
  /\ tileFile \in [Tiles -> Inodes \cup {NoFile}]
  /\ tempFile \in [Tiles -> [Nonces -> Inodes \cup {NoFile}]]
  /\ data \in [Inodes -> [bytes : Contents, written : 0..Chunks]]
  /\ calls \in [Callers -> {Idle} \cup Request \cup Running
                           \cup [op : {"answer"}, value : Value]]

(* What reading the inode gives: the tile's bytes, or fewer.               *)
Bytes(i) == IF data[i].written = Chunks THEN data[i].bytes ELSE "torn"

Stored(t) == IF tileFile[t] = NoFile THEN "none" ELSE Bytes(tileFile[t])

Writing(c) == calls[c].op \in {"write", "rename"}

(* An inode that no name and no process refers to.                         *)
Unused(i) ==
  /\ \A t \in Tiles : tileFile[t] # i /\ \A n \in Nonces : tempFile[t][n] # i
  /\ \A c \in Callers : calls[c].op \in {"read", "write", "rename"} =>
                          calls[c].inode # i

(* The tiles that earlier runs of the app have left, each in a file.       *)
StoreInit ==
  /\ tileFile \in [Tiles -> Inodes \cup {NoFile}]
  /\ \A t, u \in Tiles : tileFile[t] = tileFile[u] => t = u \/ tileFile[t] = NoFile
  /\ tempFile = [t \in Tiles |-> [n \in Nonces |-> NoFile]]
  /\ data \in [Inodes -> [bytes : Contents, written : {Chunks}]]
  /\ calls = [c \in Callers |-> Idle]

Continue(c, call) == calls' = [calls EXCEPT ![c] = call]

Begin(c, request) ==
  /\ calls[c] = Idle
  /\ Continue(c, request)
  /\ UNCHANGED <<tileFile, tempFile, data>>

End(c) ==
  /\ calls[c].op = "answer"
  /\ Continue(c, Idle)
  /\ UNCHANGED <<tileFile, tempFile, data>>

(* get: a missing file is no error. What is opened is then read.           *)
Open(c) ==
  /\ calls[c].op = "open"
  /\ LET file == tileFile[calls[c].id] IN
     Continue(c, IF file = NoFile THEN Answer("none")
                 ELSE [op |-> "read", inode |-> file])
  /\ UNCHANGED <<tileFile, tempFile, data>>

Read(c) ==
  /\ calls[c].op = "read"
  /\ Continue(c, Answer(Bytes(calls[c].inode)))
  /\ UNCHANGED <<tileFile, tempFile, data>>

(* Mutant of FreshNonce: a temporary file is named after the tile only.    *)
AnyNonce(c, n) == TRUE

(* put. The nonce is the clock's nanoseconds: two puts of a tile that run  *)
(* at the same time are taken to differ in it. A temporary file that was   *)
(* left behind under that name is truncated.                               *)
FreshNonce(c, n) ==
  \A d \in Callers \ {c} : ~(Writing(d) /\ calls[d].id = calls[c].id
                                        /\ calls[d].nonce = n)

Create(c) ==
  /\ calls[c].op = "create"
  /\ \E n \in Nonces, i \in Inodes :
     LET call == calls[c] left == tempFile[call.id][n] IN
     /\ FreshNonce(c, n)
     /\ IF left = NoFile THEN Unused(i) ELSE i = left
     /\ tempFile' = [tempFile EXCEPT ![call.id][n] = i]
     /\ data' = [data EXCEPT ![i] = [bytes |-> call.bytes, written |-> 0]]
     /\ Continue(c, [op |-> "write", id |-> call.id, bytes |-> call.bytes,
                     nonce |-> n, inode |-> i])
  /\ UNCHANGED tileFile

(* Mutant of WriteChunk: the rest is left to be written after the rename.  *)
WriteSome(c) ==
  /\ calls[c].op = "write"
  /\ data' = [data EXCEPT ![calls[c].inode].written = 1]
  /\ Continue(c, [calls[c] EXCEPT !.op = "rename"])
  /\ UNCHANGED <<tileFile, tempFile>>

WriteChunk(c) ==
  /\ calls[c].op = "write"
  /\ LET i == calls[c].inode
         written == data[i].written + 1 IN
     /\ written <= Chunks
     /\ data' = [data EXCEPT ![i].written = written]
     /\ Continue(c, IF written = Chunks
                    THEN [calls[c] EXCEPT !.op = "rename"] ELSE calls[c])
  /\ UNCHANGED <<tileFile, tempFile>>

(* The rename replaces the tile's file, if there is one, in one step.      *)
Rename(c) ==
  /\ calls[c].op = "rename"
  /\ LET t == calls[c].id n == calls[c].nonce IN
     IF tempFile[t][n] = NoFile
     THEN Continue(c, Answer("error")) /\ UNCHANGED <<tileFile, tempFile>>
     ELSE /\ tileFile' = [tileFile EXCEPT ![t] = tempFile[t][n]]
          /\ tempFile' = [tempFile EXCEPT ![t][n] = NoFile]
          /\ Continue(c, Answer("ok"))
  /\ UNCHANGED data

(* remove: a file that is gone already is no error.                        *)
Unlink(c) ==
  /\ calls[c].op = "unlink"
  /\ tileFile' = [tileFile EXCEPT ![calls[c].id] = NoFile]
  /\ Continue(c, Answer("ok"))
  /\ UNCHANGED <<tempFile, data>>

(* An operation fails; the temporary file of a put stays where it is. What *)
(* has been opened can still fail to be read.                              *)
OperationFails(c) ==
  /\ calls[c].op \notin {"idle", "answer"}
  /\ Continue(c, Answer("error"))
  /\ UNCHANGED <<tileFile, tempFile, data>>

Dies ==
  /\ calls' = [c \in Callers |-> Idle]
  /\ UNCHANGED <<tileFile, tempFile, data>>

CallStep(c) ==
  \/ Open(c) \/ Read(c) \/ Create(c) \/ WriteChunk(c) \/ Rename(c) \/ Unlink(c)

StoreNext ==
  \/ \E c \in Callers :
       \/ \E request \in Request : Begin(c, request)
       \/ CallStep(c) \/ OperationFails(c) \/ End(c)
  \/ Dies

StoreSpec == StoreInit /\ [][StoreNext]_storeVars

---------------------------------------------------------------------------
(* A tile's file, and every file that is open for reading, is whole, and   *)
(* no put is writing to it any more.                                       *)
ReadableFilesWhole ==
  \A i \in Inodes :
    (\/ \E t \in Tiles : tileFile[t] = i
     \/ \E c \in Callers : calls[c].op = "read" /\ calls[c].inode = i)
    => data[i].written = Chunks /\ \A c \in Callers :
                                     Writing(c) => calls[c].inode # i

(* Every call is atomic to its caller: a get has its effect when it opens  *)
(* the file, a put when it renames, a remove when it unlinks.              *)
AbstractCall(call) ==
  CASE call.op = "open" -> [op |-> "get", id |-> call.id]
    [] call.op = "unlink" -> [op |-> "remove", id |-> call.id]
    [] call.op \in {"create", "write", "rename"} ->
         [op |-> "put", id |-> call.id, bytes |-> call.bytes]
    [] call.op = "read" -> Answer(Bytes(call.inode))
    [] OTHER -> call

Cache == INSTANCE AtomicTileCache WITH
  stored <- [t \in Tiles |-> Stored(t)],
  calls <- [c \in Callers |-> AbstractCall(calls[c])]

CacheIsAtomic == Cache!Spec
===========================================================================
