------------------------ MODULE FileTileCacheProofs ------------------------
(***************************************************************************)
(* Proofs about the tile cache and the source on top of it, for any number *)
(* of tiles, callers, files, nonces and writes: what may be read is whole, *)
(* the cache is atomic, and no load gives a tile that was half written.    *)
(***************************************************************************)
EXTENDS CachedTileSource, TLAPS

---------------------------------------------------------------------------
(* The inductive invariant.                                                *)

(* No file has two names.                                                  *)
NamesDistinct ==
  /\ \A t, u \in Tiles :
       tileFile[t] # NoFile /\ tileFile[t] = tileFile[u] => t = u
  /\ \A t, u \in Tiles : \A n, m \in Nonces :
       tempFile[t][n] # NoFile /\ tempFile[t][n] = tempFile[u][m]
         => t = u /\ n = m
  /\ \A t, u \in Tiles : \A n \in Nonces :
       tileFile[t] # NoFile => tileFile[t] # tempFile[u][n]

(* A put writes to the file it has created, which nobody renames before it *)
(* is whole; no two puts of a tile have the same nonce.                    *)
WritersOwn ==
  \A c \in Callers :
    Writing(c) =>
      /\ tempFile[calls[c].id][calls[c].nonce] = calls[c].inode
      /\ data[calls[c].inode].bytes = calls[c].bytes
      /\ calls[c].op = "rename" => data[calls[c].inode].written = Chunks
      /\ \A d \in Callers : Writing(d) /\ calls[d].id = calls[c].id
                              /\ calls[d].nonce = calls[c].nonce => d = c

(* Tiles and files that are being read are whole and no temporary files.   *)
TilesWhole ==
  \A t \in Tiles : tileFile[t] # NoFile => data[tileFile[t]].written = Chunks

ReadersWhole ==
  \A c \in Callers :
    calls[c].op = "read" =>
      /\ data[calls[c].inode].written = Chunks
      /\ \A t \in Tiles, n \in Nonces : tempFile[t][n] # calls[c].inode

StoreInv ==
  /\ StoreTypeOK
  /\ NamesDistinct
  /\ WritersOwn
  /\ TilesWhole
  /\ ReadersWhole

(* What the type of a call says about its fields.                          *)
LEMMA CallFields ==
  ASSUME StoreTypeOK, NEW c \in Callers
  PROVE  /\ calls[c].op \in {"open", "unlink"} =>
              /\ calls[c].id \in Tiles
              /\ calls[c] \in [op : {"open", "unlink"}, id : Tiles]
         /\ calls[c].op = "create" =>
              /\ calls[c].id \in Tiles /\ calls[c].bytes \in Contents
              /\ calls[c] \in [op : {"create"}, id : Tiles, bytes : Contents]
         /\ calls[c].op = "read" =>
              /\ calls[c].inode \in Inodes
              /\ calls[c] \in [op : {"read"}, inode : Inodes]
         /\ Writing(c) =>
              /\ calls[c].id \in Tiles /\ calls[c].bytes \in Contents
              /\ calls[c].nonce \in Nonces /\ calls[c].inode \in Inodes
              /\ calls[c] \in [op : {"write", "rename"}, id : Tiles,
                               bytes : Contents, nonce : Nonces, inode : Inodes]
         /\ calls[c].op = "answer" =>
              /\ calls[c].value \in Value
              /\ calls[c] = Answer(calls[c].value)
         /\ calls[c].op = "idle" => calls[c] = Idle
         /\ calls[c].op \in {"idle", "open", "unlink", "create", "read",
                             "write", "rename", "answer"}
  BY DEF StoreTypeOK, Idle, Request, Running, Writing, Answer

(* A file that may be read is whole, and nobody writes to it any more.     *)
LEMMA StoreInvWhole ==
  ASSUME StoreInv
  PROVE  ReadableFilesWhole
  <1> USE DEF StoreInv
  <1> SUFFICES ASSUME NEW i \in Inodes,
                      \/ \E t \in Tiles : tileFile[t] = i
                      \/ \E c \in Callers : calls[c].op = "read"
                                              /\ calls[c].inode = i
               PROVE  /\ data[i].written = Chunks
                      /\ \A c \in Callers : Writing(c) => calls[c].inode # i
    BY DEF ReadableFilesWhole
  <1>1. \A c \in Callers : Writing(c) =>
          \E t \in Tiles, n \in Nonces : tempFile[t][n] = calls[c].inode
    BY CallFields DEF WritersOwn
  <1>2. CASE \E t \in Tiles : tileFile[t] = i
    BY <1>1, <1>2, StoreAssumption DEF TilesWhole, NamesDistinct
  <1>3. CASE \E c \in Callers : calls[c].op = "read" /\ calls[c].inode = i
    BY <1>1, <1>3 DEF ReadersWhole
  <1> QED
    BY <1>2, <1>3

---------------------------------------------------------------------------
(* The invariant holds at first, and every step keeps it.                  *)

LEMMA StoreInitInv == StoreInit => StoreInv
  <1> SUFFICES ASSUME StoreInit PROVE StoreInv
    OBVIOUS
  <1>1. StoreTypeOK
    BY StoreAssumption DEF StoreInit, StoreTypeOK
  <1>2. NamesDistinct
    BY DEF StoreInit, NamesDistinct
  <1>3. WritersOwn /\ ReadersWhole
    BY DEF StoreInit, WritersOwn, ReadersWhole, Writing, Idle
  <1>4. TilesWhole
    BY DEF StoreInit, TilesWhole
  <1> QED
    BY <1>1, <1>2, <1>3, <1>4 DEF StoreInv

(* A call that neither holds a file before nor after a step.               *)
Quiet == {Idle} \cup Request \cup [op : {"answer"}, value : Value]

LEMMA QuietOps ==
  ASSUME NEW call \in Quiet
  PROVE  call.op \in {"idle", "open", "unlink", "create", "answer"}
  BY DEF Quiet, Idle, Request

(* A call may turn to anything that holds no file, if no file changes.     *)
LEMMA QuietKeeps ==
  ASSUME StoreInv, NEW c \in Callers, NEW call \in Quiet, Continue(c, call),
         UNCHANGED <<tileFile, tempFile, data>>
  PROVE  StoreInv'
  <1> USE DEF StoreInv
  <1>1. /\ calls'[c] = call
        /\ \A d \in Callers \ {c} : calls'[d] = calls[d]
    BY DEF StoreTypeOK, Continue
  <1>2. call.op \notin {"read", "write", "rename"}
    BY QuietOps
  <1>3. StoreTypeOK'
    BY DEF StoreTypeOK, Continue, Quiet
  <1>4. NamesDistinct' /\ TilesWhole'
    BY DEF NamesDistinct, TilesWhole
  <1>5. WritersOwn'
    BY <1>1, <1>2 DEF WritersOwn, Writing
  <1>6. ReadersWhole'
    BY <1>1, <1>2 DEF ReadersWhole
  <1> QED
    BY <1>3, <1>4, <1>5, <1>6

(* What a read gives is a value of the cache's.                            *)
LEMMA BytesTyped ==
  ASSUME StoreTypeOK, NEW i \in Inodes
  PROVE  Bytes(i) \in Value
  BY DEF StoreTypeOK, Bytes, Value

LEMMA OpenKeeps ==
  ASSUME StoreInv, NEW c \in Callers, Open(c)
  PROVE  StoreInv'
  <1> USE DEF StoreInv
  <1> DEFINE file == tileFile[calls[c].id]
  <1>1. calls[c].id \in Tiles
    BY CallFields DEF Open
  <1>2. CASE file = NoFile
    <2>1. Answer("none") \in Quiet
      BY DEF Answer, Quiet, Value
    <2> QED
      BY <1>2, <2>1, QuietKeeps DEF Open
  <1>3. CASE file # NoFile
    <2> DEFINE call == [op |-> "read", inode |-> file]
    <2>1. file \in Inodes
      BY <1>1, <1>3 DEF StoreTypeOK
    <2>2. /\ Continue(c, call)
          /\ UNCHANGED <<tileFile, tempFile, data>>
      BY <1>3 DEF Open
    <2>3. /\ calls'[c] = call
          /\ \A d \in Callers \ {c} : calls'[d] = calls[d]
      BY <2>2 DEF StoreTypeOK, Continue
    <2>4. StoreTypeOK'
      <3>1. call \in Running
        BY <2>1 DEF Running
      <3> QED
        BY <2>2, <3>1 DEF StoreTypeOK, Continue
    <2>5. NamesDistinct' /\ TilesWhole'
      BY <2>2 DEF NamesDistinct, TilesWhole
    <2>6. WritersOwn'
      BY <2>2, <2>3 DEF WritersOwn, Writing
    <2>7. ReadersWhole'
      BY <1>1, <1>3, <2>2, <2>3 DEF ReadersWhole, TilesWhole, NamesDistinct
    <2> QED
      BY <2>4, <2>5, <2>6, <2>7
  <1> QED
    BY <1>2, <1>3

LEMMA CreateKeeps ==
  ASSUME StoreInv, NEW c \in Callers, Create(c)
  PROVE  StoreInv'
  <1> USE DEF StoreInv
  <1> DEFINE t == calls[c].id
             bytes == calls[c].bytes
  <1>1. t \in Tiles /\ bytes \in Contents
    BY CallFields DEF Create
  <1>2. PICK n \in Nonces, i \in Inodes :
          /\ FreshNonce(c, n)
          /\ IF tempFile[t][n] = NoFile THEN Unused(i) ELSE i = tempFile[t][n]
          /\ tempFile' = [tempFile EXCEPT ![t][n] = i]
          /\ data' = [data EXCEPT ![i] = [bytes |-> bytes, written |-> 0]]
          /\ Continue(c, [op |-> "write", id |-> t, bytes |-> bytes,
                          nonce |-> n, inode |-> i])
          /\ tileFile' = tileFile
    BY DEF Create
  <1> DEFINE call == [op |-> "write", id |-> t, bytes |-> bytes,
                      nonce |-> n, inode |-> i]
  <1>3. /\ calls'[c] = call
        /\ \A d \in Callers \ {c} : calls'[d] = calls[d]
    BY <1>2 DEF StoreTypeOK, Continue
  <1>4. /\ \A u \in Tiles, m \in Nonces :
            tempFile'[u][m] = IF u = t /\ m = n THEN i ELSE tempFile[u][m]
        /\ \A j \in Inodes :
            data'[j] = IF j = i THEN [bytes |-> bytes, written |-> 0] ELSE data[j]
        /\ tileFile' = tileFile
    BY <1>1, <1>2 DEF StoreTypeOK
  <1>5. /\ \A u \in Tiles : tileFile[u] # i
        /\ \A u \in Tiles, m \in Nonces : tempFile[u][m] = i => u = t /\ m = n
    BY <1>1, <1>2, StoreAssumption DEF Unused, NamesDistinct
  <1>6. \A d \in Callers : calls[d].op = "read" => calls[d].inode # i
    BY <1>1, <1>2 DEF Unused, ReadersWhole
  <1>7. \A d \in Callers \ {c} : Writing(d) =>
          /\ calls[d].inode # i
          /\ ~(calls[d].id = t /\ calls[d].nonce = n)
    <2> SUFFICES ASSUME NEW d \in Callers \ {c}, Writing(d)
                 PROVE  /\ calls[d].inode # i
                        /\ ~(calls[d].id = t /\ calls[d].nonce = n)
      OBVIOUS
    <2>1. ~(calls[d].id = t /\ calls[d].nonce = n)
      BY <1>2 DEF FreshNonce
    <2>2. /\ calls[d].id \in Tiles /\ calls[d].nonce \in Nonces
          /\ tempFile[calls[d].id][calls[d].nonce] = calls[d].inode
      BY CallFields DEF WritersOwn
    <2> QED
      BY <1>5, <2>1, <2>2
  <1>8. StoreTypeOK'
    <2>1. tempFile' \in [Tiles -> [Nonces -> Inodes \cup {NoFile}]]
      BY <1>2 DEF StoreTypeOK
    <2>2. data' \in [Inodes -> [bytes : Contents, written : 0..Chunks]]
      BY <1>1, <1>2, StoreAssumption DEF StoreTypeOK
    <2>3. call \in Running
      BY <1>1, <1>2 DEF Running
    <2>4. calls' \in [Callers -> {Idle} \cup Request \cup Running
                           \cup [op : {"answer"}, value : Value]]
      BY <1>2, <2>3 DEF StoreTypeOK, Continue
    <2> QED
      BY <1>4, <2>1, <2>2, <2>4 DEF StoreTypeOK
  <1>9. NamesDistinct'
    BY <1>4, <1>5 DEF NamesDistinct
  <1>10. TilesWhole'
    <2>1. \A u \in Tiles : tileFile[u] # NoFile => tileFile[u] \in Inodes
      BY DEF StoreTypeOK
    <2> QED
      BY <1>4, <1>5, <2>1 DEF TilesWhole
  <1>11. ReadersWhole'
    <2>1. \A d \in Callers : calls[d].op = "read" => calls[d].inode \in Inodes
      BY CallFields
    <2> QED
      BY <1>3, <1>4, <1>6, <2>1 DEF ReadersWhole
  <1>12. WritersOwn'
    <2>1. \A d \in Callers \ {c} : Writing(d) =>
            /\ calls[d].id \in Tiles /\ calls[d].nonce \in Nonces
            /\ calls[d].inode \in Inodes
      BY CallFields
    <2>2. \A d \in Callers \ {c} : Writing(d)' = Writing(d)
      BY <1>3 DEF Writing
    <2> SUFFICES ASSUME NEW d \in Callers, Writing(d)'
                 PROVE  /\ tempFile'[calls'[d].id][calls'[d].nonce] = calls'[d].inode
                        /\ data'[calls'[d].inode].bytes = calls'[d].bytes
                        /\ calls'[d].op = "rename" =>
                             data'[calls'[d].inode].written = Chunks
                        /\ \A e \in Callers :
                             Writing(e)' /\ calls'[e].id = calls'[d].id
                               /\ calls'[e].nonce = calls'[d].nonce => e = d
      BY DEF WritersOwn
    <2>3. CASE d = c
      BY <1>1, <1>2, <1>3, <1>4, <1>7, <2>2, <2>3
    <2>4. CASE d # c
      BY <1>3, <1>4, <1>7, <2>1, <2>2, <2>4 DEF WritersOwn
    <2> QED
      BY <2>3, <2>4
  <1> QED
    BY <1>8, <1>9, <1>10, <1>11, <1>12

LEMMA WriteChunkKeeps ==
  ASSUME StoreInv, NEW c \in Callers, WriteChunk(c)
  PROVE  StoreInv'
  <1> USE DEF StoreInv
  <1> DEFINE i == calls[c].inode
             n == data[i].written + 1
             call == IF n = Chunks THEN [calls[c] EXCEPT !.op = "rename"]
                     ELSE calls[c]
  <1>1. /\ Writing(c) /\ calls[c].op = "write"
        /\ i \in Inodes /\ calls[c].id \in Tiles /\ calls[c].nonce \in Nonces
        /\ calls[c] \in [op : {"write", "rename"}, id : Tiles, bytes : Contents,
                         nonce : Nonces, inode : Inodes]
    BY CallFields DEF WriteChunk, Writing
  <1>2. /\ n <= Chunks
        /\ data' = [data EXCEPT ![i].written = n]
        /\ Continue(c, call)
        /\ UNCHANGED <<tileFile, tempFile>>
    BY DEF WriteChunk
  <1>3. /\ data[i].written \in Nat /\ n \in 0..Chunks
        /\ data[i] \in [bytes : Contents, written : 0..Chunks]
    BY <1>1, <1>2, StoreAssumption DEF StoreTypeOK
  <1>4. /\ call \in Running
        /\ call.op = IF n = Chunks THEN "rename" ELSE "write"
        /\ call.id = calls[c].id /\ call.nonce = calls[c].nonce
        /\ call.inode = i /\ call.bytes = calls[c].bytes
    BY <1>1 DEF Running
  <1>5. /\ calls'[c] = call
        /\ \A d \in Callers \ {c} : calls'[d] = calls[d]
    BY <1>2 DEF StoreTypeOK, Continue
  <1>6. /\ data'[i].written = n /\ data'[i].bytes = data[i].bytes
        /\ \A j \in Inodes \ {i} : data'[j] = data[j]
    BY <1>1, <1>2, <1>3 DEF StoreTypeOK
  <1>7. /\ tempFile[calls[c].id][calls[c].nonce] = i
        /\ data[i].bytes = calls[c].bytes
    BY <1>1 DEF WritersOwn
  <1> HIDE DEF i, n, call
  <1>8. StoreTypeOK'
    <2>1. data' \in [Inodes -> [bytes : Contents, written : 0..Chunks]]
      BY <1>1, <1>2, <1>3 DEF StoreTypeOK
    <2>2. calls' \in [Callers -> {Idle} \cup Request \cup Running
                           \cup [op : {"answer"}, value : Value]]
      BY <1>2, <1>4 DEF StoreTypeOK, Continue
    <2> QED
      BY <1>2, <2>1, <2>2 DEF StoreTypeOK
  <1>9. NamesDistinct'
    BY <1>2 DEF NamesDistinct
  <1>10. TilesWhole'
    <2>1. \A t \in Tiles : tileFile[t] # NoFile => tileFile[t] \in Inodes \ {i}
      BY <1>1, <1>7 DEF StoreTypeOK, NamesDistinct
    <2> QED
      BY <1>2, <1>6, <2>1 DEF TilesWhole
  <1>11. ReadersWhole'
    <2>1. \A d \in Callers : calls[d].op = "read" => calls[d].inode \in Inodes \ {i}
      BY <1>1, <1>7, CallFields DEF ReadersWhole
    <2> QED
      BY <1>2, <1>4, <1>5, <1>6, <2>1 DEF ReadersWhole
  <1>12. WritersOwn'
    <2>1. \A d \in Callers \ {c} : Writing(d) =>
            /\ calls[d].id \in Tiles /\ calls[d].nonce \in Nonces
            /\ calls[d].inode \in Inodes
      BY CallFields
    <2>2. /\ \A d \in Callers \ {c} : Writing(d)' = Writing(d)
          /\ Writing(c)'
      BY <1>4, <1>5 DEF Writing
    <2>3. \A d \in Callers \ {c} : Writing(d) =>
            /\ ~(calls[d].id = calls[c].id /\ calls[d].nonce = calls[c].nonce)
            /\ calls[d].inode # i
      <3> SUFFICES ASSUME NEW d \in Callers \ {c}, Writing(d)
                   PROVE  /\ ~(calls[d].id = calls[c].id /\ calls[d].nonce = calls[c].nonce)
                          /\ calls[d].inode # i
        OBVIOUS
      <3>1. ~(calls[d].id = calls[c].id /\ calls[d].nonce = calls[c].nonce)
        BY <1>1 DEF WritersOwn
      <3>2. tempFile[calls[d].id][calls[d].nonce] = calls[d].inode
        BY DEF WritersOwn
      <3> QED
        BY <1>1, <1>7, <2>1, <3>1, <3>2, StoreAssumption DEF NamesDistinct
    <2> SUFFICES ASSUME NEW d \in Callers, Writing(d)'
                 PROVE  /\ tempFile'[calls'[d].id][calls'[d].nonce] = calls'[d].inode
                        /\ data'[calls'[d].inode].bytes = calls'[d].bytes
                        /\ calls'[d].op = "rename" =>
                             data'[calls'[d].inode].written = Chunks
                        /\ \A e \in Callers :
                             Writing(e)' /\ calls'[e].id = calls'[d].id
                               /\ calls'[e].nonce = calls'[d].nonce => e = d
      BY DEF WritersOwn
    <2>4. CASE d = c
      BY <1>2, <1>4, <1>5, <1>6, <1>7, <2>2, <2>3, <2>4
    <2>5. CASE d # c
      <3>1. \A e \in Callers \ {c} :
               Writing(e) /\ calls[e].id = calls[d].id
                 /\ calls[e].nonce = calls[d].nonce => e = d
        BY <1>5, <2>2, <2>5 DEF WritersOwn
      <3>2. /\ tempFile[calls[d].id][calls[d].nonce] = calls[d].inode
            /\ data[calls[d].inode].bytes = calls[d].bytes
            /\ calls[d].op = "rename" => data[calls[d].inode].written = Chunks
        BY <2>2, <2>5 DEF WritersOwn
      <3> QED
        BY <1>2, <1>4, <1>5, <1>6, <2>1, <2>2, <2>3, <2>5, <3>1, <3>2
    <2> QED
      BY <2>4, <2>5
  <1> QED
    BY <1>8, <1>9, <1>10, <1>11, <1>12

LEMMA RenameKeeps ==
  ASSUME StoreInv, NEW c \in Callers, Rename(c)
  PROVE  StoreInv'
  <1> USE DEF StoreInv
  <1> DEFINE t == calls[c].id
             n == calls[c].nonce
             i == calls[c].inode
  <1>1. /\ Writing(c) /\ calls[c].op = "rename"
        /\ i \in Inodes /\ t \in Tiles /\ n \in Nonces
    BY CallFields DEF Rename, Writing
  <1>2. tempFile[t][n] = i /\ i # NoFile /\ data[i].written = Chunks
    BY <1>1, StoreAssumption DEF WritersOwn
  <1>3. /\ tileFile' = [tileFile EXCEPT ![t] = i]
        /\ tempFile' = [tempFile EXCEPT ![t][n] = NoFile]
        /\ Continue(c, Answer("ok"))
        /\ data' = data
    BY <1>2 DEF Rename
  <1>4. /\ calls'[c] = Answer("ok")
        /\ \A d \in Callers \ {c} : calls'[d] = calls[d]
    BY <1>3 DEF StoreTypeOK, Continue
  <1>5. /\ \A u \in Tiles : tileFile'[u] = IF u = t THEN i ELSE tileFile[u]
        /\ \A u \in Tiles, m \in Nonces :
             tempFile'[u][m] = IF u = t /\ m = n THEN NoFile ELSE tempFile[u][m]
    BY <1>1, <1>3 DEF StoreTypeOK
  <1>6. StoreTypeOK'
    BY <1>1, <1>3 DEF StoreTypeOK, Continue, Answer, Value
  <1>7. NamesDistinct'
    BY <1>1, <1>2, <1>5 DEF NamesDistinct
  <1>8. TilesWhole'
    BY <1>2, <1>3, <1>5 DEF TilesWhole
  <1>9. ReadersWhole'
    <2>1. \A d \in Callers : calls[d].op = "read" => calls[d].inode \in Inodes
      BY CallFields
    <2> QED
      BY <1>3, <1>4, <1>5, <2>1, StoreAssumption DEF ReadersWhole, Answer
  <1>10. WritersOwn'
    <2>1. /\ \A d \in Callers \ {c} : Writing(d)' = Writing(d)
          /\ ~Writing(c)'
      BY <1>4 DEF Writing, Answer
    <2>2. \A d \in Callers \ {c} : Writing(d) =>
            /\ calls[d].id \in Tiles /\ calls[d].nonce \in Nonces
            /\ ~(calls[d].id = t /\ calls[d].nonce = n)
      BY <1>1, CallFields DEF WritersOwn
    <2> QED
      BY <1>3, <1>4, <1>5, <2>1, <2>2 DEF WritersOwn
  <1> QED
    BY <1>6, <1>7, <1>8, <1>9, <1>10

LEMMA UnlinkKeeps ==
  ASSUME StoreInv, NEW c \in Callers, Unlink(c)
  PROVE  StoreInv'
  <1> USE DEF StoreInv
  <1>1. /\ calls'[c] = Answer("ok")
        /\ \A d \in Callers \ {c} : calls'[d] = calls[d]
    BY DEF StoreTypeOK, Unlink, Continue
  <1>2. /\ tempFile' = tempFile /\ data' = data
        /\ \A u \in Tiles : tileFile'[u] \in {NoFile, tileFile[u]}
    BY DEF Unlink, StoreTypeOK
  <1>3. StoreTypeOK'
    BY DEF StoreTypeOK, Unlink, Continue, Answer, Value
  <1>4. NamesDistinct' /\ TilesWhole'
    BY <1>2 DEF NamesDistinct, TilesWhole
  <1>5. WritersOwn' /\ ReadersWhole'
    BY <1>1, <1>2 DEF WritersOwn, ReadersWhole, Writing, Answer
  <1> QED
    BY <1>3, <1>4, <1>5

LEMMA DiesKeeps ==
  ASSUME StoreInv, Dies
  PROVE  StoreInv'
  <1> USE DEF StoreInv
  <1>1. StoreTypeOK'
    BY DEF StoreTypeOK, Dies
  <1>2. NamesDistinct' /\ TilesWhole'
    BY DEF Dies, NamesDistinct, TilesWhole
  <1>3. WritersOwn' /\ ReadersWhole'
    BY DEF Dies, WritersOwn, ReadersWhole, Writing, Idle
  <1> QED
    BY <1>1, <1>2, <1>3

LEMMA StoreNextKeeps == StoreInv /\ [StoreNext]_storeVars => StoreInv'
  <1> SUFFICES ASSUME StoreInv, [StoreNext]_storeVars PROVE StoreInv'
    OBVIOUS
  <1>1. ASSUME NEW c \in Callers, NEW request \in Request, Begin(c, request)
        PROVE  StoreInv'
    BY <1>1, QuietKeeps DEF Begin, Quiet
  <1>2. ASSUME NEW c \in Callers, Open(c) PROVE StoreInv'
    BY <1>2, OpenKeeps
  <1>3. ASSUME NEW c \in Callers, Read(c) PROVE StoreInv'
    <2>1. Answer(Bytes(calls[c].inode)) \in Quiet
      BY <1>3, CallFields, BytesTyped DEF Read, Answer, Quiet, StoreInv
    <2> QED
      BY <1>3, <2>1, QuietKeeps DEF Read
  <1>4. ASSUME NEW c \in Callers, Create(c) PROVE StoreInv'
    BY <1>4, CreateKeeps
  <1>5. ASSUME NEW c \in Callers, WriteChunk(c) PROVE StoreInv'
    BY <1>5, WriteChunkKeeps
  <1>6. ASSUME NEW c \in Callers, Rename(c) PROVE StoreInv'
    BY <1>6, RenameKeeps
  <1>7. ASSUME NEW c \in Callers, Unlink(c) PROVE StoreInv'
    BY <1>7, UnlinkKeeps
  <1>8. ASSUME NEW c \in Callers, OperationFails(c) PROVE StoreInv'
    <2>1. Answer("error") \in Quiet
      BY DEF Answer, Quiet, Value
    <2> QED
      BY <1>8, <2>1, QuietKeeps DEF OperationFails
  <1>9. ASSUME NEW c \in Callers, End(c) PROVE StoreInv'
    BY <1>9, QuietKeeps DEF End, Quiet
  <1>10. CASE Dies
    BY <1>10, DiesKeeps
  <1>11. CASE UNCHANGED storeVars
    BY <1>11 DEF storeVars, StoreInv, StoreTypeOK, NamesDistinct, WritersOwn,
                 TilesWhole, ReadersWhole, Writing
  <1> QED
    BY <1>1, <1>2, <1>3, <1>4, <1>5, <1>6, <1>7, <1>8, <1>9, <1>10, <1>11
       DEF StoreNext, CallStep

---------------------------------------------------------------------------
(* The refinement: what the callers and the cache of AtomicTileCache see.  *)

Seen == [c \in Callers |-> AbstractCall(calls[c])]
Kept == [t \in Tiles |-> Stored(t)]

LEMMA CallSeen ==
  ASSUME NEW call
  PROVE  /\ call.op = "open" => AbstractCall(call) = [op |-> "get", id |-> call.id]
         /\ call.op = "unlink" => AbstractCall(call) = [op |-> "remove", id |-> call.id]
         /\ call.op \in {"create", "write", "rename"} =>
              AbstractCall(call) = [op |-> "put", id |-> call.id, bytes |-> call.bytes]
         /\ call.op = "read" => AbstractCall(call) = Answer(Bytes(call.inode))
         /\ call.op \in {"idle", "answer"} => AbstractCall(call) = call
  BY DEF AbstractCall

(* One caller goes on, and nothing changes for those who read.             *)
LEMMA OneSeen ==
  ASSUME StoreTypeOK, NEW c \in Callers, NEW call, Continue(c, call),
         \A d \in Callers \ {c} : calls[d].op = "read" =>
           data'[calls[d].inode] = data[calls[d].inode]
  PROVE  Seen' = [Seen EXCEPT ![c] = AbstractCall(calls[c])']
  <1>1. \A d \in Callers \ {c} : calls'[d] = calls[d]
    BY DEF StoreTypeOK, Continue
  <1>2. ASSUME NEW d \in Callers \ {c}
        PROVE  AbstractCall(calls[d])' = AbstractCall(calls[d])
    BY <1>1 DEF AbstractCall, Bytes
  <1> QED
    BY <1>2 DEF Seen

(* A tile is kept as it was when its name and its file are.                *)
LEMMA SameKept ==
  ASSUME tileFile' = tileFile,
         \A t \in Tiles : tileFile[t] # NoFile => data'[tileFile[t]] = data[tileFile[t]]
  PROVE  Kept' = Kept
  BY DEF Kept, Stored, Bytes

LEMMA RefinesInit == StoreInit => Cache!Init
  <1> SUFFICES ASSUME StoreInit PROVE Cache!Init
    OBVIOUS
  <1>1. \A t \in Tiles : Stored(t) \in Contents \cup {"none"}
    BY DEF StoreInit, Stored, Bytes
  <1>2. \A c \in Callers : AbstractCall(calls[c]) = Idle
    BY CallSeen DEF StoreInit, Idle
  <1> QED
    BY <1>1, <1>2 DEF Cache!Init, Cache!NoTile, Cache!Idle, Idle

LEMMA RefinesNext ==
  ASSUME StoreInv, [StoreNext]_storeVars
  PROVE  [Cache!Next]_(Cache!cacheVars)
  <1> USE DEF StoreInv
  <1>s. /\ Kept = [t \in Tiles |-> Stored(t)]
        /\ Seen = [c \in Callers |-> AbstractCall(calls[c])]
    BY DEF Kept, Seen
  <1>i. \A c \in Callers : calls[c].op = "read" => calls[c].inode \in Inodes
    BY CallFields
  <1>1. ASSUME NEW c \in Callers, NEW request \in Request, Begin(c, request)
        PROVE  Cache!Begin(c)
    <2>1. Kept' = Kept
      BY <1>1, SameKept DEF Begin
    <2>2. Seen' = [Seen EXCEPT ![c] = AbstractCall(calls[c])']
      BY <1>1, OneSeen DEF Begin
    <2>3. calls'[c] = request
      BY <1>1 DEF Begin, Continue, StoreTypeOK
    <2>4. AbstractCall(calls[c])' \in Cache!Request
      BY <2>3, CallSeen DEF Request, Cache!Request, AbstractCall
    <2>5. Seen[c] = Idle
      BY <1>1, CallSeen DEF Begin, Idle, Seen
    <2> QED
      BY <2>1, <2>2, <2>4, <2>5 DEF Cache!Begin, Cache!Idle, Idle, Seen, Kept
  <1>2. ASSUME NEW c \in Callers, Open(c) PROVE Cache!Get(c)
    <2>1. Kept' = Kept
      BY <1>2, SameKept DEF Open
    <2>2. Seen' = [Seen EXCEPT ![c] = AbstractCall(calls[c])']
      BY <1>2, OneSeen DEF Open
    <2>3. calls[c].id \in Tiles /\ Seen[c] = [op |-> "get", id |-> calls[c].id]
      BY <1>2, CallFields, CallSeen DEF Open, Seen
    <2>4. AbstractCall(calls[c])' = Answer(Stored(calls[c].id))
      <3>1. CASE tileFile[calls[c].id] = NoFile
        <4>1. calls'[c] = Answer("none")
          BY <1>2, <3>1 DEF Open, Continue, StoreTypeOK
        <4> QED
          BY <3>1, <4>1 DEF AbstractCall, Answer, Stored
      <3>2. CASE tileFile[calls[c].id] # NoFile
        <4>1. calls'[c] = [op |-> "read", inode |-> tileFile[calls[c].id]]
          BY <1>2, <3>2 DEF Open, Continue, StoreTypeOK
        <4>2. data' = data
          BY <1>2 DEF Open
        <4> QED
          BY <3>2, <4>1, <4>2 DEF AbstractCall, Answer, Stored, Bytes
      <3> QED
        BY <3>1, <3>2
    <2>5. /\ Seen[c].op = "get"
          /\ Seen' = [Seen EXCEPT ![c] = Answer(Kept[Seen[c].id])]
      <3>1. Kept[Seen[c].id] = Stored(calls[c].id)
        BY <2>3 DEF Kept
      <3>2. Seen' = [Seen EXCEPT ![c] = Answer(Stored(calls[c].id))]
        BY <2>2, <2>4
      <3> QED
        BY <2>3, <3>1, <3>2
    <2> QED
      BY <2>1, <2>5 DEF Cache!Get, Cache!Answer, Answer, Seen, Kept
  <1>3. ASSUME NEW c \in Callers, Read(c) PROVE UNCHANGED Cache!cacheVars
    <2>1. Kept' = Kept
      BY <1>3, SameKept DEF Read
    <2>2. Seen' = [Seen EXCEPT ![c] = AbstractCall(calls[c])']
      BY <1>3, OneSeen DEF Read
    <2>3. Seen[c] = Answer(Bytes(calls[c].inode))
      BY <1>3, CallSeen DEF Read, Seen
    <2>4. AbstractCall(calls[c])' = Answer(Bytes(calls[c].inode))
      <3>1. calls'[c] = Answer(Bytes(calls[c].inode))
        BY <1>3 DEF Read, Continue, StoreTypeOK
      <3> QED
        BY <3>1 DEF AbstractCall, Answer
    <2> QED
      BY <2>1, <2>2, <2>3, <2>4 DEF Cache!cacheVars, Seen, Kept
  <1>4. ASSUME NEW c \in Callers, Create(c) PROVE UNCHANGED Cache!cacheVars
    <2> DEFINE t == calls[c].id
    <2>1. t \in Tiles
      BY <1>4, CallFields DEF Create
    <2>2. PICK n \in Nonces, i \in Inodes :
            /\ IF tempFile[t][n] = NoFile THEN Unused(i) ELSE i = tempFile[t][n]
            /\ data' = [data EXCEPT ![i] = [bytes |-> calls[c].bytes, written |-> 0]]
            /\ Continue(c, [op |-> "write", id |-> t, bytes |-> calls[c].bytes,
                            nonce |-> n, inode |-> i])
            /\ tileFile' = tileFile
      BY <1>4 DEF Create
    <2>3. /\ \A u \in Tiles : tileFile[u] # i
          /\ \A d \in Callers : calls[d].op = "read" => calls[d].inode # i
      BY <2>1, <2>2, StoreAssumption DEF Unused, NamesDistinct, ReadersWhole
    <2>4. Kept' = Kept
      BY <2>2, <2>3, SameKept DEF StoreTypeOK
    <2>5. Seen' = [Seen EXCEPT ![c] = AbstractCall(calls[c])']
      BY <1>i, <2>2, <2>3, OneSeen DEF StoreTypeOK
    <2>6. calls'[c] = [op |-> "write", id |-> t, bytes |-> calls[c].bytes,
                       nonce |-> n, inode |-> i]
      BY <2>2 DEF Continue, StoreTypeOK
    <2>7. AbstractCall(calls[c])' = [op |-> "put", id |-> t, bytes |-> calls[c].bytes]
      BY <2>6 DEF AbstractCall
    <2>8. Seen[c] = [op |-> "put", id |-> t, bytes |-> calls[c].bytes]
      BY <1>4, CallSeen DEF Create, Seen
    <2> QED
      BY <2>4, <2>5, <2>7, <2>8 DEF Cache!cacheVars, Seen, Kept
  <1>5. ASSUME NEW c \in Callers, WriteChunk(c) PROVE UNCHANGED Cache!cacheVars
    <2> DEFINE i == calls[c].inode
    <2>1. /\ i \in Inodes /\ Writing(c) /\ calls[c].id \in Tiles /\ calls[c].nonce \in Nonces
          /\ tempFile[calls[c].id][calls[c].nonce] = i
          /\ calls[c] \in [op : {"write", "rename"}, id : Tiles, bytes : Contents,
                           nonce : Nonces, inode : Inodes]
      BY <1>5, CallFields DEF WriteChunk, Writing, WritersOwn
    <2>2. /\ \A u \in Tiles : tileFile[u] # NoFile => tileFile[u] # i
          /\ \A d \in Callers : calls[d].op = "read" => calls[d].inode # i
      BY <2>1 DEF NamesDistinct, ReadersWhole
    <2>3. PICK n, call :
            /\ data' = [data EXCEPT ![i].written = n]
            /\ call \in {calls[c], [calls[c] EXCEPT !.op = "rename"]}
            /\ Continue(c, call)
            /\ tileFile' = tileFile
      BY <1>5 DEF WriteChunk
    <2>4. Kept' = Kept
      BY <2>2, <2>3, SameKept DEF StoreTypeOK
    <2>5. Seen' = [Seen EXCEPT ![c] = AbstractCall(calls[c])']
      BY <1>i, <2>2, <2>3, OneSeen DEF StoreTypeOK
    <2>6. /\ calls'[c].op \in {"write", "rename"}
          /\ calls'[c].id = calls[c].id /\ calls'[c].bytes = calls[c].bytes
      BY <1>5, <2>1, <2>3 DEF Continue, StoreTypeOK, WriteChunk
    <2>7. AbstractCall(calls[c])' =
            [op |-> "put", id |-> calls[c].id, bytes |-> calls[c].bytes]
      BY <2>6 DEF AbstractCall
    <2>8. Seen[c] = [op |-> "put", id |-> calls[c].id, bytes |-> calls[c].bytes]
      BY <1>5, CallSeen DEF WriteChunk, Seen
    <2> QED
      BY <2>4, <2>5, <2>7, <2>8 DEF Cache!cacheVars, Seen, Kept
  <1>6. ASSUME NEW c \in Callers, Rename(c) PROVE Cache!Put(c)
    <2> DEFINE t == calls[c].id
               i == calls[c].inode
    <2>1. /\ Writing(c) /\ i \in Inodes /\ t \in Tiles /\ calls[c].nonce \in Nonces
      BY <1>6, CallFields DEF Rename, Writing
    <2>2. /\ tempFile[t][calls[c].nonce] = i /\ i # NoFile
          /\ data[i].written = Chunks /\ data[i].bytes = calls[c].bytes
      BY <1>6, <2>1, StoreAssumption DEF Rename, WritersOwn
    <2>3. /\ tileFile' = [tileFile EXCEPT ![t] = i]
          /\ Continue(c, Answer("ok")) /\ data' = data
      BY <1>6, <2>2 DEF Rename
    <2>4. Seen' = [Seen EXCEPT ![c] = AbstractCall(calls[c])']
      BY <2>3, OneSeen
    <2>5. calls'[c] = Answer("ok")
      BY <2>3 DEF Continue, StoreTypeOK
    <2>6. AbstractCall(calls[c])' = Answer("ok")
      BY <2>5 DEF AbstractCall, Answer
    <2>7. Seen[c] = [op |-> "put", id |-> t, bytes |-> calls[c].bytes]
      BY <1>6, CallSeen DEF Rename, Seen
    <2>8. Kept' = [Kept EXCEPT ![t] = calls[c].bytes]
      BY <2>1, <2>2, <2>3 DEF Kept, Stored, Bytes, StoreTypeOK
    <2>9. /\ Seen[c].op = "put"
          /\ Kept' = [Kept EXCEPT ![Seen[c].id] = Seen[c].bytes]
          /\ Seen' = [Seen EXCEPT ![c] = Answer("ok")]
      BY <2>4, <2>6, <2>7, <2>8
    <2> QED
      BY <2>9 DEF Cache!Put, Cache!Answer, Answer, Seen, Kept
  <1>7. ASSUME NEW c \in Callers, Unlink(c) PROVE Cache!Remove(c)
    <2>1. calls[c].id \in Tiles
      BY <1>7, CallFields DEF Unlink
    <2>2. Seen' = [Seen EXCEPT ![c] = AbstractCall(calls[c])']
      BY <1>7, OneSeen DEF Unlink
    <2>3. calls'[c] = Answer("ok")
      BY <1>7 DEF Unlink, Continue, StoreTypeOK
    <2>4. AbstractCall(calls[c])' = Answer("ok")
      BY <2>3 DEF AbstractCall, Answer
    <2>5. Seen[c] = [op |-> "remove", id |-> calls[c].id]
      BY <1>7, CallSeen DEF Unlink, Seen
    <2>6. Kept' = [Kept EXCEPT ![calls[c].id] = "none"]
      BY <1>7, <2>1 DEF Unlink, Kept, Stored, Bytes, StoreTypeOK
    <2>7. /\ Seen[c].op = "remove"
          /\ Kept' = [Kept EXCEPT ![Seen[c].id] = "none"]
          /\ Seen' = [Seen EXCEPT ![c] = Answer("ok")]
      BY <2>2, <2>4, <2>5, <2>6
    <2> QED
      BY <2>7 DEF Cache!Remove, Cache!Answer, Cache!NoTile, Answer, Seen, Kept
  <1>8. ASSUME NEW c \in Callers, OperationFails(c) PROVE Cache!Fail(c)
    <2>1. Kept' = Kept
      BY <1>8, SameKept DEF OperationFails
    <2>2. Seen' = [Seen EXCEPT ![c] = AbstractCall(calls[c])']
      BY <1>8, OneSeen DEF OperationFails
    <2>3. calls'[c] = Answer("error")
      BY <1>8 DEF OperationFails, Continue, StoreTypeOK
    <2>4. AbstractCall(calls[c])' = Answer("error")
      BY <2>3 DEF AbstractCall, Answer
    <2>5. \/ Seen[c].op \in {"get", "put", "remove"}
          \/ Seen[c].op = "answer" /\ Seen[c].value \in Contents
      <3>1. CASE calls[c].op = "read"
        <4>1. Bytes(calls[c].inode) \in Contents
          BY <1>i, <3>1 DEF ReadersWhole, Bytes, StoreTypeOK
        <4> QED
          BY <3>1, <4>1, CallSeen DEF Seen, Answer
      <3>2. CASE calls[c].op # "read"
        <4>1. calls[c].op \in {"open", "unlink", "create", "write", "rename"}
          BY <1>8, <3>2, CallFields DEF OperationFails
        <4> QED
          BY <4>1, CallSeen DEF Seen
      <3> QED
        BY <3>1, <3>2
    <2> QED
      BY <2>1, <2>2, <2>4, <2>5 DEF Cache!Fail, Cache!Answer, Answer, Seen, Kept
  <1>9. ASSUME NEW c \in Callers, End(c) PROVE Cache!End(c)
    <2>1. Kept' = Kept
      BY <1>9, SameKept DEF End
    <2>2. Seen' = [Seen EXCEPT ![c] = AbstractCall(calls[c])']
      BY <1>9, OneSeen DEF End
    <2>3. calls'[c] = Idle
      BY <1>9 DEF End, Continue, StoreTypeOK
    <2>4. AbstractCall(calls[c])' = Idle
      BY <2>3 DEF AbstractCall, Idle
    <2>5. Seen[c].op = "answer"
      BY <1>9, CallSeen DEF End, Seen
    <2> QED
      BY <2>1, <2>2, <2>4, <2>5 DEF Cache!End, Cache!Idle, Idle, Seen, Kept
  <1>10. CASE Dies
    <2>1. Kept' = Kept
      BY <1>10, SameKept DEF Dies
    <2>2. \A c \in Callers : AbstractCall(calls[c])' = Idle
      BY <1>10 DEF Dies, AbstractCall, Idle
    <2> QED
      BY <2>1, <2>2 DEF Cache!Next, Cache!Crash, Cache!Idle, Idle, Kept
  <1>11. CASE UNCHANGED storeVars
    BY <1>11 DEF storeVars, Cache!cacheVars, Stored, Bytes, AbstractCall
  <1> QED
    BY <1>1, <1>2, <1>3, <1>4, <1>5, <1>6, <1>7, <1>8, <1>9, <1>10, <1>11
       DEF StoreNext, CallStep, Cache!Next

---------------------------------------------------------------------------
(* The source uses the cache as its callers may.                           *)

(* A get that a load waits for has been given a tile, nothing or an error. *)
LoadsTyped ==
  /\ loads \in [Callers -> {NoLoad} \cup Loading]
  /\ loadsMade \in 0..MaxLoads

GetsAnswered ==
  \A c \in Callers :
    loads[c].step = "get" =>
      \/ calls[c].op \in {"open", "read"}
      \/ calls[c].op = "answer" /\ calls[c].value \in Outcome \cup {"none"}

SourceInv == StoreInv /\ LoadsTyped /\ GetsAnswered

LEMMA LoadFields ==
  ASSUME LoadsTyped, NEW c \in Callers, loads[c].step # "idle"
  PROVE  /\ loads[c].id \in Tiles
         /\ loads[c].bytes \in Outcome \cup {"none"}
  BY DEF LoadsTyped, NoLoad, Loading

LEMMA SourceInitInv == SourceInit => SourceInv
  BY StoreInitInv, SourceAssumption
     DEF SourceInit, SourceInv, LoadsTyped, GetsAnswered, NoLoad

(* Every step of the source is one of the store.                           *)
LEMMA SourceStep ==
  ASSUME SourceInv, [Next]_sourceVars
  PROVE  [StoreNext]_storeVars
  <1> USE DEF SourceInv
  <1>1. ASSUME NEW c \in Callers, NEW t \in Tiles, StartLoad(c, t)
        PROVE  StoreNext
    BY <1>1 DEF StartLoad, StoreNext, Request
  <1>2. ASSUME NEW c \in Callers, GetReturns(c) \/ PutReturns(c) \/ RemoveReturns(c)
        PROVE  StoreNext
    BY <1>2 DEF GetReturns, PutReturns, RemoveReturns, StoreNext
  <1>3. ASSUME NEW c \in Callers, Download(c) PROVE [StoreNext]_storeVars
    <2>1. loads[c].id \in Tiles
      BY <1>3, LoadFields DEF Download
    <2>2. ASSUME NEW bytes \in Downloads, bytes # "error"
          PROVE  [op |-> "create", id |-> loads[c].id, bytes |-> bytes] \in Request
      BY <2>1, <2>2, SourceAssumption DEF Request
    <2> QED
      BY <1>3, <2>2 DEF Download, StoreNext
  <1>4. ASSUME NEW c \in Callers, LoadReturns(c) PROVE [StoreNext]_storeVars
    <2>1. loads[c].id \in Tiles
      BY <1>4, LoadFields DEF LoadReturns
    <2>2. [op |-> "unlink", id |-> loads[c].id] \in Request
      BY <2>1 DEF Request
    <2> QED
      BY <1>4, <2>2 DEF LoadReturns, StoreNext
  <1>5. ASSUME NEW c \in Callers, CacheSteps(c) PROVE StoreNext
    BY <1>5 DEF CacheSteps, StoreNext
  <1>6. CASE ProcessDies
    BY <1>6 DEF ProcessDies, StoreNext
  <1>7. CASE UNCHANGED sourceVars
    BY <1>7 DEF sourceVars
  <1> QED
    BY <1>1, <1>2, <1>3, <1>4, <1>5, <1>6, <1>7 DEF Next

(* A step of the source that moves one load, whose get is still answered.  *)
LEMMA SourceInvNext ==
  ASSUME SourceInv, [Next]_sourceVars
  PROVE  SourceInv'
  <1> USE DEF SourceInv
  <1>1. StoreInv'
    BY SourceStep, StoreNextKeeps
  <1>c. /\ calls \in [Callers -> {Idle} \cup Request \cup Running
                           \cup [op : {"answer"}, value : Value]]
        /\ loads \in [Callers -> {NoLoad} \cup Loading]
        /\ loadsMade \in 0..MaxLoads
    BY DEF StoreTypeOK, StoreInv, LoadsTyped
  <1>m. ASSUME NEW c \in Callers, NEW load, Moves(c, load),
               load \in {NoLoad} \cup Loading
        PROVE  /\ loads' \in [Callers -> {NoLoad} \cup Loading]
               /\ loads'[c] = load
               /\ \A d \in Callers \ {c} : loads'[d] = loads[d]
    BY <1>c, <1>m DEF Moves
  <1>o. ASSUME NEW c \in Callers, NEW call, Continue(c, call)
        PROVE  /\ calls'[c] = call
               /\ \A d \in Callers \ {c} : calls'[d] = calls[d]
    BY <1>c, <1>o DEF Continue
  <1>2. ASSUME NEW c \in Callers, NEW t \in Tiles, StartLoad(c, t)
        PROVE  LoadsTyped' /\ GetsAnswered'
    <2>1. Load("get", t, "none") \in Loading
      BY DEF Load, Loading
    <2>2. loadsMade' \in 0..MaxLoads
      BY <1>2, <1>c, SourceAssumption DEF StartLoad
    <2>3. calls'[c].op = "open" /\ \A d \in Callers \ {c} : calls'[d] = calls[d]
      BY <1>2, <1>o DEF StartLoad, Begin
    <2>4. /\ \A d \in Callers \ {c} : loads'[d] = loads[d]
          /\ LoadsTyped'
      BY <1>2, <1>m, <2>1, <2>2 DEF StartLoad, LoadsTyped
    <2> QED
      BY <2>3, <2>4 DEF GetsAnswered
  <1>3. ASSUME NEW c \in Callers, NEW load, Moves(c, load), load.step # "get",
               load \in {NoLoad} \cup Loading,
               \A d \in Callers \ {c} : calls'[d] = calls[d],
               loadsMade' = loadsMade
        PROVE  LoadsTyped' /\ GetsAnswered'
    BY <1>3, <1>m, <1>c DEF LoadsTyped, GetsAnswered
  <1>4. ASSUME NEW c \in Callers, GetReturns(c)
        PROVE  LoadsTyped' /\ GetsAnswered'
    <2>1. /\ loads[c].id \in Tiles
          /\ calls[c].value \in Outcome \cup {"none"}
      BY <1>4, LoadFields DEF GetReturns, GetsAnswered, End
    <2>2. /\ Load("download", loads[c].id, "none") \in Loading
          /\ Load("loaded", loads[c].id, calls[c].value) \in Loading
      BY <2>1 DEF Load, Loading
    <2> QED
      BY <1>3, <1>4, <1>o, <2>2 DEF GetReturns, End, Load
  <1>5. ASSUME NEW c \in Callers, Download(c)
        PROVE  LoadsTyped' /\ GetsAnswered'
    <2>1. loads[c].id \in Tiles
      BY <1>5, LoadFields DEF Download
    <2>2. PICK bytes \in Downloads :
            IF bytes = "error"
            THEN /\ Moves(c, Load("loaded", loads[c].id, "error"))
                 /\ UNCHANGED storeVars
            ELSE /\ Moves(c, Load("put", loads[c].id, bytes))
                 /\ Begin(c, [op |-> "create", id |-> loads[c].id, bytes |-> bytes])
      BY <1>5 DEF Download
    <2>3. /\ Load("loaded", loads[c].id, "error") \in Loading
          /\ Load("put", loads[c].id, bytes) \in Loading
      BY <2>1, SourceAssumption DEF Load, Loading, Outcome
    <2>4. \A d \in Callers \ {c} : calls'[d] = calls[d]
      BY <1>o, <2>2 DEF Begin, storeVars
    <2>5. loadsMade' = loadsMade
      BY <1>5 DEF Download
    <2> QED
      BY <1>3, <2>2, <2>3, <2>4, <2>5 DEF Load
  <1>6. ASSUME NEW c \in Callers, PutReturns(c)
        PROVE  LoadsTyped' /\ GetsAnswered'
    <2>1. /\ loads[c].id \in Tiles
          /\ loads[c].bytes \in Outcome \cup {"none"}
      BY <1>6, LoadFields DEF PutReturns
    <2>2. \A bytes \in {loads[c].bytes, "error"} :
            Load("loaded", loads[c].id, bytes) \in Loading
      BY <2>1 DEF Load, Loading, Outcome
    <2> QED
      BY <1>3, <1>6, <1>o, <2>2 DEF PutReturns, End, Load
  <1>7. ASSUME NEW c \in Callers, LoadReturns(c)
        PROVE  LoadsTyped' /\ GetsAnswered'
    <2>1. Load("remove", loads[c].id, loads[c].bytes) \in Loading
      BY <1>7, LoadFields DEF LoadReturns, Load, Loading
    <2>2. \A d \in Callers \ {c} : calls'[d] = calls[d]
      BY <1>7, <1>o DEF LoadReturns, Begin, storeVars
    <2> QED
      BY <1>3, <1>7, <2>1, <2>2 DEF LoadReturns, NoLoad, Load
  <1>8. ASSUME NEW c \in Callers, RemoveReturns(c)
        PROVE  LoadsTyped' /\ GetsAnswered'
    BY <1>3, <1>8, <1>o DEF RemoveReturns, End, NoLoad
  <1>9. ASSUME NEW c \in Callers, CacheSteps(c)
        PROVE  LoadsTyped' /\ GetsAnswered'
    <2>1. /\ \A d \in Callers \ {c} : calls'[d] = calls[d]
          /\ loads' = loads /\ LoadsTyped'
      BY <1>9, <1>o, <1>c DEF CacheSteps, CallStep, Open, Read, Create, WriteChunk,
         Rename, Unlink, OperationFails, LoadsTyped
    <2>2. ASSUME loads[c].step = "get"
          PROVE  \/ calls'[c].op = "read"
                 \/ calls'[c].op = "answer" /\ calls'[c].value \in Outcome \cup {"none"}
      <3>1. CASE Open(c)
        BY <1>o, <3>1 DEF Open, Answer
      <3>2. CASE Read(c)
        <4>1. calls[c].inode \in Inodes
          BY <3>2, CallFields DEF Read, StoreInv
        <4>2. Bytes(calls[c].inode) \in Contents
          BY <3>2, <4>1 DEF Read, StoreInv, StoreTypeOK, ReadersWhole, Bytes
        <4> QED
          BY <1>o, <3>2, <4>2 DEF Read, Answer, Outcome
      <3>3. CASE OperationFails(c)
        BY <1>o, <3>3 DEF OperationFails, Answer, Outcome
      <3> QED
        BY <1>9, <2>2, <3>1, <3>2, <3>3 DEF CacheSteps, CallStep, Create, WriteChunk,
           Rename, Unlink, GetsAnswered
    <2> QED
      BY <2>1, <2>2 DEF GetsAnswered
  <1>10. CASE ProcessDies
    BY <1>1, <1>10, <1>c DEF ProcessDies, LoadsTyped, GetsAnswered, NoLoad
  <1>11. CASE UNCHANGED sourceVars
    BY <1>1, <1>11 DEF sourceVars, storeVars, LoadsTyped, GetsAnswered
  <1> QED
    BY <1>1, <1>2, <1>4, <1>5, <1>6, <1>7, <1>8, <1>9, <1>10, <1>11 DEF Next

---------------------------------------------------------------------------
(* The invariant of the source on its cache holds in every behaviour.      *)
THEOREM SourceInvariant == Spec => []SourceInv
  BY SourceInitInv, SourceInvNext, PTL DEF Spec

(* However many callers load, store and remove whichever tiles, and        *)
(* wherever operations fail or the process dies, no load is ever given a   *)
(* tile that was half written (the types have no value for one).           *)
THEOREM SourceTyped == Spec => []SourceTypeOK
  <1>1. SourceInv => SourceTypeOK
    BY DEF SourceInv, StoreInv, LoadsTyped, SourceTypeOK
  <1> QED
    BY <1>1, SourceInvariant, PTL

(* What a tile's name leads to, and what anybody reads, is a whole file    *)
(* that no put of FileTileCache writes to any more.                        *)
THEOREM FilesWhole == Spec => []ReadableFilesWhole
  <1>1. SourceInv => ReadableFilesWhole
    BY StoreInvWhole DEF SourceInv
  <1> QED
    BY <1>1, SourceInvariant, PTL

(* FileTileCache does with its files what the cache of AtomicTileCache     *)
(* does at once: get, put and remove are atomic, failures and crashes      *)
(* included.                                                               *)
THEOREM CacheRefined == Spec => CacheIsAtomic
  <1>1. Spec => Cache!Init
    BY RefinesInit DEF Spec, SourceInit
  <1>2. SourceInv /\ [Next]_sourceVars => [Cache!Next]_(Cache!cacheVars)
    BY SourceStep, RefinesNext DEF SourceInv
  <1> QED
    BY <1>1, <1>2, SourceInvariant, PTL DEF Spec, CacheIsAtomic, Cache!Spec
===========================================================================
