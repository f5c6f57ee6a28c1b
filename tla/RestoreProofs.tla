---------------------------- MODULE RestoreProofs ----------------------------
(****************************************************************************)
(* Proof that the page which restores a backup counts no node that is not   *)
(* there, for every backup, chunk size and number of chunks, whatever else  *)
(* the server does.                                                         *)
(****************************************************************************)
EXTENDS Restore, ServerProofs, SequenceTheorems

\* Seen from the server, the page is one more client.
LEMMA PageIsAClient == [RestoreNext]_allVars => [Next]_vars
BY DEF RestoreNext, Serve, NextChunk, allVars

LEMMA FileTypes ==
    ASSUME NEW f \in File
    PROVE  /\ f \in Seq(Document) /\ Len(f) \in Nat /\ DOMAIN f = 1..Len(f)
           /\ IsFiniteSet(DOMAIN f)
<1>1. f \in Seq(Document)
  BY RestoreAssumption
<1>2. Len(f) \in Nat /\ DOMAIN f = 1..Len(f)
  BY <1>1, LenProperties
<1> QED BY <1>1, <1>2, FS_Interval

\* Where the nodes of a chunk are in the backup.
LEMMA ChunkPlaces ==
    ASSUME NEW f \in File, NEW t \in Nat \ {0}, NEW j \in DOMAIN Chunk(f, t)
    PROVE  /\ j \in 1..ChunkSize
           /\ (t - 1) * ChunkSize + j \in DOMAIN f
           /\ f[(t - 1) * ChunkSize + j] = Chunk(f, t)[j]
<1> DEFINE start == (t - 1) * ChunkSize
           end == IF t * ChunkSize < Len(f) THEN t * ChunkSize ELSE Len(f)
<1>1. ChunkSize \in Nat \ {0} /\ f \in Seq(Document) /\ Len(f) \in Nat /\ DOMAIN f = 1..Len(f)
  BY FileTypes, RestoreAssumption
<1>2. start \in Nat /\ t * ChunkSize = start + ChunkSize
  BY <1>1
<1>3. Chunk(f, t) = SubSeq(f, start + 1, end)
  BY DEF Chunk
<1> HIDE DEF start
<1>4. end \in Nat /\ end <= start + ChunkSize /\ end <= Len(f)
  BY <1>1, <1>2
<1> HIDE DEF end
<1>5. Chunk(f, t) = [i \in 1..(end - start) |-> f[start + i]]
  BY <1>1, <1>2, <1>3, <1>4
<1>6. j \in 1..(end - start)
  BY <1>5
<1> QED BY <1>1, <1>2, <1>4, <1>5, <1>6 DEF start

\* The chunks are what RestoreInit cut the backup into, whatever place an upload has.
LEMMA ChunksCut == RestoreInit => \A i \in DOMAIN Uploads : batch[Uploads[i]] = Chunk(file, i)
<1> SUFFICES ASSUME RestoreInit, NEW i \in DOMAIN Uploads
             PROVE  batch[Uploads[i]] = Chunk(file, i)
  OBVIOUS
<1>1. Uploads[i] \in Bulk /\ \A k \in DOMAIN Uploads : Uploads[k] = Uploads[i] => k = i
  BY RestoreAssumption DEF Bijection, Injection, Surjection, IsInjective
<1>2. (CHOOSE k \in DOMAIN Uploads : Uploads[k] = Uploads[i]) = i
  BY <1>1
<1> QED BY <1>1, <1>2 DEF RestoreInit

(****************************************************************************)
(* What the server keeps of a chunk                                         *)
(****************************************************************************)

\* An import is no step of another one.
LEMMA OtherImports ==
    ASSUME ImportTypeOK, NEW b \in Bulk, ImportStep(b)
    PROVE  /\ UNCHANGED batch
           /\ \A c \in Bulk \ {b} : /\ validNodes'[c] = validNodes[c] /\ position'[c] = position[c]
                                    /\ bulkAnswer'[c] = bulkAnswer[c]
BY DEF ImportTypeOK, ImportStep, BulkArrive, BulkBanlist, BulkFilter, BulkWhitelist, BulkValidate,
       EndOfBatch, CreateBatch, BulkGoto, BulkReply

LEMMA KeptTypes ==
    ASSUME ImportTypeOK, NEW b \in Bulk
    PROVE  /\ batch[b] \in Seq(Document) /\ DOMAIN batch[b] \subseteq Nat
           /\ IsFiniteSet(DOMAIN batch[b]) /\ IsFiniteSet(Kept(b)) /\ Cardinality(Kept(b)) \in Nat
           /\ validNodes[b] \in Seq(Document) /\ Len(validNodes[b]) \in Nat
           /\ DOMAIN validNodes[b] = 1..Len(validNodes[b])
<1>1. batch[b] \in Seq(Document) /\ validNodes[b] \in Seq(Document)
  BY ImportAssumption DEF ImportTypeOK
<1>2. /\ DOMAIN batch[b] = 1..Len(batch[b]) /\ Len(batch[b]) \in Nat
      /\ DOMAIN validNodes[b] = 1..Len(validNodes[b]) /\ Len(validNodes[b]) \in Nat
  BY <1>1, LenProperties
<1>3. IsFiniteSet(DOMAIN batch[b])
  BY <1>2, FS_Interval
<1>4. Kept(b) \subseteq DOMAIN batch[b]
  BY DEF Kept
<1>5. IsFiniteSet(Kept(b))
  BY <1>3, <1>4, FS_Subset
<1> QED BY <1>1, <1>2, <1>3, <1>5, FS_CardinalityType

\* A node that is kept has a place of its own, the one the loop is at.
LEMMA ValidateKeeps ==
    ASSUME ImportTypeOK, ImportTypeOK', NEW b \in Bulk, BulkValidate(b),
           Len(validNodes[b]) <= Cardinality(Kept(b))
    PROVE  Len(validNodes'[b]) <= Cardinality(Kept(b)')
<1>1. /\ UNCHANGED batch /\ position[b] \in DOMAIN batch[b]
      /\ position'[b] = position[b] + 1 /\ position[b] \in Nat
      /\ \/ validNodes'[b] = Append(validNodes[b], batch[b][position[b]])
         \/ validNodes'[b] = validNodes[b]
  BY DEF BulkValidate, ImportTypeOK
<1>2. /\ DOMAIN batch[b] \subseteq Nat /\ IsFiniteSet(DOMAIN batch[b]) /\ IsFiniteSet(Kept(b))
      /\ Cardinality(Kept(b)) \in Nat /\ Len(validNodes[b]) \in Nat
      /\ validNodes[b] \in Seq(Document) /\ DOMAIN validNodes[b] = 1..Len(validNodes[b])
  BY KeptTypes
<1> DEFINE among(i, vs) == \E j \in DOMAIN vs : batch[b][i] = vs[j]
<1>3. Kept(b) = {i \in DOMAIN batch[b] : i < position[b] /\ among(i, validNodes[b])}
  BY DEF Kept
<1>4. Kept(b)' = {i \in DOMAIN batch[b] : i < position[b] + 1 /\ among(i, validNodes'[b])}
  BY <1>1 DEF Kept
<1>5. IsFiniteSet(Kept(b)') /\ Cardinality(Kept(b)') \in Nat
  <2>1. Kept(b)' \subseteq DOMAIN batch[b]
    BY <1>4
  <2> QED BY <1>2, <2>1, FS_Subset, FS_CardinalityType
<1>6. CASE validNodes'[b] = validNodes[b]
  <2>1. Kept(b) \subseteq Kept(b)'
    BY <1>1, <1>2, <1>3, <1>4, <1>6
  <2>2. Cardinality(Kept(b)) <= Cardinality(Kept(b)')
    BY <1>5, <2>1, FS_Subset
  <2> QED BY <1>2, <1>5, <1>6, <2>2
<1>7. CASE validNodes'[b] = Append(validNodes[b], batch[b][position[b]])
  <2>1. batch[b][position[b]] \in Document
    BY <1>1, KeptTypes, ElementOfSeq, LenProperties
  <2>2. /\ Len(validNodes'[b]) = Len(validNodes[b]) + 1
        /\ DOMAIN validNodes'[b] = 1..Len(validNodes[b]) + 1
        /\ \A j \in DOMAIN validNodes[b] : validNodes'[b][j] = validNodes[b][j]
        /\ validNodes'[b][Len(validNodes[b]) + 1] = batch[b][position[b]]
    BY <1>2, <1>7, <2>1, AppendProperties, LenProperties
  <2>3. \A i \in DOMAIN batch[b] : among(i, validNodes[b]) => among(i, validNodes'[b])
    BY <1>2, <2>2
  <2>4. among(position[b], validNodes'[b])
    BY <1>2, <2>2
  <2> HIDE DEF among
  <2>5. Kept(b) \cup {position[b]} \subseteq Kept(b)'
    BY <1>1, <1>2, <1>3, <1>4, <2>3, <2>4
  <2>6. position[b] \notin Kept(b)
    BY <1>1, <1>3
  <2>7. Cardinality(Kept(b) \cup {position[b]}) = Cardinality(Kept(b)) + 1
    BY <1>2, <2>6, FS_AddElement
  <2>8. Cardinality(Kept(b) \cup {position[b]}) <= Cardinality(Kept(b)')
    BY <1>5, <2>5, FS_Subset
  <2> QED BY <1>2, <1>5, <2>2, <2>7, <2>8
<1> QED BY <1>1, <1>6, <1>7

\* The nodes kept and the place of the loop change only in the loop.
LEMMA OnlyTheLoopKeeps ==
    ASSUME ImportTypeOK, NEW b \in Bulk, ImportStep(b), ~BulkValidate(b)
    PROVE  validNodes'[b] = validNodes[b] /\ position'[b] = position[b]
BY DEF ImportStep, BulkArrive, BulkBanlist, BulkFilter, BulkWhitelist, EndOfBatch, CreateBatch

\* A chunk is answered for when it is stored, or when nothing of it was kept.
LEMMA AnsweredStored ==
    ASSUME ImportTypeOK, NEW b \in Bulk, BulkBarrier(b), ImportStep(b), bulkAnswer'[b] = "imported",
           NEW i \in DOMAIN validNodes'[b]
    PROVE  NodeID(validNodes'[b][i]) \in IDs'
<1>1. bulkAnswer[b] # "imported"
  BY DEF BulkBarrier, ImportStep, BulkArrive, BulkBanlist, BulkFilter, BulkWhitelist, BulkValidate,
         EndOfBatch, CreateBatch
<1>2. /\ validNodes'[b] = validNodes[b] /\ validNodes[b] \in Seq(Document)
      /\ validNodes[b] = <<>> \/ InsertBatch(validNodes[b])
  BY <1>1 DEF ImportTypeOK, ImportStep, BulkArrive, BulkBanlist, BulkFilter, BulkWhitelist, BulkValidate,
              EndOfBatch, CreateBatch, BulkGoto, BulkReply
<1> QED BY <1>2, BatchStored

LEMMA ChunkInvStep ==
    ASSUME TypeInv, TypeInv', BarrierInv, [Next]_vars, NEW c \in Bulk, ChunkInv(c)
    PROVE  ChunkInv(c)'
<1> USE DEF TypeInv, TypeOK
<1>1. IDs \cup removed \subseteq (IDs \cup removed)'
  BY NothingLost
<1> DEFINE stays == /\ validNodes'[c] = validNodes[c] /\ position'[c] = position[c] /\ UNCHANGED batch
                    /\ bulkAnswer'[c] = "imported" => bulkAnswer[c] = "imported"
<1>2. CASE stays
  <2>1. Kept(c)' = Kept(c)
    BY <1>2 DEF Kept
  <2> QED BY <1>1, <1>2, <2>1 DEF ChunkInv, NodeID
<1>3. ASSUME NEW b \in Bulk, ImportStep(b)
      PROVE  ChunkInv(c)'
  <2>1. CASE b # c
    BY <1>2, <1>3, <2>1, OtherImports
  <2>2. CASE b = c
    <3>1. Len(validNodes'[c]) <= Cardinality(Kept(c)')
      <4>1. CASE BulkValidate(c)
        BY <4>1, ValidateKeeps DEF ChunkInv
      <4>2. CASE ~BulkValidate(c)
        <5>1. validNodes'[c] = validNodes[c] /\ position'[c] = position[c] /\ UNCHANGED batch
          BY <1>3, <2>2, <4>2, OnlyTheLoopKeeps, OtherImports
        <5>2. Kept(c)' = Kept(c)
          BY <5>1 DEF Kept
        <5> QED BY <5>1, <5>2 DEF ChunkInv
      <4> QED BY <4>1, <4>2
    <3>2. BulkBarrier(c)
      BY DEF BarrierInv
    <3>3. bulkAnswer'[c] = "imported" =>
              \A i \in DOMAIN validNodes'[c] : NodeID(validNodes'[c][i]) \in IDs'
      BY <1>3, <2>2, <3>2, AnsweredStored
    <3> QED BY <3>1, <3>3 DEF ChunkInv, NodeID
  <2> QED BY <2>1, <2>2
<1>4. CASE Crash
  BY <1>2, <1>4 DEF Crash, ImportTypeOK
<1>5. CASE UNCHANGED <<batch, validNodes, position, bulkAnswer>>
  BY <1>2, <1>5
<1> QED BY <1>3, <1>4, <1>5 DEF Next, Moderate, vars, importVars

(****************************************************************************)
(* What the page counts                                                     *)
(****************************************************************************)

LEMMA RestoredTypes ==
    ASSUME file \in File, NEW n \in Nat
    PROVE  IsFiniteSet(Restored(n)) /\ Cardinality(Restored(n)) \in Nat
<1>1. Restored(n) \subseteq DOMAIN file
  BY DEF Restored
<1> QED BY <1>1, FileTypes, FS_Subset, FS_CardinalityType

LEMMA MoreRestored ==
    ASSUME file \in File, UNCHANGED file, NEW n \in Nat, IDs \cup removed \subseteq (IDs \cup removed)'
    PROVE  Cardinality(Restored(n)) <= Cardinality(Restored(n)')
<1>1. Restored(n) \subseteq Restored(n)' /\ Restored(n)' \subseteq DOMAIN file
  BY DEF Restored, NodeID
<1>2. IsFiniteSet(Restored(n)')
  BY <1>1, FileTypes, FS_Subset
<1> QED BY <1>1, <1>2, FS_Subset

\* A chunk adds the places of the nodes that were kept of it, which no chunk before it has counted.
LEMMA ChunkCounts ==
    ASSUME TypeInv, CountInv, NEW b \in Bulk, OnItsWay(b)
    PROVE  Cardinality(Restored((turn - 1) * ChunkSize)) + Imported(b)
               <= Cardinality(Restored(turn * ChunkSize))
<1> DEFINE start == (turn - 1) * ChunkSize
<1>1. /\ file \in File /\ turn \in Nat \ {0} /\ ChunkSize \in Nat \ {0}
      /\ batch[b] = Chunk(file, turn) /\ ChunkInv(b)
  BY RestoreAssumption DEF CountInv, OnItsWay
<1>2. start \in Nat /\ turn * ChunkSize = start + ChunkSize
  BY <1>1
<1>3. \A j \in DOMAIN batch[b] : /\ j \in 1..ChunkSize /\ start + j \in DOMAIN file
                                 /\ file[start + j] = batch[b][j]
  BY <1>1, ChunkPlaces
<1> HIDE DEF start
<1>4. DOMAIN file \subseteq Nat
  BY <1>1, FileTypes
<1>5. /\ IsFiniteSet(Restored(start)) /\ Cardinality(Restored(start)) \in Nat
      /\ IsFiniteSet(Restored(start + ChunkSize)) /\ Cardinality(Restored(start + ChunkSize)) \in Nat
  BY <1>1, <1>2, RestoredTypes
<1>6. Restored(start) \subseteq Restored(start + ChunkSize)
  BY <1>1, <1>2, <1>4 DEF Restored
<1>7. CASE bulkAnswer[b] # "imported"
  <2>1. Imported(b) = 0
    BY <1>7 DEF Imported
  <2>2. Cardinality(Restored(start)) <= Cardinality(Restored(start + ChunkSize))
    BY <1>5, <1>6, FS_Subset
  <2> QED BY <1>2, <1>5, <2>1, <2>2 DEF start
<1>8. CASE bulkAnswer[b] = "imported"
  <2> DEFINE moved == {start + i : i \in Kept(b)}
             move == [i \in Kept(b) |-> start + i]
  <2>1. /\ Kept(b) \subseteq DOMAIN batch[b] /\ DOMAIN batch[b] \subseteq Nat
        /\ IsFiniteSet(Kept(b)) /\ Cardinality(Kept(b)) \in Nat /\ Len(validNodes[b]) \in Nat
    BY KeptTypes DEF Kept, TypeInv, TypeOK
  <2>2. \A i \in Kept(b) : NodeID(batch[b][i]) \in IDs \cup removed
    BY <1>1, <1>8 DEF Kept, ChunkInv
  <2>3. moved \subseteq Restored(start + ChunkSize)
    <3> SUFFICES ASSUME NEW i \in Kept(b)
                 PROVE  start + i \in Restored(start + ChunkSize)
      OBVIOUS
    <3>1. i \in DOMAIN batch[b]
      BY <2>1
    <3>2. start + i \in DOMAIN file /\ file[start + i] = batch[b][i] /\ i \in 1..ChunkSize
      BY <1>3, <3>1
    <3> QED BY <1>1, <1>2, <2>2, <3>2 DEF Restored
  <2>4. Restored(start) \cap moved = {}
    BY <1>2, <1>3, <2>1 DEF Restored
  <2>5. Restored(start) \cup moved \subseteq Restored(start + ChunkSize)
    BY <1>6, <2>3
  <2>6. IsFiniteSet(moved) /\ Cardinality(moved) \in Nat
    BY <1>5, <2>3, FS_Subset, FS_CardinalityType
  <2>7. Cardinality(Kept(b)) <= Cardinality(moved)
    <3>1. \A i, j \in Kept(b) : start + i = start + j => i = j
      BY <1>2, <2>1
    <3>2. move \in Injection(Kept(b), moved)
      BY <3>1 DEF Injection, IsInjective
    <3> HIDE DEF move, moved
    <3> QED BY <2>6, <3>2, FS_Injection
  <2> HIDE DEF moved
  <2>8. Cardinality(Restored(start) \cup moved) = Cardinality(Restored(start)) + Cardinality(moved)
    <3>1. Cardinality(Restored(start) \cap moved) = 0
      BY <2>4, FS_EmptySet
    <3>2. Cardinality(Restored(start) \cup moved) =
              Cardinality(Restored(start)) + Cardinality(moved) - Cardinality(Restored(start) \cap moved)
      BY <1>5, <2>6, FS_Union
    <3> QED BY <1>5, <2>6, <3>1, <3>2
  <2>9. Cardinality(Restored(start) \cup moved) <= Cardinality(Restored(start + ChunkSize))
    BY <1>5, <2>5, FS_Subset
  <2>10. Imported(b) = Len(validNodes[b]) /\ Len(validNodes[b]) <= Cardinality(Kept(b))
    BY <1>1, <1>8 DEF Imported, ChunkInv
  <2>11. Cardinality(Restored(start)) + Imported(b) <= Cardinality(Restored(start + ChunkSize))
    BY <1>5, <2>1, <2>6, <2>7, <2>8, <2>9, <2>10
  <2> QED BY <1>2, <2>11 DEF start
<1> QED BY <1>7, <1>8

LEMMA CountInvInit == RestoreInit => CountInv
<1> SUFFICES ASSUME RestoreInit
             PROVE  CountInv
  OBVIOUS
<1>1. TypeInv /\ file \in File /\ turn = 1 /\ processed = 0 /\ ChunkSize \in Nat
  BY TypeInvInit, RestoreAssumption DEF RestoreInit
<1>2. ASSUME NEW b \in Bulk
      PROVE  ChunkInv(b)
  <2>1. Len(validNodes[b]) = 0 /\ bulkAnswer[b] = "none"
    BY DEF RestoreInit, Init, ImportInit
  <2> QED BY <1>1, <2>1, KeptTypes DEF ChunkInv, TypeInv, TypeOK
<1>3. 0 <= Cardinality(Restored((turn - 1) * ChunkSize))
  BY <1>1, RestoredTypes
<1> QED BY <1>1, <1>2, <1>3, ChunksCut DEF CountInv

LEMMA CountInvStep ==
    TypeInv /\ TypeInv' /\ BarrierInv /\ CountInv /\ [RestoreNext]_allVars => CountInv'
<1> SUFFICES ASSUME TypeInv, TypeInv', BarrierInv, CountInv, [RestoreNext]_allVars
             PROVE  CountInv'
  OBVIOUS
<1>1. /\ file \in File /\ turn \in Nat \ {0} /\ processed \in Nat /\ ChunkSize \in Nat
      /\ UNCHANGED file /\ [Next]_vars
  BY PageIsAClient, RestoreAssumption DEF CountInv, RestoreNext, Serve, NextChunk, allVars, restoreVars
<1>2. \A c \in Bulk : ChunkInv(c)'
  BY <1>1, ChunkInvStep DEF CountInv
<1>3. UNCHANGED batch
  BY <1>1, OtherImports DEF TypeInv, TypeOK, Next, Moderate, Crash, vars, importVars
<1>4. \A i \in DOMAIN Uploads : batch'[Uploads[i]] = Chunk(file', i)
  BY <1>1, <1>3 DEF CountInv
<1>5. IDs \cup removed \subseteq (IDs \cup removed)'
  BY <1>1, NothingLost
<1>6. PICK n \in Nat : n = (turn - 1) * ChunkSize
  BY <1>1
<1>7. /\ Cardinality(Restored(n)) \in Nat /\ Cardinality(Restored(n)) <= Cardinality(Restored(n)')
      /\ Cardinality(Restored(n)') \in Nat /\ processed <= Cardinality(Restored(n))
  <2>1. IsFiniteSet(Restored(n)') /\ Cardinality(Restored(n)') \in Nat
    <3>1. Restored(n)' \subseteq DOMAIN file
      BY <1>1 DEF Restored
    <3> QED BY <1>1, <3>1, FileTypes, FS_Subset, FS_CardinalityType
  <2> QED BY <1>1, <1>5, <1>6, <2>1, RestoredTypes, MoreRestored DEF CountInv
<1>8. CASE UNCHANGED <<turn, processed>>
  <2>1. (turn' - 1) * ChunkSize = n
    BY <1>6, <1>8
  <2>2. Restored((turn - 1) * ChunkSize)' = Restored(n)'
    BY <2>1 DEF Restored
  <2> QED BY <1>1, <1>2, <1>4, <1>7, <1>8, <2>2 DEF CountInv
<1>9. CASE NextChunk
  <2>1. PICK b \in Bulk : OnItsWay(b) /\ processed' = processed + Imported(b)
    BY <1>9 DEF NextChunk
  <2>2. turn' = turn + 1 /\ UNCHANGED <<nodes, removed>>
    BY <1>9 DEF NextChunk, vars, dbVars, moderationVars
  <2>3. (turn' - 1) * ChunkSize = turn * ChunkSize /\ turn' \in Nat \ {0} /\ turn * ChunkSize \in Nat
    BY <1>1, <2>2
  <2>4. Restored((turn - 1) * ChunkSize)' = Restored(turn * ChunkSize)
    BY <1>1, <2>2, <2>3 DEF Restored, IDs, NodeID
  <2>5. Imported(b) \in Nat
    BY KeptTypes DEF Imported, TypeInv, TypeOK
  <2>6. Cardinality(Restored(n)) + Imported(b) <= Cardinality(Restored(turn * ChunkSize))
    BY <1>6, <2>1, ChunkCounts
  <2>7. Cardinality(Restored(turn * ChunkSize)) \in Nat
    BY <1>1, <2>3, RestoredTypes
  <2>8. processed' \in Nat /\ processed' <= Cardinality(Restored((turn - 1) * ChunkSize))'
    BY <1>1, <1>7, <2>1, <2>4, <2>5, <2>6, <2>7
  <2> QED BY <1>1, <1>2, <1>4, <2>3, <2>8 DEF CountInv
<1> QED BY <1>8, <1>9 DEF RestoreNext, Serve, allVars, restoreVars

\* The page counts no node that is not, or was not, stored: whatever was dropped from a chunk,
\* failed with it, was in the backup twice, or was answered and then lost.
THEOREM RestoreCountsTrueHolds == RestoreSpec => []RestoreCountsTrue
<1>1. RestoreInit => Init
  BY DEF RestoreInit
<1>2. RestoreSpec => [](TypeInv /\ BarrierInv /\ CountInv)
  BY <1>1, PageIsAClient, TypeInvInit, TypeInvStep, BarrierInvInit, BarrierInvStep,
     CountInvInit, CountInvStep, PTL DEF RestoreSpec
<1>3. CountInv => RestoreCountsTrue
  <2> SUFFICES ASSUME CountInv
               PROVE  RestoreCountsTrue
    OBVIOUS
  <2> DEFINE all == {i \in DOMAIN file : NodeID(file[i]) \in IDs \cup removed}
             some == Restored((turn - 1) * ChunkSize)
  <2>1. file \in File /\ processed \in Nat /\ processed <= Cardinality(some)
    BY DEF CountInv
  <2>2. some \subseteq all /\ all \subseteq DOMAIN file
    BY DEF Restored
  <2> HIDE DEF some, all
  <2>3. IsFiniteSet(all)
    BY <2>1, <2>2, FileTypes, FS_Subset
  <2>4. IsFiniteSet(some) /\ Cardinality(some) <= Cardinality(all)
    BY <2>2, <2>3, FS_Subset
  <2>5. Cardinality(some) \in Nat /\ Cardinality(all) \in Nat
    BY <2>3, <2>4, FS_CardinalityType
  <2> QED BY <2>1, <2>4, <2>5 DEF RestoreCountsTrue, all
<1> QED BY <1>2, <1>3, PTL
=============================================================================
