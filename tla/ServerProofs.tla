---------------------------- MODULE ServerProofs ----------------------------
(****************************************************************************)
(* Machine-checked proofs about Server, for every value of its constants:   *)
(* bans that stand hold, no nonce is accepted twice, and what a server      *)
(* promises its clients, down to the ledger it implements.                  *)
(****************************************************************************)
EXTENDS Server, FiniteSetTheorems, TLAPS

(****************************************************************************)
(* TypeOK                                                                   *)
(****************************************************************************)

\* Both ways a handler goes on keep its stage and its answer in their types.
LEMMA GotoTypes ==
    ASSUME NEW r \in Request, NEW s \in Stages, PublishTypeOK, Goto(r, s)
    PROVE  stage' \in [Request -> Stages] /\ answer' \in [Request -> Answers]
BY DEF PublishTypeOK, Goto

LEMMA ReplyTypes ==
    ASSUME NEW r \in Request, NEW a \in Answers, PublishTypeOK, Reply(r, a)
    PROVE  stage' \in [Request -> Stages] /\ answer' \in [Request -> Answers]
BY DEF PublishTypeOK, Reply, Stages

\* A step of a publish request keeps the variables of its own module in their types.
LEMMA PublishKeepsPublishTypes ==
    ASSUME DatabaseTypeOK, PublishTypeOK, NEW r \in Request, PublishStep(r)
    PROVE  PublishTypeOK'
<1>a. \A s \in Stages : Goto(r, s) => stage' \in [Request -> Stages] /\ answer' \in [Request -> Answers]
  BY GotoTypes
<1>b. \A a \in Answers : Reply(r, a) => stage' \in [Request -> Stages] /\ answer' \in [Request -> Answers]
  BY ReplyTypes
<1>c. stage' \in [Request -> Stages] /\ answer' \in [Request -> Answers]
  <2>1. CASE Arrive(r) BY <2>1, <1>a DEF Arrive, Stages
  <2>2. CASE Banlist(r) BY <2>2, <1>a, <1>b DEF Banlist, Stages, Answers, Acknowledged
  <2>3. CASE FilterWords(r) BY <2>3, <1>a, <1>b DEF FilterWords, FailOpenCheck, Stages, Answers, Acknowledged
  <2>4. CASE FilterHash(r) BY <2>4, <1>a, <1>b DEF FilterHash, FailOpenCheck, Stages, Answers, Acknowledged
  <2>5. CASE Whitelist(r) BY <2>5, <1>a, <1>b DEF Whitelist, Stages, Answers, Acknowledged
  <2>6. CASE Validate(r) BY <2>6, <1>a, <1>b DEF Validate, Stages, Answers, Acknowledged
  <2>7. CASE MarkNonce(r) BY <2>7, <1>a, <1>b DEF MarkNonce, Stages, Answers, Acknowledged
  <2>8. CASE CheckSignature(r) BY <2>8, <1>a, <1>b DEF CheckSignature, Stages, Answers, Acknowledged
  <2>9. CASE CheckContentBan(r) BY <2>9, <1>a, <1>b DEF CheckContentBan, FailOpenCheck, Stages, Answers, Acknowledged
  <2>10. CASE Lookup(r) BY <2>10, <1>a, <1>b DEF Lookup, Stages, Answers, Acknowledged
  <2>11. CASE Create(r) BY <2>11, <1>a, <1>b DEF Create, Stages, Answers, Acknowledged
  <2> QED BY <2>1, <2>2, <2>3, <2>4, <2>5, <2>6, <2>7, <2>8, <2>9, <2>10, <2>11 DEF PublishStep
<1>d. UNCHANGED <<from, post>> /\ now' \in [Request -> 0..MaxClock]
      /\ blind' \in [Request -> SUBSET {"words", "hash", "content_ban"}]
  <2> USE DEF DatabaseTypeOK, PublishTypeOK
  <2>1. CASE Arrive(r) BY <2>1 DEF Arrive
  <2>2. CASE Banlist(r) BY <2>2 DEF Banlist
  <2>3. CASE FilterWords(r) BY <2>3 DEF FilterWords, FailOpenCheck
  <2>4. CASE FilterHash(r) BY <2>4 DEF FilterHash, FailOpenCheck
  <2>5. CASE Whitelist(r) BY <2>5 DEF Whitelist
  <2>6. CASE Validate(r) BY <2>6 DEF Validate
  <2>7. CASE MarkNonce(r) BY <2>7 DEF MarkNonce
  <2>8. CASE CheckSignature(r) BY <2>8 DEF CheckSignature
  <2>9. CASE CheckContentBan(r) BY <2>9 DEF CheckContentBan, FailOpenCheck
  <2>10. CASE Lookup(r) BY <2>10 DEF Lookup
  <2>11. CASE Create(r) BY <2>11 DEF Create
  <2> QED BY <2>1, <2>2, <2>3, <2>4, <2>5, <2>6, <2>7, <2>8, <2>9, <2>10, <2>11 DEF PublishStep
<1>e. clock' = clock /\ accepted' \subseteq [by: Request, stamp: 0..MaxClock, when: 0..MaxClock]
  <2> USE DEF DatabaseTypeOK, PublishTypeOK
  <2>7. CASE MarkNonce(r)
    <3>1. \A t \in now[r]..clock : [by |-> r, stamp |-> t, when |-> clock]
                                      \in [by: Request, stamp: 0..MaxClock, when: 0..MaxClock]
      BY TimeAssumption
    <3> QED BY <2>7, <3>1 DEF MarkNonce
  <2>1. CASE UNCHANGED <<clock, accepted>>
    BY <2>1
  <2> QED BY <2>7, <2>1 DEF PublishStep, Arrive, Banlist, FilterWords, FilterHash, FailOpenCheck,
             Whitelist, Validate, CheckSignature, CheckContentBan, Lookup, Create
<1> QED BY <1>c, <1>d, <1>e DEF PublishTypeOK

\* What an INSERT stores of a document is a row of nodes.
LEMMA InsertTypes ==
    ASSUME DatabaseTypeOK, NEW d \in Document, InsertNode(d, NodeID(d))
    PROVE  nodes' \subseteq Row
<1>1. NodeID(d) \in ID
  BY DigestAssumption DEF NodeID, Document
<1>2. NodeRow(d, NodeID(d), clock) \in Row
  <2>1. clock \in Nat
    BY TimeAssumption DEF DatabaseTypeOK
  <2> QED BY <1>1, <2>1 DEF NodeRow, Row, Document
<1> QED BY <1>2 DEF InsertNode, DatabaseTypeOK

\* A failure is counted within its bound.
LEMMA FaultTypes ==
    ASSUME DatabaseTypeOK, Fault \/ UNCHANGED faults
    PROVE  faults' \in 0..MaxFaults
BY TimeAssumption DEF DatabaseTypeOK, Fault

\* A step of a publish request keeps the tables in their types.
LEMMA PublishKeepsDatabaseTypes ==
    ASSUME DatabaseTypeOK, PublishTypeOK, FieldsChecked, NEW r \in Request, PublishStep(r)
    PROVE  DatabaseTypeOK'
<1>1. post[r] \in Document
  BY PublishAssumption DEF PublishTypeOK
<1>2. faults' \in 0..MaxFaults
  <2>1. Fault \/ UNCHANGED faults
    BY DEF PublishStep, Arrive, Banlist, FilterWords, FilterHash, FailOpenCheck, Whitelist,
           Validate, MarkNonce, CheckSignature, CheckContentBan, Lookup, Create, dbVars
  <2> QED BY <2>1, FaultTypes
<1>3. UNCHANGED <<clock, banned_users, banned_words, banned_hashes, whitelist>>
  BY DEF PublishStep, Arrive, Banlist, FilterWords, FilterHash, FailOpenCheck, Whitelist,
         Validate, MarkNonce, CheckSignature, CheckContentBan, Lookup, Create, dbVars
<1>4. used_nonces' \subseteq NonceRow
  <2>1. CASE MarkNonce(r)
    <3>1. post[r].nonce \in Nonce /\ post[r].author \in Key
      BY <1>1, <2>1 DEF MarkNonce, FieldsChecked, FieldsPresent, Document
    <3>2. \A t \in now[r]..clock : [nonce |-> post[r].nonce, author |-> post[r].author, created |-> t]
                                       \in NonceRow
      <4>1. now[r] \in Nat /\ clock \in Nat
        BY TimeAssumption DEF DatabaseTypeOK, PublishTypeOK
      <4> QED BY <3>1, <4>1 DEF NonceRow
    <3> QED BY <2>1, <3>2 DEF MarkNonce, MarkUsed, DatabaseTypeOK
  <2>2. CASE UNCHANGED used_nonces
    BY <2>2 DEF DatabaseTypeOK
  <2> QED BY <2>1, <2>2 DEF PublishStep, Arrive, Banlist, FilterWords, FilterHash, FailOpenCheck,
             Whitelist, Validate, CheckSignature, CheckContentBan, Lookup, Create, dbVars
<1>5. nodes' \subseteq Row
  <2>1. CASE Create(r)
    BY <1>1, <2>1, InsertTypes DEF Create, DatabaseTypeOK
  <2>2. CASE UNCHANGED nodes
    BY <2>2 DEF DatabaseTypeOK
  <2> QED BY <2>1, <2>2 DEF PublishStep, Arrive, Banlist, FilterWords, FilterHash, FailOpenCheck,
             Whitelist, Validate, MarkNonce, CheckSignature, CheckContentBan, Lookup, dbVars
<1> QED BY <1>2, <1>3, <1>4, <1>5 DEF DatabaseTypeOK

\* Validate is the only way to the nonce check, and lets no document without a nonce through.
LEMMA PublishKeepsFieldsChecked ==
    ASSUME PublishTypeOK, FieldsChecked, NEW r \in Request, PublishStep(r)
    PROVE  FieldsChecked'
<1>1. UNCHANGED post /\ \A q \in Request \ {r} : stage'[q] = stage[q]
  BY DEF PublishTypeOK, PublishStep, Arrive, Banlist, FilterWords, FilterHash, FailOpenCheck, Whitelist,
         Validate, MarkNonce, CheckSignature, CheckContentBan, Lookup, Create, Goto, Reply
<1>2. stage'[r] = "nonce" => FieldsPresent(post[r])
  BY DEF PublishTypeOK, PublishStep, Arrive, Banlist, FilterWords, FilterHash, FailOpenCheck, Whitelist,
         Validate, Admissible, MarkNonce, CheckSignature, CheckContentBan, Lookup, Create, Goto, Reply
<1> QED BY <1>1, <1>2 DEF FieldsChecked, FieldsPresent

\* A step of an import keeps every variable in its type.
LEMMA ImportKeepsTypes ==
    ASSUME DatabaseTypeOK, ImportTypeOK, NEW b \in Bulk, ImportStep(b)
    PROVE  DatabaseTypeOK' /\ ImportTypeOK'
<1>1. batch[b] \in Seq(Document) /\ validNodes[b] \in Seq(Document)
  BY ImportAssumption DEF ImportTypeOK
<1>2. faults' \in 0..MaxFaults
  <2>1. Fault \/ UNCHANGED faults
    BY DEF ImportStep, BulkArrive, BulkBanlist, BulkFilter, BulkWhitelist, BulkValidate,
           EndOfBatch, CreateBatch
  <2> QED BY <2>1, FaultTypes
<1>3. UNCHANGED <<importTables, batch, bulkFrom>>
  BY DEF ImportStep, BulkArrive, BulkBanlist, BulkFilter, BulkWhitelist, BulkValidate,
         EndOfBatch, CreateBatch
<1>4. nodes' \subseteq Row
  <2>1. CASE CreateBatch(b)
    <3>1. ASSUME NEW i \in DOMAIN validNodes[b]
          PROVE  NodeRow(validNodes[b][i], NodeID(validNodes[b][i]), clock) \in Row
      <4>1. validNodes[b][i] \in Document
        BY <1>1
      <4>2. NodeID(validNodes[b][i]) \in ID
        BY <4>1, DigestAssumption DEF NodeID, Document
      <4>3. clock \in Nat
        BY TimeAssumption DEF DatabaseTypeOK
      <4> QED BY <4>1, <4>2, <4>3 DEF NodeRow, Row, Document
    <3>2. InsertBatch(validNodes[b]) => nodes' \subseteq Row
      BY <3>1 DEF InsertBatch, DatabaseTypeOK
    <3> QED BY <2>1, <3>2 DEF CreateBatch, DatabaseTypeOK
  <2>2. CASE UNCHANGED nodes
    BY <2>2 DEF DatabaseTypeOK
  <2> QED BY <2>1, <2>2 DEF ImportStep, BulkArrive, BulkBanlist, BulkFilter, BulkWhitelist,
             BulkValidate, EndOfBatch
<1>5. DatabaseTypeOK'
  BY <1>2, <1>3, <1>4 DEF DatabaseTypeOK, importTables
<1> DEFINE Typed == bulkStage' \in [Bulk -> BulkStages]
                    /\ bulkAnswer' \in [Bulk -> {"none", "imported", "refused", "error", "lost"}]
<1>6. Typed
  <2>1. \A s \in BulkStages : BulkGoto(b, s) => Typed
    BY DEF ImportTypeOK, BulkGoto
  <2>2. \A a \in {"imported", "refused", "error"} : BulkReply(b, a) => Typed
    BY DEF ImportTypeOK, BulkReply, BulkStages
  <2>3. CASE BulkArrive(b) BY <2>3, <2>1 DEF BulkArrive, BulkStages
  <2>4. CASE BulkBanlist(b) BY <2>4, <2>1, <2>2 DEF BulkBanlist, BulkStages
  <2>5. CASE BulkFilter(b) BY <2>5, <2>1, <2>2 DEF BulkFilter, BulkStages
  <2>6. CASE BulkWhitelist(b) BY <2>6, <2>1, <2>2 DEF BulkWhitelist, BulkStages
  <2>7. CASE BulkValidate(b) BY <2>7 DEF BulkValidate, ImportTypeOK
  <2>8. CASE EndOfBatch(b) BY <2>8, <2>1, <2>2 DEF EndOfBatch, BulkStages
  <2>9. CASE CreateBatch(b) BY <2>9, <2>2 DEF CreateBatch
  <2> QED BY <2>3, <2>4, <2>5, <2>6, <2>7, <2>8, <2>9 DEF ImportStep
<1>7. /\ validNodes' \in [Bulk -> Seq(Document)]
      /\ position' \in [Bulk -> Nat \ {0}]
  <2>1. CASE BulkValidate(b)
    <3>1. batch[b][position[b]] \in Document
      BY <1>1, <2>1 DEF BulkValidate
    <3>2. Append(validNodes[b], batch[b][position[b]]) \in Seq(Document)
      BY <1>1, <3>1
    <3>3. /\ validNodes \in [Bulk -> Seq(Document)]
          /\ position \in [Bulk -> Nat \ {0}]
      BY DEF ImportTypeOK
    <3>4. \/ UNCHANGED validNodes
          \/ validNodes' = [validNodes EXCEPT ![b] = Append(validNodes[b], batch[b][position[b]])]
      BY <2>1 DEF BulkValidate
    <3>5. validNodes' \in [Bulk -> Seq(Document)]
      BY <3>2, <3>3, <3>4
    <3>6. position[b] + 1 \in Nat \ {0} /\ position' = [position EXCEPT ![b] = position[b] + 1]
      BY <2>1, <3>3 DEF BulkValidate
    <3>7. position' \in [Bulk -> Nat \ {0}]
      BY <3>3, <3>6
    <3> QED BY <3>5, <3>7
  <2>2. CASE UNCHANGED <<validNodes, position>>
    BY <2>2 DEF ImportTypeOK
  <2> QED BY <2>1, <2>2 DEF ImportStep, BulkArrive, BulkBanlist, BulkFilter, BulkWhitelist,
             EndOfBatch, CreateBatch
<1> QED BY <1>3, <1>5, <1>6, <1>7 DEF ImportTypeOK

\* A call of a moderator keeps every variable in its type.
LEMMA ModerationKeepsTypes ==
    ASSUME DatabaseTypeOK, ModerationTypeOK, ModerationStep
    PROVE  DatabaseTypeOK' /\ ModerationTypeOK'
<1> USE DEF DatabaseTypeOK, ModerationTypeOK, moderationVars
<1>1. CASE \E k \in Key : BanUser(k) \/ UnbanUser(k) \/ AddToWhitelist(k) \/ RemoveFromWhitelist(k)
  BY <1>1 DEF BanUser, UnbanUser, AddToWhitelist, RemoveFromWhitelist
<1>2. CASE \E w \in Word : BanWord(w) \/ UnbanWord(w)
  BY <1>2 DEF BanWord, UnbanWord
<1>3. ASSUME NEW rows \in SUBSET nodes, DeleteRows(rows)
      PROVE  nodes' \subseteq Row /\ removed' \subseteq ID
  BY <1>3 DEF DeleteRows, Row
<1>4. CASE \E id \in IDs : DeleteNode(id)
  <2>1. PICK id \in IDs : DeleteNode(id)
    BY <1>4
  <2>2. DeleteRows({n \in nodes : n.id = id})
    BY <2>1 DEF DeleteNode
  <2>3. nodes' \subseteq Row /\ removed' \subseteq ID
    BY <1>3, <2>2
  <2> QED BY <2>1, <2>3 DEF DeleteNode
<1>5. CASE \E h \in Hash : RecordBan(h)
  <2>1. PICK h \in Hash : RecordBan(h)
    BY <1>5
  <2>2. faults' \in 0..MaxFaults
    BY <2>1, FaultTypes DEF RecordBan
  <2> QED BY <2>1, <2>2 DEF RecordBan
<1>6. CASE \E h \in Hash : Purge(h)
  <2>1. PICK h \in Hash : Purge(h)
    BY <1>6
  <2>2. faults' \in 0..MaxFaults
    BY <2>1, FaultTypes DEF Purge
  <2>3. StoredWith(h) \in SUBSET nodes
    BY DEF StoredWith
  <2>4. nodes' \subseteq Row /\ removed' \subseteq ID
    BY <1>3, <2>1, <2>3 DEF Purge
  <2> QED BY <2>1, <2>2, <2>4 DEF Purge
<1>7. CASE \E h \in Hash : RemoveBannedHash(h)
  BY <1>7 DEF RemoveBannedHash
<1> QED BY <1>1, <1>2, <1>4, <1>5, <1>6, <1>7 DEF ModerationStep

\* The steps that belong to no client: a crash, the cleanup of the nonces, the clock.
LEMMA CrashKeepsTypes ==
    ASSUME TypeOK, Crash
    PROVE  TypeOK' /\ (FieldsChecked => FieldsChecked')
<1>1. DatabaseTypeOK'
  BY FaultTypes DEF TypeOK, Crash, DatabaseTypeOK, dbVars
<1>2. PublishTypeOK'
  BY DEF TypeOK, Crash, PublishTypeOK, Stages, Answers
<1>3. ModerationTypeOK'
  BY DEF TypeOK, Crash, ModerationTypeOK
<1>4. ImportTypeOK'
  BY DEF TypeOK, Crash, ImportTypeOK, BulkStages
<1>5. FieldsChecked => FieldsChecked'
  BY DEF Crash, FieldsChecked, FieldsPresent
<1> QED BY <1>1, <1>2, <1>3, <1>4, <1>5 DEF TypeOK

LEMMA CleanupKeepsTypes ==
    ASSUME DatabaseTypeOK, CleanupExpired
    PROVE  DatabaseTypeOK' /\ UNCHANGED clock
BY DEF DatabaseTypeOK, CleanupExpired

LEMMA TickKeepsTypes ==
    ASSUME DatabaseTypeOK, Tick
    PROVE  DatabaseTypeOK'
BY TimeAssumption DEF DatabaseTypeOK, Tick, dbVars

\* Types do not depend on what a step leaves alone.
LEMMA PublishTypesStay ==
    ASSUME PublishTypeOK, UNCHANGED <<stage, from, post, now, answer, blind, accepted>>
    PROVE  PublishTypeOK' /\ (FieldsChecked => FieldsChecked')
BY DEF PublishTypeOK, FieldsChecked, FieldsPresent

LEMMA ModerationTypesStay ==
    ASSUME ModerationTypeOK, UNCHANGED moderationVars
    PROVE  ModerationTypeOK'
BY DEF ModerationTypeOK, moderationVars

LEMMA ImportTypesStay ==
    ASSUME ImportTypeOK, UNCHANGED <<bulkStage, bulkFrom, batch, validNodes, position, bulkAnswer>>
    PROVE  ImportTypeOK'
BY DEF ImportTypeOK

\* Type correctness of the whole server. FieldsChecked strengthens it: without it a document
\* with no nonce might be on its way into used_nonces, whose column is NOT NULL.
LEMMA TypeInvInit == Init => TypeInv
BY TimeAssumption DEF Init, DatabaseInit, PublishInit, ModerationInit, ImportInit, TypeInv, TypeOK,
   DatabaseTypeOK, PublishTypeOK, ModerationTypeOK, ImportTypeOK, FieldsChecked, Stages, Answers,
   BulkStages, Row, NonceRow

LEMMA TypeInvStep == TypeInv /\ [Next]_vars => TypeInv'
<1> SUFFICES ASSUME TypeInv, [Next]_vars
             PROVE  TypeInv'
  OBVIOUS
<1> USE DEF TypeInv, TypeOK
<1>1. ASSUME NEW r \in Request, PublishStep(r), UNCHANGED <<moderationVars, importVars>>
      PROVE  TypeInv'
  BY <1>1, PublishKeepsPublishTypes, PublishKeepsDatabaseTypes, PublishKeepsFieldsChecked,
     ModerationTypesStay, ImportTypesStay DEF importVars
<1>2. ASSUME NEW b \in Bulk, ImportStep(b), UNCHANGED <<moderationVars, requestVars>>
      PROVE  TypeInv'
  BY <1>2, ImportKeepsTypes, PublishTypesStay, ModerationTypesStay DEF requestVars
<1>3. CASE Moderate
  BY <1>3, ModerationKeepsTypes, PublishTypesStay, ImportTypesStay DEF Moderate
<1>4. CASE CleanupExpired /\ UNCHANGED <<requestVars, moderationVars, importVars>>
  BY <1>4, CleanupKeepsTypes, PublishTypesStay, ModerationTypesStay, ImportTypesStay
     DEF requestVars, importVars
<1>5. CASE Tick /\ UNCHANGED <<requestVars, moderationVars, importVars>>
  BY <1>5, TickKeepsTypes, PublishTypesStay, ModerationTypesStay, ImportTypesStay
     DEF requestVars, importVars
<1>6. CASE Crash
  BY <1>6, CrashKeepsTypes
<1>7. CASE UNCHANGED vars
  <2>1. DatabaseTypeOK'
    BY <1>7 DEF vars, dbVars, DatabaseTypeOK
  <2> QED BY <1>7, <2>1, PublishTypesStay, ModerationTypesStay, ImportTypesStay
          DEF vars, requestVars, importVars
<1> QED BY <1>1, <1>2, <1>3, <1>4, <1>5, <1>6, <1>7 DEF Next

\* Every variable of the server stays in its type, whatever the sets of keys, documents,
\* requests and batches are, and however the handlers, the moderators and crashes interleave.
THEOREM TypeCorrect == Spec => []TypeOK
<1>1. Spec => []TypeInv
  BY TypeInvInit, TypeInvStep, PTL DEF Spec
<1>2. TypeInv => TypeOK
  BY DEF TypeInv
<1> QED BY <1>1, <1>2, PTL

(****************************************************************************)
(* ClosedBarrier                                                            *)
(****************************************************************************)

\* The bans a request has to fear are read off four tables.
LEMMA BansStay ==
    ASSUME UNCHANGED <<banned_users, banned_words, banned_hashes, whitelist>>
    PROVE  Bans' = Bans
BY DEF Bans

\* Moving on or replying concerns the request itself only.
LEMMA OnlyItself ==
    ASSUME PublishTypeOK, BarrierInv, NEW r \in Request, PublishStep(r)
    PROVE  /\ UNCHANGED <<from, post>>
           /\ \A q \in Request \ {r} :
                  stage'[q] = stage[q] /\ answer'[q] = answer[q] /\ standing'[q] = standing[q]
BY DEF PublishTypeOK, BarrierInv, PublishStep, Arrive, Banlist, FilterWords, FilterHash, FailOpenCheck,
       Whitelist, Validate, MarkNonce, CheckSignature, CheckContentBan, Lookup, Create, Goto, Reply

\* A publish request gets behind a check that fails closed only by passing it.
LEMMA PublishKeepsBarrier ==
    ASSUME PublishTypeOK, BarrierInv, NEW r \in Request, PublishStep(r), UNCHANGED importVars
    PROVE  BarrierInv'
<1>1. UNCHANGED <<banned_users, banned_words, banned_hashes, whitelist>>
  BY DEF PublishStep, Arrive, Banlist, FilterWords, FilterHash, FailOpenCheck, Whitelist,
         Validate, MarkNonce, CheckSignature, CheckContentBan, Lookup, Create, dbVars
<1>2. Bans' = Bans
  BY <1>1, BansStay
<1>3. \A b \in Bulk : BulkBarrier(b)'
  BY DEF BarrierInv, BulkBarrier, BulkPastBanlist, importVars
<1>4. standing' \in [Request -> SUBSET Bans]
  <2>1. CASE Arrive(r)
    BY <2>1 DEF Arrive, BarrierInv
  <2>2. CASE UNCHANGED standing
    BY <2>2 DEF BarrierInv
  <2> QED BY <2>1, <2>2 DEF PublishStep, Banlist, FilterWords, FilterHash, FailOpenCheck, Whitelist,
             Validate, MarkNonce, CheckSignature, CheckContentBan, Lookup, Create
<1>5. RequestBarrier(r)'
  <2>1. RequestBarrier(r) /\ stage[r] \in Stages /\ UNCHANGED <<from, post>>
    BY OnlyItself DEF BarrierInv, PublishTypeOK
  <2> USE DEF RequestBarrier, Past, BehindBanlist, BehindWhitelist, Stages, Acknowledged,
              Goto, Reply, PublishTypeOK
  <2>2. CASE Arrive(r) BY <2>1, <2>2 DEF Arrive
  <2>3. CASE Banlist(r)
    <3>1. from[r] \notin banned_users => <<"user", from[r]>> \notin Bans
      BY DEF Bans
    <3> QED BY <2>1, <2>3, <3>1 DEF Banlist, BarrierInv
  <2>4. CASE FilterWords(r) BY <2>1, <2>4 DEF FilterWords, FailOpenCheck
  <2>5. CASE FilterHash(r) BY <2>1, <2>5 DEF FilterHash, FailOpenCheck
  <2>6. CASE Whitelist(r)
    <3>1. IsWhitelisted(post[r]) => <<"stranger", post[r].author>> \notin Bans
      BY DEF Bans, IsWhitelisted
    <3> QED BY <2>1, <2>6, <3>1 DEF Whitelist, BarrierInv
  <2>7. CASE Validate(r) BY <2>1, <2>7 DEF Validate
  <2>8. CASE MarkNonce(r) BY <2>1, <2>8 DEF MarkNonce
  <2>9. CASE CheckSignature(r) BY <2>1, <2>9 DEF CheckSignature
  <2>10. CASE CheckContentBan(r) BY <2>1, <2>10 DEF CheckContentBan, FailOpenCheck
  <2>11. CASE Lookup(r) BY <2>1, <2>11 DEF Lookup
  <2>12. CASE Create(r) BY <2>1, <2>12 DEF Create
  <2> QED BY <2>2, <2>3, <2>4, <2>5, <2>6, <2>7, <2>8, <2>9, <2>10, <2>11, <2>12 DEF PublishStep
<1>6. \A q \in Request \ {r} : RequestBarrier(q)'
  BY OnlyItself DEF BarrierInv, RequestBarrier, Past
<1> QED BY <1>2, <1>3, <1>4, <1>5, <1>6 DEF BarrierInv, importVars

\* The same for an import, whose only check that fails closed is the first.
LEMMA ImportKeepsBarrier ==
    ASSUME ImportTypeOK, BarrierInv, NEW b \in Bulk, ImportStep(b), UNCHANGED requestVars
    PROVE  BarrierInv'
<1>1. UNCHANGED <<banned_users, banned_words, banned_hashes, whitelist, bulkFrom>>
  BY DEF ImportStep, BulkArrive, BulkBanlist, BulkFilter, BulkWhitelist, BulkValidate,
         EndOfBatch, CreateBatch, importTables
<1>2. Bans' = Bans
  BY <1>1, BansStay
<1>3. \A r \in Request : RequestBarrier(r)'
  BY DEF BarrierInv, RequestBarrier, Past, requestVars
<1>4. bulkStanding' \in [Bulk -> SUBSET Bans]
  <2>1. CASE BulkArrive(b)
    BY <2>1 DEF BulkArrive, BarrierInv
  <2>2. CASE UNCHANGED bulkStanding
    BY <2>2 DEF BarrierInv
  <2> QED BY <2>1, <2>2 DEF ImportStep, BulkBanlist, BulkFilter, BulkWhitelist, BulkValidate,
             EndOfBatch, CreateBatch
<1>5. BulkBarrier(b)'
  <2>1. BulkBarrier(b) /\ bulkStage[b] \in BulkStages
    BY DEF BarrierInv, ImportTypeOK
  <2> USE DEF BulkBarrier, BulkPastBanlist, BulkBehindBanlist, BulkStages, BulkGoto, BulkReply,
              ImportTypeOK
  <2>2. CASE BulkArrive(b) BY <2>1, <2>2 DEF BulkArrive
  <2>3. CASE BulkBanlist(b)
    <3>1. bulkFrom[b] \notin banned_users => <<"user", bulkFrom[b]>> \notin Bans
      BY DEF Bans
    <3> QED BY <1>1, <2>1, <2>3, <3>1 DEF BulkBanlist, BarrierInv
  <2>4. CASE BulkFilter(b) BY <1>1, <2>1, <2>4 DEF BulkFilter
  <2>5. CASE BulkWhitelist(b) BY <1>1, <2>1, <2>5 DEF BulkWhitelist
  <2>6. CASE BulkValidate(b) BY <1>1, <2>1, <2>6 DEF BulkValidate
  <2>7. CASE EndOfBatch(b) BY <1>1, <2>1, <2>7 DEF EndOfBatch
  <2>8. CASE CreateBatch(b) BY <1>1, <2>1, <2>8 DEF CreateBatch
  <2> QED BY <2>2, <2>3, <2>4, <2>5, <2>6, <2>7, <2>8 DEF ImportStep
<1>6. \A c \in Bulk \ {b} :
          bulkStage'[c] = bulkStage[c] /\ bulkAnswer'[c] = bulkAnswer[c] /\ bulkStanding'[c] = bulkStanding[c]
  BY DEF ImportTypeOK, BarrierInv, ImportStep, BulkArrive, BulkBanlist, BulkFilter, BulkWhitelist,
         BulkValidate, EndOfBatch, CreateBatch, BulkGoto, BulkReply
<1>7. \A c \in Bulk \ {b} : BulkBarrier(c)'
  BY <1>1, <1>6 DEF BarrierInv, BulkBarrier, BulkPastBanlist
<1> QED BY <1>2, <1>3, <1>4, <1>5, <1>7 DEF BarrierInv, requestVars

\* A moderator may take bans out of the sets that stood throughout, never add one.
LEMMA ModerateKeepsBarrier == BarrierInv /\ Moderate => BarrierInv'
<1> SUFFICES ASSUME BarrierInv, Moderate
             PROVE  BarrierInv'
  OBVIOUS
<1>1. standing' \in [Request -> SUBSET Bans'] /\ bulkStanding' \in [Bulk -> SUBSET Bans']
  BY DEF Moderate
<1>2. /\ \A r \in Request : standing'[r] \subseteq standing[r]
      /\ \A b \in Bulk : bulkStanding'[b] \subseteq bulkStanding[b]
  BY DEF Moderate, BarrierInv
<1>3. \A r \in Request : RequestBarrier(r)'
  BY <1>2 DEF BarrierInv, RequestBarrier, Past, Moderate
<1>4. \A b \in Bulk : BulkBarrier(b)'
  BY <1>2 DEF BarrierInv, BulkBarrier, BulkPastBanlist, Moderate
<1> QED BY <1>1, <1>3, <1>4 DEF BarrierInv

\* A crash answers nobody.
LEMMA CrashKeepsBarrier == TypeOK /\ BarrierInv /\ Crash => BarrierInv'
<1> SUFFICES ASSUME TypeOK, BarrierInv, Crash
             PROVE  BarrierInv'
  OBVIOUS
<1>1. Bans' = Bans
  BY BansStay DEF Crash, dbVars
<1>2. ASSUME NEW r \in Request
      PROVE  RequestBarrier(r)'
  <2>1. RequestBarrier(r) /\ stage[r] \in Stages
    BY DEF BarrierInv, TypeOK, PublishTypeOK
  <2>2. stage'[r] = IF stage[r] = "idle" THEN "idle" ELSE "done"
    BY DEF Crash
  <2>3. answer'[r] = IF stage[r] \in {"idle", "done"} THEN answer[r] ELSE "lost"
    BY DEF Crash
  <2> QED BY <2>1, <2>2, <2>3 DEF RequestBarrier, Past, BehindBanlist, BehindWhitelist, Stages,
             Acknowledged, Crash
<1>3. ASSUME NEW b \in Bulk
      PROVE  BulkBarrier(b)'
  <2>1. BulkBarrier(b)
    BY DEF BarrierInv
  <2> QED BY <2>1 DEF BulkBarrier, BulkPastBanlist, BulkBehindBanlist, BulkStages, Crash
<1> QED BY <1>1, <1>2, <1>3 DEF BarrierInv, Crash

LEMMA BarrierInvInit == Init => BarrierInv
BY DEF Init, PublishInit, ImportInit, BarrierInv, RequestBarrier, BulkBarrier, Past, BulkPastBanlist,
   BehindBanlist, BehindWhitelist, BulkBehindBanlist, Acknowledged

LEMMA BarrierInvStep == TypeInv /\ BarrierInv /\ [Next]_vars => BarrierInv'
<1> SUFFICES ASSUME TypeInv, BarrierInv, [Next]_vars
             PROVE  BarrierInv'
  OBVIOUS
<1> USE DEF TypeInv, TypeOK
<1>1. ASSUME NEW r \in Request, PublishStep(r), UNCHANGED <<moderationVars, importVars>>
      PROVE  BarrierInv'
  BY <1>1, PublishKeepsBarrier
<1>2. ASSUME NEW b \in Bulk, ImportStep(b), UNCHANGED <<moderationVars, requestVars>>
      PROVE  BarrierInv'
  BY <1>2, ImportKeepsBarrier
<1>3. CASE UNCHANGED <<banned_users, banned_words, banned_hashes, whitelist, requestVars, importVars>>
  <2>1. Bans' = Bans
    BY <1>3, BansStay
  <2>2. \A r \in Request : RequestBarrier(r)'
    BY <1>3 DEF BarrierInv, RequestBarrier, Past, requestVars
  <2>3. \A b \in Bulk : BulkBarrier(b)'
    BY <1>3 DEF BarrierInv, BulkBarrier, BulkPastBanlist, importVars
  <2> QED BY <1>3, <2>1, <2>2, <2>3 DEF BarrierInv, requestVars, importVars
<1> QED BY <1>1, <1>2, <1>3, ModerateKeepsBarrier, CrashKeepsBarrier
        DEF Next, CleanupExpired, Tick, vars, dbVars

\* Nobody whose ban, or whose absence from the whitelist, has stood since the request arrived
\* is ever acknowledged: neither races with the moderators nor failing calls get around
\* IsBannedUser and IsWhitelisted.
THEOREM ClosedBarrierHolds == Spec => []ClosedBarrier
<1>1. Spec => [](TypeInv /\ BarrierInv)
  BY TypeInvInit, TypeInvStep, BarrierInvInit, BarrierInvStep, PTL DEF Spec
<1>2. BarrierInv => ClosedBarrier
  BY DEF BarrierInv, RequestBarrier, BulkBarrier, Past, BulkPastBanlist, ClosedBarrier
<1> QED BY <1>1, <1>2, PTL

(****************************************************************************)
(* Replay protection, for any TTL, any number of requests, and any schedule *)
(* of the cleanup job: no nonce is accepted twice within TTL.               *)
(****************************************************************************)

SpacingInv == NonceInv /\ NonceSpacing

\* A step that forgets no nonce, accepts none, and sends no handler back keeps the invariant.
LEMMA NothingForgotten ==
    ASSUME TypeOK, TypeOK', SpacingInv,
           UNCHANGED <<post, accepted>>,
           used_nonces \subseteq used_nonces',
           clock <= clock',
           \A a \in accepted : stage'[a.by] \in BehindNonce \cup {"done"}
    PROVE  SpacingInv'
<1>1. NonceSpacing'
  BY DEF SpacingInv, NonceSpacing
<1>2. clock \in Nat /\ clock' \in Nat /\ TTL \in Nat
  BY TimeAssumption DEF TypeOK, DatabaseTypeOK
<1>3. ASSUME NEW a \in accepted
      PROVE  /\ a.stamp <= a.when /\ a.when <= clock'
             /\ Remembered(a)' \/ clock' > a.stamp + TTL
  <2>1. a.stamp \in Nat /\ a.when \in Nat
    BY TimeAssumption DEF TypeOK, PublishTypeOK
  <2>2. a.stamp <= a.when /\ a.when <= clock /\ (Remembered(a) \/ clock > a.stamp + TTL)
    BY DEF SpacingInv, NonceInv
  <2>3. Remembered(a) => Remembered(a)'
    BY DEF Remembered
  <2> QED BY <1>2, <2>1, <2>2, <2>3
<1>4. NonceInv'
  BY <1>3 DEF SpacingInv, NonceInv
<1> QED BY <1>1, <1>4 DEF SpacingInv

\* Behind the nonce check there is no way back.
LEMMA PublishNeverReturns ==
    ASSUME PublishTypeOK, NEW r \in Request, PublishStep(r), NEW q \in Request,
           stage[q] \in BehindNonce \cup {"done"}
    PROVE  stage'[q] \in BehindNonce \cup {"done"}
<1>1. CASE q # r
  BY <1>1 DEF PublishTypeOK, PublishStep, Arrive, Banlist, FilterWords, FilterHash, FailOpenCheck,
              Whitelist, Validate, MarkNonce, CheckSignature, CheckContentBan, Lookup, Create, Goto, Reply
<1>2. CASE q = r
  BY <1>2 DEF BehindNonce, PublishTypeOK, PublishStep, Arrive, Banlist, FilterWords, FilterHash,
              FailOpenCheck, Whitelist, Validate, MarkNonce, CheckSignature, CheckContentBan, Lookup,
              Create, Goto, Reply
<1> QED BY <1>1, <1>2

\* MarkUsed accepts a nonce only when every earlier acceptance of it has expired.
LEMMA AcceptanceSpaced ==
    ASSUME TypeOK, TypeOK', FieldsChecked, SpacingInv, NEW r \in Request, stage[r] = "nonce",
           stage'[r] = "signature", \A q \in Request \ {r} : stage'[q] = stage[q],
           UNCHANGED <<post, clock>>,
           NEW t \in now[r]..clock, MarkUsed(post[r].nonce, post[r].author, t),
           accepted' = accepted \cup {[by |-> r, stamp |-> t, when |-> clock]}
    PROVE  SpacingInv'
<1> DEFINE new == [by |-> r, stamp |-> t, when |-> clock]
<1>1. clock \in Nat /\ TTL \in Nat /\ t \in Nat /\ t <= clock
  BY TimeAssumption DEF TypeOK, DatabaseTypeOK, PublishTypeOK
<1>2. \A a \in accepted : a.stamp \in Nat /\ a.when \in Nat /\ a.by \in Request
  BY TimeAssumption DEF TypeOK, PublishTypeOK
<1>3. \A a \in accepted : a.by # r
  BY DEF SpacingInv, NonceInv, BehindNonce
<1>4. ASSUME NEW a \in accepted, post[a.by].author = post[r].author, post[a.by].nonce = post[r].nonce
      PROVE  clock > a.stamp + TTL
  <2>1. ~Remembered(a)
    BY <1>4 DEF MarkUsed, NonceFree, Remembered
  <2> QED BY <2>1 DEF SpacingInv, NonceInv
<1>5. NonceSpacing'
  <2> SUFFICES ASSUME NEW a \in accepted', NEW b \in accepted', a # b,
                      post[a.by].author = post[b.by].author, post[a.by].nonce = post[b.by].nonce
               PROVE  a.when > b.stamp + TTL \/ b.when > a.stamp + TTL
    BY DEF NonceSpacing
  <2>1. CASE a \in accepted /\ b \in accepted
    BY <2>1 DEF SpacingInv, NonceSpacing
  <2>2. CASE a \in accepted /\ b = new
    BY <2>2, <1>4
  <2>3. CASE a = new /\ b \in accepted
    BY <2>3, <1>4
  <2> QED BY <2>1, <2>2, <2>3
<1>6. ASSUME NEW a \in accepted
      PROVE  /\ a.stamp <= a.when /\ a.when <= clock
             /\ stage'[a.by] \in BehindNonce \cup {"done"}
             /\ Remembered(a)' \/ clock > a.stamp + TTL
  <2>1. stage'[a.by] = stage[a.by]
    BY <1>2, <1>3
  <2>2. Remembered(a) => Remembered(a)'
    BY DEF Remembered, MarkUsed
  <2> QED BY <2>1, <2>2 DEF SpacingInv, NonceInv
<1>7. \E u \in used_nonces' : u.nonce = post'[r].nonce /\ u.author = post'[r].author /\ u.created = t
  <2>1. [nonce |-> post[r].nonce, author |-> post[r].author, created |-> t] \in used_nonces'
    BY DEF MarkUsed
  <2> QED BY <2>1
<1>8. NonceInv'
  <2> SUFFICES ASSUME NEW a \in accepted'
               PROVE  /\ a.stamp <= a.when /\ a.when <= clock
                      /\ stage'[a.by] \in BehindNonce \cup {"done"}
                      /\ Remembered(a)' \/ clock > a.stamp + TTL
                      /\ \A b \in accepted' : a.by = b.by => a = b
    BY DEF NonceInv
  <2>1. CASE a \in accepted
    BY <2>1, <1>3, <1>6 DEF SpacingInv, NonceInv
  <2>2. CASE a = new
    BY <2>2, <1>1, <1>3, <1>7 DEF BehindNonce, Remembered
  <2> QED BY <2>1, <2>2
<1> QED BY <1>5, <1>8 DEF SpacingInv

\* Every step of a publish request, MarkNonce above all, keeps the acceptances spaced.
LEMMA PublishKeepsSpacing ==
    ASSUME TypeInv, TypeInv', SpacingInv, NEW r \in Request, PublishStep(r)
    PROVE  SpacingInv'
<1>1. UNCHANGED <<post, clock>>
  BY DEF PublishStep, Arrive, Banlist, FilterWords, FilterHash, FailOpenCheck, Whitelist,
         Validate, MarkNonce, CheckSignature, CheckContentBan, Lookup, Create
<1>2. clock \in Nat
  BY TimeAssumption DEF TypeInv, TypeOK, DatabaseTypeOK
<1>3. CASE UNCHANGED accepted /\ used_nonces \subseteq used_nonces'
  <2>1. \A a \in accepted : stage'[a.by] \in BehindNonce \cup {"done"}
    BY PublishNeverReturns DEF TypeInv, TypeOK, PublishTypeOK, SpacingInv, NonceInv
  <2> QED BY <1>1, <1>2, <1>3, <2>1, NothingForgotten DEF TypeInv
<1>4. CASE MarkNonce(r)
  <2>1. CASE UNCHANGED accepted
    BY <1>3, <1>4, <2>1 DEF MarkNonce, MarkUsed
  <2>2. CASE \E t \in now[r]..clock :
                /\ MarkUsed(post[r].nonce, post[r].author, t)
                /\ accepted' = accepted \cup {[by |-> r, stamp |-> t, when |-> clock]}
                /\ Goto(r, "signature")
    <3>1. \A q \in Request \ {r} : stage'[q] = stage[q]
      BY <2>2 DEF Goto, TypeInv, TypeOK, PublishTypeOK
    <3>2. stage[r] = "nonce" /\ stage'[r] = "signature"
      BY <1>4, <2>2 DEF MarkNonce, Goto, TypeInv, TypeOK, PublishTypeOK
    <3> QED BY <1>1, <2>2, <3>1, <3>2, AcceptanceSpaced DEF TypeInv
  <2> QED BY <1>4, <2>1, <2>2 DEF MarkNonce
<1> QED BY <1>3, <1>4 DEF PublishStep, Arrive, Banlist, FilterWords, FilterHash, FailOpenCheck, Whitelist,
           Validate, CheckSignature, CheckContentBan, Lookup, Create, dbVars

\* The cleanup job forgets only what has expired, whenever its clock was read.
LEMMA CleanupKeepsSpacing ==
    ASSUME TypeOK, SpacingInv, CleanupExpired, UNCHANGED <<stage, post, accepted>>
    PROVE  SpacingInv'
<1>1. PICK t \in 0..clock : used_nonces' = {u \in used_nonces : ~ (u.created < t - TTL)}
  BY DEF CleanupExpired
<1>2. clock \in Nat /\ TTL \in Nat /\ t \in Nat /\ t <= clock /\ clock' = clock
  BY TimeAssumption DEF TypeOK, DatabaseTypeOK, CleanupExpired
<1>3. ASSUME NEW a \in accepted
      PROVE  Remembered(a)' \/ clock > a.stamp + TTL
  <2>1. a.stamp \in Nat
    BY TimeAssumption DEF TypeOK, PublishTypeOK
  <2>2. Remembered(a) \/ clock > a.stamp + TTL
    BY DEF SpacingInv, NonceInv
  <2>3. CASE a.stamp < t - TTL
    BY <1>2, <2>1, <2>3
  <2>4. CASE ~ (a.stamp < t - TTL)
    <3>1. Remembered(a) => Remembered(a)'
      BY <1>1, <2>4 DEF Remembered
    <3> QED BY <2>2, <3>1
  <2> QED BY <2>3, <2>4
<1>4. NonceInv'
  BY <1>2, <1>3 DEF SpacingInv, NonceInv
<1>5. NonceSpacing'
  BY DEF SpacingInv, NonceSpacing
<1> QED BY <1>4, <1>5 DEF SpacingInv

LEMMA SpacingInvInit == Init => SpacingInv
BY DEF Init, PublishInit, SpacingInv, NonceInv, NonceSpacing

LEMMA SpacingInvStep == TypeInv /\ TypeInv' /\ SpacingInv /\ [Next]_vars => SpacingInv'
<1> SUFFICES ASSUME TypeInv, TypeInv', SpacingInv, [Next]_vars
             PROVE  SpacingInv'
  OBVIOUS
<1>0. clock \in Nat
  BY TimeAssumption DEF TypeInv, TypeOK, DatabaseTypeOK
<1>1. ASSUME NEW r \in Request, PublishStep(r), UNCHANGED <<moderationVars, importVars>>
      PROVE  SpacingInv'
  BY <1>1, PublishKeepsSpacing
<1>2. CASE CleanupExpired /\ UNCHANGED <<requestVars, moderationVars, importVars>>
  BY <1>2, CleanupKeepsSpacing DEF TypeInv, requestVars
<1>3. CASE UNCHANGED <<used_nonces, post, accepted, stage>> /\ clock' \in {clock, clock + 1}
  <2>1. \A a \in accepted : stage'[a.by] \in BehindNonce \cup {"done"}
    BY <1>3 DEF SpacingInv, NonceInv
  <2> QED BY <1>0, <1>3, <2>1, NothingForgotten DEF TypeInv
<1>4. CASE Crash
  <2>1. UNCHANGED <<post, accepted, used_nonces, clock>>
    BY <1>4 DEF Crash, dbVars
  <2>2. \A a \in accepted : stage'[a.by] \in BehindNonce \cup {"done"}
    BY <1>4 DEF Crash, SpacingInv, NonceInv, TypeInv, TypeOK, PublishTypeOK
  <2> QED BY <1>0, <2>1, <2>2, NothingForgotten DEF TypeInv
<1>5. ASSUME NEW b \in Bulk, ImportStep(b), UNCHANGED <<moderationVars, requestVars>>
      PROVE  SpacingInv'
  BY <1>3, <1>5 DEF ImportStep, BulkArrive, BulkBanlist, BulkFilter, BulkWhitelist, BulkValidate,
                    EndOfBatch, CreateBatch, importTables, requestVars
<1>6. CASE Moderate
  BY <1>3, <1>6 DEF Moderate, ModerationStep, BanUser, UnbanUser, BanWord, UnbanWord, AddToWhitelist,
                    RemoveFromWhitelist, DeleteNode, RecordBan, Purge, RemoveBannedHash
<1>7. CASE (Tick /\ UNCHANGED <<requestVars, moderationVars, importVars>>) \/ UNCHANGED vars
  BY <1>3, <1>7 DEF Tick, vars, dbVars, requestVars
<1> QED BY <1>1, <1>2, <1>4, <1>5, <1>6, <1>7 DEF Next

\* Of two acceptances of one author's nonce, the later comes more than TTL after the stamp of
\* the earlier: not even concurrent submissions, a cleanup that runs in between, failing calls
\* and crashes get one nonce past MarkUsed twice within TTL.
THEOREM NonceSpacingHolds == Spec => []NonceSpacing
<1>1. Spec => [](TypeInv /\ SpacingInv)
  BY TypeInvInit, TypeInvStep, SpacingInvInit, SpacingInvStep, PTL DEF Spec
<1>2. SpacingInv => NonceSpacing
  BY DEF SpacingInv
<1> QED BY <1>1, <1>2, PTL

(****************************************************************************)
(* What the steps do to the table of nodes                                  *)
(****************************************************************************)

\* A publish request writes nodes once, at its end, by one INSERT.
LEMMA PublishInserts ==
    ASSUME NEW r \in Request, PublishStep(r)
    PROVE  \/ UNCHANGED nodes
           \/ stage[r] = "create" /\ InsertNode(post[r], NodeID(post[r]))
BY DEF PublishStep, Arrive, Banlist, FilterWords, FilterHash, FailOpenCheck, Whitelist,
       Validate, MarkNonce, CheckSignature, CheckContentBan, Lookup, Create, dbVars

\* An import does so by one transaction.
LEMMA ImportInserts ==
    ASSUME NEW b \in Bulk, ImportStep(b)
    PROVE  UNCHANGED nodes \/ InsertBatch(validNodes[b])
BY DEF ImportStep, BulkArrive, BulkBanlist, BulkFilter, BulkWhitelist, BulkValidate,
       EndOfBatch, CreateBatch

\* A moderator only takes rows out, none that another one refers to, and remembers them.
LEMMA ModerationDeletes ==
    ASSUME ModerationStep
    PROVE  UNCHANGED <<nodes, removed>> \/ \E rows \in SUBSET nodes : DeleteRows(rows)
<1>1. ASSUME NEW id \in IDs, DeleteNode(id)
      PROVE  \E rows \in SUBSET nodes : DeleteRows(rows)
  <2>1. DeleteRows({n \in nodes : n.id = id})
    BY <1>1 DEF DeleteNode
  <2> QED BY <2>1
<1>2. ASSUME NEW h \in Hash, Purge(h)
      PROVE  UNCHANGED <<nodes, removed>> \/ \E rows \in SUBSET nodes : DeleteRows(rows)
  <2>1. DeleteRows(StoredWith(h)) \/ UNCHANGED <<nodes, removed>>
    BY <1>2 DEF Purge
  <2>2. StoredWith(h) \in SUBSET nodes
    BY DEF StoredWith
  <2> QED BY <2>1, <2>2
<1> QED BY <1>1, <1>2 DEF ModerationStep, BanUser, UnbanUser, BanWord, UnbanWord, AddToWhitelist,
           RemoveFromWhitelist, RecordBan, RemoveBannedHash, moderationVars

\* The least element of a set of naturals, here the first document of a batch with some ID:
\* the intervals that end in the set have a smallest one.
LEMMA LeastNatural ==
    ASSUME NEW T, T \subseteq Nat, T # {}
    PROVE  \E m \in T : \A k \in T : m <= k
<1> DEFINE Upto == {0..k : k \in T}
<1>1. Upto \subseteq FiniteSubsetsOf(Nat) /\ Upto # {}
  <2>1. ASSUME NEW k \in T
        PROVE  0..k \in SUBSET Nat /\ IsFiniteSet(0..k)
    <3>1. k \in Int /\ 0 \in Int
      OBVIOUS
    <3> QED BY <3>1, FS_Interval
  <2> QED BY <2>1 DEF FiniteSubsetsOf
<1>2. PICK low \in Upto : \A I \in Upto : <<I, low>> \notin StrictSubsetOrdering(Nat)
  <2> HIDE DEF Upto
  <2> QED BY <1>1, WFMin, FS_StrictSubsetOrderingWellFounded
<1>3. PICK m \in T : low = 0..m
  BY <1>2
<1>4. ASSUME NEW k \in T, k < m
      PROVE  FALSE
  <2>1. 0..k \in Upto /\ 0..k \subseteq 0..m /\ 0..k # 0..m /\ 0..m \subseteq Nat
    BY <1>4
  <2> QED BY <2>1, <1>2, <1>3 DEF StrictSubsetOrdering
<1>5. ASSUME NEW k \in T
      PROVE  m <= k
  <2>1. k \in Nat /\ m \in Nat
    OBVIOUS
  <2> QED BY <2>1, <1>4
<1> QED BY <1>5

\* The IDs of a batch are all there after it was inserted.
LEMMA BatchStored ==
    ASSUME NEW ds \in Seq(Document), InsertBatch(ds), NEW i \in DOMAIN ds
    PROVE  NodeID(ds[i]) \in IDs'
<1>1. CASE NodeID(ds[i]) \in IDs
  BY <1>1 DEF InsertBatch, IDs
<1>2. CASE NodeID(ds[i]) \notin IDs
  <2> DEFINE T == {j \in DOMAIN ds : NodeID(ds[j]) = NodeID(ds[i])}
  <2>1. T \subseteq Nat /\ T # {}
    OBVIOUS
  <2>2. PICK m \in T : \A k \in T : m <= k
    BY <2>1, LeastNatural
  <2>3. NewAt(ds, m)
    <3>1. m \in DOMAIN ds /\ m \in Nat /\ NodeID(ds[m]) = NodeID(ds[i])
      BY <2>1
    <3>2. ASSUME NEW j \in 1..(m - 1), NodeID(ds[j]) = NodeID(ds[m])
          PROVE  FALSE
      <4>1. j \in T
        BY <3>1, <3>2
      <4> QED BY <2>2, <4>1, <3>1
    <3> QED BY <1>2, <3>1, <3>2 DEF NewAt
  <2>4. NodeRow(ds[m], NodeID(ds[m]), clock) \in nodes'
    BY <2>3 DEF InsertBatch
  <2>5. NodeRow(ds[m], NodeID(ds[m]), clock).id = NodeID(ds[i])
    BY DEF NodeRow
  <2> QED BY <2>4, <2>5 DEF IDs
<1> QED BY <1>1, <1>2

(****************************************************************************)
(* OnlyGenuine                                                              *)
(****************************************************************************)

\* A step of one request is none of another one's.
LEMMA OthersStay ==
    ASSUME PublishTypeOK, NEW r \in Request, PublishStep(r)
    PROVE  /\ UNCHANGED <<from, post, clock>>
           /\ \A q \in Request \ {r} : /\ stage'[q] = stage[q] /\ answer'[q] = answer[q]
                                       /\ now'[q] = now[q] /\ blind'[q] = blind[q]
<1> USE DEF PublishTypeOK, Goto, Reply
<1>1. CASE Arrive(r) BY <1>1 DEF Arrive
<1>2. CASE Banlist(r) BY <1>2 DEF Banlist
<1>3. CASE FilterWords(r) BY <1>3 DEF FilterWords, FailOpenCheck
<1>4. CASE FilterHash(r) BY <1>4 DEF FilterHash, FailOpenCheck
<1>5. CASE Whitelist(r) BY <1>5 DEF Whitelist
<1>6. CASE Validate(r) BY <1>6 DEF Validate
<1>7. CASE MarkNonce(r) BY <1>7 DEF MarkNonce
<1>8. CASE CheckSignature(r) BY <1>8 DEF CheckSignature
<1>9. CASE CheckContentBan(r) BY <1>9 DEF CheckContentBan, FailOpenCheck
<1>10. CASE Lookup(r) BY <1>10 DEF Lookup
<1>11. CASE Create(r) BY <1>11 DEF Create
<1> QED BY <1>1, <1>2, <1>3, <1>4, <1>5, <1>6, <1>7, <1>8, <1>9, <1>10, <1>11 DEF PublishStep

\* A publish request is let behind the checks of the network and of the signature only by these.
LEMMA PublishKeepsChecked ==
    ASSUME PublishTypeOK, CheckedInv, NEW r \in Request, PublishStep(r), UNCHANGED validNodes
    PROVE  CheckedInv'
<1> DEFINE Checked(q) ==
        /\ stage[q] \in {"nonce"} \cup BehindNonce => post[q].network = HomeNetwork
        /\ stage[q] \in BehindSignature => VerifySignature(post[q])
<1>1. Checked(r)'
  <2> USE DEF CheckedInv, BehindNonce, BehindSignature, PublishTypeOK, Goto, Reply
  <2>1. CASE Arrive(r) BY <2>1 DEF Arrive
  <2>2. CASE Banlist(r) BY <2>2 DEF Banlist
  <2>3. CASE FilterWords(r) BY <2>3 DEF FilterWords, FailOpenCheck
  <2>4. CASE FilterHash(r) BY <2>4 DEF FilterHash, FailOpenCheck
  <2>5. CASE Whitelist(r) BY <2>5 DEF Whitelist
  <2>6. CASE Validate(r) BY <2>6 DEF Validate, Admissible
  <2>7. CASE MarkNonce(r) BY <2>7 DEF MarkNonce
  <2>8. CASE CheckSignature(r) BY <2>8 DEF CheckSignature, VerifySignature, CanonicalMessage
  <2>9. CASE CheckContentBan(r)
    BY <2>9 DEF CheckContentBan, FailOpenCheck, VerifySignature, CanonicalMessage
  <2>10. CASE Lookup(r) BY <2>10 DEF Lookup, VerifySignature, CanonicalMessage
  <2>11. CASE Create(r) BY <2>11 DEF Create
  <2> QED BY <2>1, <2>2, <2>3, <2>4, <2>5, <2>6, <2>7, <2>8, <2>9, <2>10, <2>11 DEF PublishStep
<1>2. \A q \in Request \ {r} : Checked(q)'
  BY OthersStay DEF CheckedInv, VerifySignature, CanonicalMessage
<1>3. \A q \in Request : Checked(q)'
  BY <1>1, <1>2
<1> QED BY <1>3 DEF CheckedInv, Genuine, VerifySignature, CanonicalMessage

\* The validation loop of an import keeps genuine documents only.
LEMMA ImportKeepsChecked ==
    ASSUME ImportTypeOK, CheckedInv, NEW b \in Bulk, ImportStep(b), UNCHANGED <<stage, post>>
    PROVE  CheckedInv'
<1>1. ASSUME NEW c \in Bulk, NEW i \in DOMAIN validNodes'[c]
      PROVE  Genuine(validNodes'[c][i])
  <2>1. CASE UNCHANGED validNodes
    BY <1>1, <2>1 DEF CheckedInv
  <2>2. CASE BulkValidate(b) /\ validNodes' # validNodes
    <3> DEFINE d == batch[b][position[b]]
    <3>1. Genuine(d) /\ validNodes' = [validNodes EXCEPT ![b] = Append(@, d)]
      BY <2>2 DEF BulkValidate
    <3>2. \A j \in DOMAIN validNodes[c] : Genuine(validNodes[c][j])
      BY DEF CheckedInv
    <3>3. validNodes[c] \in Seq(Document)
      BY DEF ImportTypeOK
    <3>4. CASE c = b
      <4>1. validNodes'[c] = Append(validNodes[c], d)
        BY <3>1, <3>4 DEF ImportTypeOK
      <4>2. i \in DOMAIN validNodes[c] \/ i = Len(validNodes[c]) + 1
        BY <1>1, <3>3, <4>1
      <4>3. validNodes'[c][i] = IF i = Len(validNodes[c]) + 1 THEN d ELSE validNodes[c][i]
        BY <1>1, <3>3, <4>1, <4>2
      <4> HIDE DEF d
      <4> QED BY <3>1, <3>2, <3>3, <4>2, <4>3
    <3>5. CASE c # b
      BY <1>1, <3>1, <3>2, <3>5 DEF ImportTypeOK
    <3> QED BY <3>4, <3>5
  <2> QED BY <2>1, <2>2 DEF ImportStep, BulkArrive, BulkBanlist, BulkFilter, BulkWhitelist,
             BulkValidate, EndOfBatch, CreateBatch
<1> QED BY <1>1 DEF CheckedInv, VerifySignature, CanonicalMessage

LEMMA CheckedInvInit == Init => CheckedInv
BY DEF Init, PublishInit, ImportInit, CheckedInv, BehindNonce, BehindSignature

LEMMA CheckedInvStep == TypeInv /\ CheckedInv /\ [Next]_vars => CheckedInv'
<1> SUFFICES ASSUME TypeInv, CheckedInv, [Next]_vars
             PROVE  CheckedInv'
  OBVIOUS
<1> USE DEF TypeInv, TypeOK
<1>1. ASSUME NEW r \in Request, PublishStep(r), UNCHANGED <<moderationVars, importVars>>
      PROVE  CheckedInv'
  BY <1>1, PublishKeepsChecked DEF importVars
<1>2. ASSUME NEW b \in Bulk, ImportStep(b), UNCHANGED <<moderationVars, requestVars>>
      PROVE  CheckedInv'
  BY <1>2, ImportKeepsChecked DEF requestVars
<1>3. CASE UNCHANGED <<post, validNodes>> /\ \A r \in Request : stage'[r] \in {stage[r], "idle", "done"}
  BY <1>3 DEF CheckedInv, BehindNonce, BehindSignature, Genuine, VerifySignature, CanonicalMessage
<1>4. CASE Crash
  BY <1>3, <1>4 DEF Crash
<1>5. CASE Moderate \/ (CleanupExpired /\ UNCHANGED <<requestVars, importVars>>)
           \/ (Tick /\ UNCHANGED <<requestVars, importVars>>) \/ UNCHANGED vars
  BY <1>3, <1>5 DEF Moderate, vars, requestVars, importVars
<1> QED BY <1>1, <1>2, <1>4, <1>5 DEF Next

\* The row an INSERT makes of a genuine document.
LEMMA GenuineRow ==
    ASSUME NEW d \in Document, Genuine(d)
    PROVE  /\ NodeRow(d, NodeID(d), clock).id = UUID[SigHash[NodeRow(d, NodeID(d), clock).sig]]
           /\ Attested(NodeRow(d, NodeID(d), clock))
BY DEF Genuine, VerifySignature, CanonicalMessage, NodeRow, NodeID, Attested

\* Whatever the server does, what it adds to its table is genuine.
LEMMA AddedGenuine ==
    ASSUME TypeInv, CheckedInv, [Next]_vars, NEW n \in nodes' \ nodes
    PROVE  n.id = UUID[SigHash[n.sig]] /\ Attested(n)
<1> USE DEF TypeInv, TypeOK
<1>1. ASSUME NEW r \in Request, PublishStep(r)
      PROVE  n.id = UUID[SigHash[n.sig]] /\ Attested(n)
  <2>1. stage[r] = "create" /\ n = NodeRow(post[r], NodeID(post[r]), clock)
    BY <1>1, PublishInserts DEF InsertNode
  <2>2. post[r] \in Document /\ Genuine(post[r])
    BY <2>1, PublishAssumption DEF CheckedInv, Genuine, PublishTypeOK, BehindNonce, BehindSignature
  <2> QED BY <2>1, <2>2, GenuineRow
<1>2. ASSUME NEW b \in Bulk, ImportStep(b)
      PROVE  n.id = UUID[SigHash[n.sig]] /\ Attested(n)
  <2>1. PICK i \in DOMAIN validNodes[b] :
            n = NodeRow(validNodes[b][i], NodeID(validNodes[b][i]), clock)
    BY <1>2, ImportInserts DEF InsertBatch
  <2>2. validNodes[b][i] \in Document /\ Genuine(validNodes[b][i])
    BY DEF CheckedInv, ImportTypeOK
  <2> QED BY <2>1, <2>2, GenuineRow
<1>3. CASE Moderate
  BY <1>3, ModerationDeletes DEF Moderate, DeleteRows
<1> QED BY <1>1, <1>2, <1>3 DEF Next, CleanupExpired, Tick, Crash, vars, dbVars

LEMMA GenuineStep == TypeInv /\ CheckedInv /\ OnlyGenuine /\ [Next]_vars => OnlyGenuine'
BY AddedGenuine DEF OnlyGenuine, Attested

\* Nothing is stored that its author has not signed, for this network, in just these words:
\* neither a stale check, nor a batch in a strange order, nor any failure lets something else in.
THEOREM OnlyGenuineHolds == Spec => []OnlyGenuine
<1>1. Init => OnlyGenuine
  BY DEF Init, DatabaseInit, OnlyGenuine
<1>2. Spec => [](TypeInv /\ CheckedInv /\ OnlyGenuine)
  BY <1>1, TypeInvInit, TypeInvStep, CheckedInvInit, CheckedInvStep, GenuineStep, PTL DEF Spec
<1> QED BY <1>2, PTL

(****************************************************************************)
(* AckDurable                                                               *)
(****************************************************************************)

\* Nodes leave the table by way of removed only.
LEMMA NothingLost ==
    ASSUME [Next]_vars
    PROVE  IDs \cup removed \subseteq (IDs \cup removed)'
<1>1. ASSUME NEW r \in Request, PublishStep(r), UNCHANGED moderationVars
      PROVE  IDs \subseteq IDs' /\ removed' = removed
  BY <1>1, PublishInserts DEF InsertNode, IDs, moderationVars
<1>2. ASSUME NEW b \in Bulk, ImportStep(b), UNCHANGED moderationVars
      PROVE  IDs \subseteq IDs' /\ removed' = removed
  BY <1>2, ImportInserts DEF InsertBatch, IDs, moderationVars
<1>3. CASE Moderate
  BY <1>3, ModerationDeletes DEF Moderate, DeleteRows, IDs
<1>4. CASE UNCHANGED <<nodes, removed>>
  BY <1>4 DEF IDs
<1> QED BY <1>1, <1>2, <1>3, <1>4 DEF Next, CleanupExpired, Tick, Crash, vars, dbVars, moderationVars

\* A step of a request that acknowledges it finds its node in the table, or puts it there.
LEMMA AcknowledgesStored ==
    ASSUME PublishTypeOK, NEW r \in Request, PublishStep(r), answer'[r] \in Acknowledged
    PROVE  answer[r] = answer'[r] \/ NodeID(post[r]) \in IDs'
<1> USE DEF PublishTypeOK, Goto, Reply, Acknowledged
<1>1. CASE Arrive(r) BY <1>1 DEF Arrive
<1>2. CASE Banlist(r) BY <1>2 DEF Banlist
<1>3. CASE FilterWords(r) BY <1>3 DEF FilterWords, FailOpenCheck
<1>4. CASE FilterHash(r) BY <1>4 DEF FilterHash, FailOpenCheck
<1>5. CASE Whitelist(r) BY <1>5 DEF Whitelist
<1>6. CASE Validate(r) BY <1>6 DEF Validate
<1>7. CASE MarkNonce(r) BY <1>7 DEF MarkNonce
<1>8. CASE CheckSignature(r) BY <1>8 DEF CheckSignature
<1>9. CASE CheckContentBan(r) BY <1>9 DEF CheckContentBan, FailOpenCheck
<1>10. CASE Lookup(r)
  BY <1>10 DEF Lookup, IDs, dbVars
<1>11. CASE Create(r)
  <2>1. InsertNode(post[r], NodeID(post[r])) => NodeID(post[r]) \in IDs'
    <3>1. NodeRow(post[r], NodeID(post[r]), clock).id = NodeID(post[r])
      BY DEF NodeRow
    <3> QED BY <3>1 DEF InsertNode, IDs
  <2>2. UNCHANGED nodes => IDs' = IDs
    BY DEF IDs
  <2> QED BY <1>11, <2>1, <2>2 DEF Create
<1> QED BY <1>1, <1>2, <1>3, <1>4, <1>5, <1>6, <1>7, <1>8, <1>9, <1>10, <1>11 DEF PublishStep

LEMMA AckStep == TypeInv /\ AckDurable /\ [Next]_vars => AckDurable'
<1> SUFFICES ASSUME TypeInv, AckDurable, [Next]_vars, NEW q \in Request, answer'[q] \in Acknowledged
             PROVE  NodeID(post'[q]) \in (IDs \cup removed)'
  BY DEF AckDurable, NodeID
<1> USE DEF TypeInv, TypeOK
<1>1. answer[q] = answer'[q] /\ post'[q] = post[q] => NodeID(post'[q]) \in (IDs \cup removed)'
  BY NothingLost DEF AckDurable
<1>2. ASSUME NEW r \in Request, PublishStep(r)
      PROVE  NodeID(post'[q]) \in (IDs \cup removed)'
  BY <1>1, <1>2, OthersStay, AcknowledgesStored
<1>3. CASE Crash
  BY <1>1, <1>3 DEF Crash, Acknowledged
<1>4. CASE UNCHANGED <<answer, post>>
  BY <1>1, <1>4
<1> QED BY <1>2, <1>3, <1>4 DEF Next, Moderate, CleanupExpired, Tick, vars, requestVars

\* What was acknowledged is stored, and stays so until a moderator deletes it: whether the
\* answer came from the INSERT, from the lookup, or from a duplicate that lost the race.
THEOREM AckDurableHolds == Spec => []AckDurable
<1>1. Init => AckDurable
  BY DEF Init, PublishInit, AckDurable, Acknowledged
<1>2. Spec => [](TypeInv /\ AckDurable)
  BY <1>1, TypeInvInit, TypeInvStep, AckStep, PTL DEF Spec
<1> QED BY <1>2, PTL

(****************************************************************************)
(* OpenBarrier                                                              *)
(****************************************************************************)

\* A request gets behind a check that fails open by passing it, or is marked as blind.
LEMMA PublishKeepsOpen ==
    ASSUME TypeInv, BarrierInv, OpenInv, NEW r \in Request, PublishStep(r)
    PROVE  OpenInv'
<1> USE DEF TypeInv, TypeOK
<1> DEFINE Clean(q) ==
        /\ Past(q, BehindWords) /\ "words" \notin blind[q] =>
               \A w \in post[q].body : <<"word", w>> \notin standing[q]
        /\ \/ Past(q, BehindHash) /\ "hash" \notin blind[q]
           \/ Past(q, BehindContentBan) /\ "content_ban" \notin blind[q]
           => <<"hash", SigHash[post[q].sig]>> \notin standing[q]
<1>1. \A q \in Request \ {r} : Clean(q)'
  BY OthersStay, OnlyItself DEF OpenInv, Past
<1>2. Clean(r)'
  <2>1. /\ stage[r] \in Stages /\ Clean(r) /\ standing[r] \subseteq Bans
        /\ stage[r] # "done" => answer[r] = "none"
    BY DEF OpenInv, PublishTypeOK, BarrierInv, RequestBarrier
  <2>2. /\ ~ContainsBannedWords(post[r]) => \A w \in post[r].body : <<"word", w>> \notin Bans
        /\ ~IsBannedHash(post[r]) => <<"hash", SigHash[post[r].sig]>> \notin Bans
    BY DEF ContainsBannedWords, IsBannedHash, Bans
  <2>3. UNCHANGED post
    BY OthersStay
  <2> USE DEF Past, BehindWords, BehindHash, BehindContentBan, BehindBanlist, Stages, Acknowledged,
              Goto, Reply, PublishTypeOK
  <2>4. CASE Arrive(r) BY <2>1, <2>4 DEF Arrive
  <2>5. CASE Banlist(r) BY <2>1, <2>3, <2>5 DEF Banlist
  <2>6. CASE FilterWords(r) BY <2>1, <2>2, <2>3, <2>6 DEF FilterWords, FailOpenCheck
  <2>7. CASE FilterHash(r) BY <2>1, <2>2, <2>3, <2>7 DEF FilterHash, FailOpenCheck
  <2>8. CASE Whitelist(r) BY <2>1, <2>3, <2>8 DEF Whitelist
  <2>9. CASE Validate(r) BY <2>1, <2>3, <2>9 DEF Validate
  <2>10. CASE MarkNonce(r) BY <2>1, <2>3, <2>10 DEF MarkNonce
  <2>11. CASE CheckSignature(r) BY <2>1, <2>3, <2>11 DEF CheckSignature
  <2>12. CASE CheckContentBan(r) BY <2>1, <2>2, <2>3, <2>12 DEF CheckContentBan, FailOpenCheck
  <2>13. CASE Lookup(r) BY <2>1, <2>3, <2>13 DEF Lookup
  <2>14. CASE Create(r) BY <2>1, <2>3, <2>14 DEF Create
  <2> QED BY <2>4, <2>5, <2>6, <2>7, <2>8, <2>9, <2>10, <2>11, <2>12, <2>13, <2>14 DEF PublishStep
<1>3. \A q \in Request : Clean(q)'
  BY <1>1, <1>2
<1> QED BY <1>3 DEF OpenInv

LEMMA OpenInvInit == Init => OpenInv
BY DEF Init, PublishInit, OpenInv, Past, BehindWords, BehindHash, BehindContentBan, BehindBanlist,
       Acknowledged

LEMMA OpenInvStep == TypeInv /\ BarrierInv /\ OpenInv /\ [Next]_vars => OpenInv'
<1> SUFFICES ASSUME TypeInv, BarrierInv, OpenInv, [Next]_vars
             PROVE  OpenInv'
  OBVIOUS
<1>1. ASSUME NEW r \in Request, PublishStep(r)
      PROVE  OpenInv'
  BY <1>1, PublishKeepsOpen
\* otherwise requests get nowhere, but in a crash to their end, and what stood only becomes less
<1>2. CASE /\ UNCHANGED <<post, blind>>
           /\ \A r \in Request : /\ standing'[r] \subseteq standing[r]
                                 /\ stage'[r] \in {stage[r], "idle", "done"}
                                 /\ answer'[r] \in {answer[r], "lost"}
  BY <1>2 DEF OpenInv, Past, BehindWords, BehindHash, BehindContentBan, BehindBanlist, Acknowledged
<1>3. CASE Crash
  BY <1>2, <1>3 DEF Crash
<1>4. CASE Moderate
  BY <1>2, <1>4 DEF Moderate, BarrierInv
<1>5. CASE UNCHANGED requestVars
  BY <1>2, <1>5 DEF requestVars
<1> QED BY <1>1, <1>3, <1>4, <1>5 DEF Next, CleanupExpired, Tick, vars

\* Content that has been banned ever since its request arrived is acknowledged only if the check
\* that fails open did: of the two that look for the hash, both.
THEOREM OpenBarrierHolds == Spec => []OpenBarrier
<1>1. Spec => [](TypeInv /\ BarrierInv /\ OpenInv)
  BY TypeInvInit, TypeInvStep, BarrierInvInit, BarrierInvStep, OpenInvInit, OpenInvStep, PTL DEF Spec
<1>2. OpenInv => OpenBarrier
  BY DEF OpenInv, OpenBarrier, Past
<1> QED BY <1>1, <1>2, PTL

(****************************************************************************)
(* NothingFromFuture                                                        *)
(****************************************************************************)

\* The clock is read once, before the checks, and the row is stamped by a later reading.
LEMMA PublishKeepsTimely ==
    ASSUME TypeOK, TimelyInv, NEW r \in Request, PublishStep(r)
    PROVE  TimelyInv'
<1> USE DEF TypeOK, FromFuture
<1>1. /\ clock \in Nat /\ clock' = clock /\ Skew \in Nat
      /\ \A q \in Request : now[q] \in Nat /\ post[q].claimed \in Int /\ UNCHANGED post
  BY OthersStay, TimeAssumption, PublishAssumption DEF DatabaseTypeOK, PublishTypeOK, Document
<1> DEFINE Timely(q) ==
        /\ now[q] <= clock
        /\ stage[q] \in {"nonce"} \cup BehindNonce => ~FromFuture(post[q], now[q])
<1>2. Timely(r)'
  <2>1. Timely(r)
    BY DEF TimelyInv
  <2> USE DEF BehindNonce, PublishTypeOK, Goto, Reply
  <2>2. CASE Arrive(r) BY <1>1, <2>1, <2>2 DEF Arrive
  <2>3. CASE Banlist(r) BY <1>1, <2>1, <2>3 DEF Banlist
  <2>4. CASE FilterWords(r) BY <1>1, <2>1, <2>4 DEF FilterWords, FailOpenCheck
  <2>5. CASE FilterHash(r) BY <1>1, <2>1, <2>5 DEF FilterHash, FailOpenCheck
  <2>6. CASE Whitelist(r) BY <1>1, <2>1, <2>6 DEF Whitelist
  <2>7. CASE Validate(r) BY <1>1, <2>1, <2>7 DEF Validate, Admissible
  <2>8. CASE MarkNonce(r) BY <1>1, <2>1, <2>8 DEF MarkNonce
  <2>9. CASE CheckSignature(r) BY <1>1, <2>1, <2>9 DEF CheckSignature
  <2>10. CASE CheckContentBan(r) BY <1>1, <2>1, <2>10 DEF CheckContentBan, FailOpenCheck
  <2>11. CASE Lookup(r) BY <1>1, <2>1, <2>11 DEF Lookup
  <2>12. CASE Create(r) BY <1>1, <2>1, <2>12 DEF Create
  <2> QED BY <2>2, <2>3, <2>4, <2>5, <2>6, <2>7, <2>8, <2>9, <2>10, <2>11, <2>12 DEF PublishStep
<1>3. \A q \in Request \ {r} : Timely(q)'
  BY <1>1, OthersStay DEF TimelyInv
<1>4. NothingFromFuture'
  <2>1. CASE UNCHANGED nodes
    BY <2>1 DEF TimelyInv, NothingFromFuture
  <2>2. CASE stage[r] = "create" /\ InsertNode(post[r], NodeID(post[r]))
    <3>1. post[r].claimed <= now[r] + Skew /\ now[r] <= clock
      BY <1>1, <2>2 DEF TimelyInv, BehindNonce
    <3>2. post[r].claimed <= clock + Skew
      BY <1>1, <3>1
    <3>3. /\ NodeRow(post[r], NodeID(post[r]), clock).claimed = post[r].claimed
          /\ NodeRow(post[r], NodeID(post[r]), clock).verified = clock
      BY DEF NodeRow
    <3> QED BY <2>2, <3>2, <3>3 DEF InsertNode, TimelyInv, NothingFromFuture
  <2> QED BY <2>1, <2>2, PublishInserts
<1>5. \A q \in Request : Timely(q)'
  BY <1>2, <1>3
<1> QED BY <1>4, <1>5 DEF TimelyInv

LEMMA TimelyInvInit == TypeInv /\ Init => TimelyInv
BY DEF Init, DatabaseInit, PublishInit, TimelyInv, NothingFromFuture, BehindNonce

LEMMA TimelyInvStep ==
    ASSUME Bulk = {}, TypeInv, TimelyInv, [Next]_vars
    PROVE  TimelyInv'
<1> USE DEF TypeInv, TypeOK
<1>1. ASSUME NEW r \in Request, PublishStep(r)
      PROVE  TimelyInv'
  BY <1>1, PublishKeepsTimely
<1>2. CASE /\ UNCHANGED <<post, now>> /\ clock' \in {clock, clock + 1} /\ nodes' \subseteq nodes
           /\ \A r \in Request : stage'[r] \in {stage[r], "idle", "done"}
  <2>1. clock \in Nat /\ \A r \in Request : now[r] \in Nat
    BY TimeAssumption DEF DatabaseTypeOK, PublishTypeOK
  <2>2. NothingFromFuture'
    BY <1>2 DEF TimelyInv, NothingFromFuture
  <2> QED BY <1>2, <2>1, <2>2 DEF TimelyInv, FromFuture, BehindNonce
<1>3. CASE Crash
  BY <1>2, <1>3 DEF Crash, dbVars
<1>4. CASE Moderate
  <2>1. nodes' \subseteq nodes
    BY <1>4, ModerationDeletes DEF Moderate, DeleteRows
  <2>2. clock' = clock
    BY <1>4 DEF Moderate, ModerationStep, BanUser, UnbanUser, BanWord, UnbanWord, AddToWhitelist,
                RemoveFromWhitelist, DeleteNode, RecordBan, Purge, RemoveBannedHash
  <2> QED BY <1>2, <1>4, <2>1, <2>2 DEF Moderate
<1>5. CASE (CleanupExpired \/ Tick \/ UNCHANGED vars) /\ UNCHANGED requestVars
  BY <1>2, <1>5 DEF CleanupExpired, Tick, vars, dbVars, requestVars
<1> QED BY <1>1, <1>3, <1>4, <1>5 DEF Next, vars

\* A server that takes no imports stores nothing that claims to be written later than Skew after
\* its arrival: delays between the one reading of the clock and the INSERT do not matter.
THEOREM NothingFromFutureHolds ==
    ASSUME Bulk = {}
    PROVE  Spec => []NothingFromFuture
<1>1. TypeInv /\ TimelyInv /\ [Next]_vars => TimelyInv'
  BY TimelyInvStep
<1>2. Spec => [](TypeInv /\ TimelyInv)
  BY <1>1, TypeInvInit, TypeInvStep, TimelyInvInit, PTL DEF Spec
<1>3. TimelyInv => NothingFromFuture
  BY DEF TimelyInv
<1> QED BY <1>2, <1>3, PTL

(****************************************************************************)
(* RefusedForCause                                                          *)
(****************************************************************************)

\* Failures are counted.
LEMMA FaultCounts == ASSUME DatabaseTypeOK, Fault PROVE faults' > 0
BY TimeAssumption DEF DatabaseTypeOK, Fault

LEMMA FaultsGrow == ASSUME TypeOK, [Next]_vars PROVE faults > 0 => faults' > 0
<1> USE DEF TypeOK
<1>1. ASSUME NEW r \in Request, PublishStep(r)
      PROVE  Fault \/ UNCHANGED faults
  BY <1>1 DEF PublishStep, Arrive, Banlist, FilterWords, FilterHash, FailOpenCheck, Whitelist,
              Validate, MarkNonce, CheckSignature, CheckContentBan, Lookup, Create, dbVars
<1>2. ASSUME NEW b \in Bulk, ImportStep(b)
      PROVE  Fault \/ UNCHANGED faults
  BY <1>2 DEF ImportStep, BulkArrive, BulkBanlist, BulkFilter, BulkWhitelist, BulkValidate,
              EndOfBatch, CreateBatch
<1>3. CASE Moderate
  <2>1. Fault \/ UNCHANGED faults
    BY <1>3 DEF Moderate, ModerationStep, BanUser, UnbanUser, BanWord, UnbanWord, AddToWhitelist,
                RemoveFromWhitelist, DeleteNode, RecordBan, Purge, RemoveBannedHash
  <2> QED BY <2>1, FaultCounts
<1>4. CASE UNCHANGED faults \/ Fault
  BY <1>4, FaultCounts
<1> QED BY <1>1, <1>2, <1>3, <1>4 DEF Next, Crash, CleanupExpired, Tick, vars

\* Who is refused as a replay meets a nonce that somebody has had accepted, and that was not he.
LEMMA PublishKeepsCause ==
    ASSUME TypeInv, SpacingInv, CauseInv, NEW r \in Request, PublishStep(r),
           faults > 0 => faults' > 0
    PROVE  CauseInv'
<1> USE DEF TypeInv, TypeOK
<1> DEFINE Cause(q) ==
        /\ answer[q] = "replay" =>
               \/ faults > 0
               \/ \E a \in accepted : /\ a.by # q
                                      /\ post[a.by].author = post[q].author
                                      /\ post[a.by].nonce = post[q].nonce
        /\ answer[q] = "error" => faults > 0 \/ post[q].parent # NoParent
<1>0. Fault => faults' > 0
  BY FaultCounts
<1>1. accepted \subseteq accepted' /\ UNCHANGED post
  BY OthersStay DEF PublishStep, Arrive, Banlist, FilterWords, FilterHash, FailOpenCheck, Whitelist,
     Validate, MarkNonce, CheckSignature, CheckContentBan, Lookup, Create
<1>2. \A q \in Request \ {r} : Cause(q)'
  BY <1>1, OthersStay DEF CauseInv, RefusedForCause
<1>3. Cause(r)'
  <2>1. Cause(r)
    BY DEF CauseInv, RefusedForCause
  <2> USE DEF PublishTypeOK, Goto, Reply
  <2>2. CASE Arrive(r) BY <1>1, <2>1, <2>2 DEF Arrive
  <2>3. CASE Banlist(r) BY <1>0, <1>1, <2>1, <2>3 DEF Banlist
  <2>4. CASE FilterWords(r) BY <1>1, <2>1, <2>4 DEF FilterWords, FailOpenCheck
  <2>5. CASE FilterHash(r) BY <1>1, <2>1, <2>5 DEF FilterHash, FailOpenCheck
  <2>6. CASE Whitelist(r) BY <1>0, <1>1, <2>1, <2>6 DEF Whitelist
  <2>7. CASE Validate(r) BY <1>1, <2>1, <2>7 DEF Validate
  <2>8. CASE MarkNonce(r)
    <3>1. ASSUME ~NonceFree(post[r].nonce, post[r].author)
          PROVE  \/ faults > 0
                 \/ \E a \in accepted : /\ a.by # r
                                        /\ post[a.by].author = post[r].author
                                        /\ post[a.by].nonce = post[r].nonce
      <4>1. \A a \in accepted : a.by # r
        BY <2>8 DEF MarkNonce, SpacingInv, NonceInv, BehindNonce
      <4> QED BY <3>1, <4>1 DEF NonceFree, CauseInv, Accounted
    <3>2. CASE stage'[r] = "signature"
      BY <1>1, <2>1, <2>8, <3>2 DEF MarkNonce
    <3>3. CASE ~NonceFree(post[r].nonce, post[r].author) /\ Reply(r, "replay")
      BY <1>1, <3>1, <3>3, faults > 0 => faults' > 0
    <3>4. CASE Fault /\ Reply(r, "replay")
      BY <1>0, <3>4
    <3> QED BY <2>8, <3>2, <3>3, <3>4 DEF MarkNonce
  <2>9. CASE CheckSignature(r) BY <1>1, <2>1, <2>9 DEF CheckSignature
  <2>10. CASE CheckContentBan(r) BY <1>1, <2>1, <2>10 DEF CheckContentBan, FailOpenCheck
  <2>11. CASE Lookup(r) BY <1>1, <2>1, <2>11 DEF Lookup
  <2>12. CASE Create(r) BY <1>0, <1>1, <2>1, <2>12 DEF Create, ParentStored
  <2> QED BY <2>2, <2>3, <2>4, <2>5, <2>6, <2>7, <2>8, <2>9, <2>10, <2>11, <2>12 DEF PublishStep
<1>4. Accounted'
  <2>1. CASE UNCHANGED used_nonces
    BY <1>1, <2>1 DEF CauseInv, Accounted
  <2>2. CASE MarkNonce(r) /\ UNCHANGED faults /\ used_nonces' # used_nonces
    <3>1. PICK t \in now[r]..clock :
              /\ MarkUsed(post[r].nonce, post[r].author, t)
              /\ accepted' = accepted \cup {[by |-> r, stamp |-> t, when |-> clock]}
      BY <2>2, <1>0 DEF MarkNonce, Fault, DatabaseTypeOK
    <3>2. \E a \in accepted' : post'[a.by].author = post[r].author /\ post'[a.by].nonce = post[r].nonce
      <4>1. [by |-> r, stamp |-> t, when |-> clock].by = r
        OBVIOUS
      <4> QED BY <1>1, <3>1, <4>1
    <3> QED BY <1>1, <3>1, <3>2 DEF MarkUsed, CauseInv, Accounted
  <2>3. CASE MarkNonce(r) /\ Fault
    BY <1>0, <2>3 DEF Accounted
  <2> QED BY <2>1, <2>2, <2>3 DEF PublishStep, Arrive, Banlist, FilterWords, FilterHash, FailOpenCheck,
             Whitelist, Validate, MarkNonce, CheckSignature, CheckContentBan, Lookup, Create, dbVars
<1>5. \A q \in Request : Cause(q)'
  BY <1>2, <1>3
<1> QED BY <1>4, <1>5 DEF CauseInv, RefusedForCause

LEMMA CauseInvInit == Init => CauseInv
BY DEF Init, DatabaseInit, PublishInit, CauseInv, Accounted, RefusedForCause

LEMMA CauseInvStep == TypeInv /\ SpacingInv /\ CauseInv /\ [Next]_vars => CauseInv'
<1> SUFFICES ASSUME TypeInv, SpacingInv, CauseInv, [Next]_vars
             PROVE  CauseInv'
  OBVIOUS
<1>1. faults > 0 => faults' > 0
  BY FaultsGrow DEF TypeInv
<1>2. ASSUME NEW r \in Request, PublishStep(r)
      PROVE  CauseInv'
  BY <1>1, <1>2, PublishKeepsCause
<1>3. CASE /\ UNCHANGED <<post, accepted>> /\ used_nonces' \subseteq used_nonces
           /\ \A r \in Request : answer'[r] \in {answer[r], "lost"}
  BY <1>1, <1>3 DEF CauseInv, Accounted, RefusedForCause
<1>4. CASE Crash
  BY <1>3, <1>4 DEF Crash, dbVars
<1>5. CASE Moderate
  BY <1>3, <1>5 DEF Moderate, ModerationStep, BanUser, UnbanUser, BanWord, UnbanWord, AddToWhitelist,
                    RemoveFromWhitelist, DeleteNode, RecordBan, Purge, RemoveBannedHash
<1>6. ASSUME NEW b \in Bulk, ImportStep(b), UNCHANGED requestVars
      PROVE  CauseInv'
  BY <1>3, <1>6 DEF ImportStep, BulkArrive, BulkBanlist, BulkFilter, BulkWhitelist, BulkValidate,
                    EndOfBatch, CreateBatch, importTables, requestVars
<1>7. CASE (CleanupExpired \/ Tick \/ UNCHANGED vars) /\ UNCHANGED requestVars
  BY <1>3, <1>7 DEF CleanupExpired, Tick, vars, dbVars, requestVars
<1> QED BY <1>2, <1>4, <1>5, <1>6, <1>7 DEF Next, vars

\* As long as no call has failed, nobody is refused as a replay but for a nonce of his own that
\* another request had accepted, and nobody but a reply is answered with an error.
THEOREM RefusedForCauseHolds == Spec => []RefusedForCause
<1>1. Spec => [](TypeInv /\ SpacingInv /\ CauseInv)
  BY TypeInvInit, TypeInvStep, SpacingInvInit, SpacingInvStep, CauseInvInit, CauseInvStep, PTL DEF Spec
<1>2. CauseInv => RefusedForCause
  BY DEF CauseInv
<1> QED BY <1>1, <1>2, PTL

(****************************************************************************)
(* ImplementsLedger                                                         *)
(****************************************************************************)

\* An INSERT that went through leaves the table keyed and its threads closed.
LEMMA InsertKeepsTable ==
    ASSUME TableInv, NEW d, NEW id, InsertNode(d, id)
    PROVE  TableInv'
<1> DEFINE new == NodeRow(d, id, clock)
<1>1. new.id = id /\ new.parent = d.parent /\ nodes' = nodes \cup {new}
  BY DEF InsertNode, NodeRow
<1>2. new.id \notin IDs /\ new.parent \in IDs \cup {new.id, NoParent}
  BY <1>1 DEF InsertNode, ParentStored
<1> HIDE DEF new
<1>3. IDs' = IDs \cup {new.id}
  BY <1>1 DEF IDs
<1>4. Keyed'
  BY <1>1, <1>2 DEF TableInv, Keyed, IDs
<1>5. Threaded'
  BY <1>1, <1>2, <1>3 DEF TableInv, Threaded
<1> QED BY <1>4, <1>5 DEF TableInv

\* So does a batch: of two documents with one ID it stores the first, and every reply it stores
\* replies to a node of the table or of the batch itself.
LEMMA BatchKeepsTable ==
    ASSUME TableInv, NEW ds \in Seq(Document), InsertBatch(ds)
    PROVE  TableInv'
<1> DEFINE RowOf(i) == NodeRow(ds[i], NodeID(ds[i]), clock)
<1>1. /\ nodes \subseteq nodes'
      /\ \A n \in nodes' \ nodes : \E i \in DOMAIN ds : NewAt(ds, i) /\ n = RowOf(i)
  BY DEF InsertBatch
<1>2. \A i \in DOMAIN ds : RowOf(i).id = NodeID(ds[i]) /\ RowOf(i).parent = ds[i].parent
  BY DEF NodeRow
<1> HIDE DEF RowOf
<1>3. Keyed'
  <2> SUFFICES ASSUME NEW m \in nodes', NEW n \in nodes', m.id = n.id
               PROVE  m = n
    BY DEF Keyed
  <2>1. CASE m \in nodes /\ n \in nodes
    BY <2>1 DEF TableInv, Keyed
  <2>2. \A p \in nodes : \A q \in nodes' \ nodes : p.id # q.id
    BY <1>1, <1>2 DEF NewAt, IDs
  <2>3. CASE m \notin nodes /\ n \notin nodes
    <3>1. PICK i \in DOMAIN ds : NewAt(ds, i) /\ m = RowOf(i)
      BY <1>1, <2>3
    <3>2. PICK j \in DOMAIN ds : NewAt(ds, j) /\ n = RowOf(j)
      BY <1>1, <2>3
    <3>3. NodeID(ds[i]) = NodeID(ds[j])
      BY <1>2, <3>1, <3>2
    <3>4. ~(i < j) /\ ~(j < i)
      BY <3>1, <3>2, <3>3 DEF NewAt
    <3> QED BY <3>1, <3>2, <3>4
  <2> QED BY <2>1, <2>2, <2>3
<1>4. Threaded'
  <2> SUFFICES ASSUME NEW n \in nodes'
               PROVE  n.parent \in IDs' \cup {NoParent}
    BY DEF Threaded
  <2>1. IDs \subseteq IDs'
    BY <1>1 DEF IDs
  <2>2. CASE n \in nodes
    BY <2>1, <2>2 DEF TableInv, Threaded
  <2>3. CASE n \notin nodes
    <3>1. PICK i \in DOMAIN ds : NewAt(ds, i) /\ n = RowOf(i)
      BY <1>1, <2>3
    <3>2. ds[i].parent \in IDs \cup {NoParent} \cup {NodeID(ds[j]) : j \in 1..i}
      BY <3>1 DEF InsertBatch, BatchFits
    <3>3. \A j \in 1..i : j \in DOMAIN ds
      OBVIOUS
    <3>4. \A j \in DOMAIN ds : NodeID(ds[j]) \in IDs'
      BY BatchStored
    <3> QED BY <1>2, <2>1, <3>1, <3>2, <3>3, <3>4
  <2> QED BY <2>2, <2>3
<1> QED BY <1>3, <1>4 DEF TableInv

\* And a DELETE, which spares the rows that are replied to.
LEMMA DeletionKeepsTable ==
    ASSUME TableInv, NEW rows \in SUBSET nodes, DeleteRows(rows)
    PROVE  TableInv'
<1>1. nodes' = nodes \ rows
  BY DEF DeleteRows
<1>2. ASSUME NEW n \in nodes \ rows, n.parent # NoParent
      PROVE  n.parent \in IDs'
  <2>1. PICK m \in nodes : m.id = n.parent
    BY <1>2 DEF TableInv, Threaded, IDs
  <2>2. m \notin rows
    BY <1>2, <2>1 DEF DeleteRows, Deletable
  <2> QED BY <1>1, <2>1, <2>2 DEF IDs
<1> QED BY <1>1, <1>2 DEF TableInv, Keyed, Threaded

LEMMA TableInvInit == Init => TableInv
BY DEF Init, DatabaseInit, TableInv, Keyed, Threaded

LEMMA TableInvStep == TypeInv /\ TableInv /\ [Next]_vars => TableInv'
<1> SUFFICES ASSUME TypeInv, TableInv, [Next]_vars
             PROVE  TableInv'
  OBVIOUS
<1>1. CASE UNCHANGED nodes
  BY <1>1 DEF TableInv, Keyed, Threaded, IDs
<1>2. ASSUME NEW r \in Request, PublishStep(r)
      PROVE  TableInv'
  BY <1>1, <1>2, PublishInserts, InsertKeepsTable
<1>3. ASSUME NEW b \in Bulk, ImportStep(b)
      PROVE  TableInv'
  <2>1. validNodes[b] \in Seq(Document)
    BY DEF TypeInv, TypeOK, ImportTypeOK
  <2> QED BY <1>1, <1>3, <2>1, ImportInserts, BatchKeepsTable
<1>4. CASE Moderate
  BY <1>1, <1>4, ModerationDeletes, DeletionKeepsTable DEF Moderate
<1> QED BY <1>1, <1>2, <1>3, <1>4 DEF Next, CleanupExpired, Tick, Crash, vars, dbVars

\* A table that is keyed and threaded, with genuine IDs, is a sound ledger.
LEMMA SoundPosts ==
    ASSUME NEW T,
           \A n \in T : n.id \in GenuineIDs,
           \A m, n \in T : m.id = n.id => m = n,
           \A n \in T : n.parent \in {m.id : m \in T} \cup {NoParent}
    PROVE  Promise!Sound({[id |-> n.id, parent |-> n.parent] : n \in T})
<1> DEFINE posts == {[id |-> n.id, parent |-> n.parent] : n \in T}
<1>1. posts \subseteq Promise!Entry
  BY DEF Promise!Entry
<1>2. \A p, q \in posts : p.id = q.id => p = q
  OBVIOUS
<1>3. \A p \in posts : p.parent = NoParent \/ \E q \in posts : q.id = p.parent
  <2> SUFFICES ASSUME NEW n \in T, n.parent # NoParent
               PROVE  \E q \in posts : q.id = n.parent
    OBVIOUS
  <2>1. PICK m \in T : m.id = n.parent
    OBVIOUS
  <2>2. [id |-> m.id, parent |-> m.parent] \in posts
    OBVIOUS
  <2> QED BY <2>1, <2>2
<1> QED BY <1>1, <1>2, <1>3 DEF Promise!Sound

LEMMA PostsSound ==
    ASSUME OnlyGenuine, TableInv
    PROVE  Promise!Sound(Posts)
<1>1. \A n \in nodes : n.id \in GenuineIDs
  BY DEF OnlyGenuine, Attested, GenuineIDs
<1> QED BY <1>1, SoundPosts DEF TableInv, Keyed, Threaded, IDs, Posts

LEMMA PostsStaySound ==
    ASSUME OnlyGenuine', TableInv'
    PROVE  Promise!Sound(Posts')
<1>1. \A n \in nodes' : n.id \in GenuineIDs
  BY DEF OnlyGenuine, Attested, GenuineIDs
<1> QED BY <1>1, SoundPosts DEF TableInv, Keyed, Threaded, IDs, Posts

\* Seen from the clients and from the table, a step of a publish request is one of four.
LEMMA PublishEffects ==
    ASSUME PublishTypeOK, NEW r \in Request, PublishStep(r)
    PROVE  \/ UNCHANGED <<nodes, answer>>
           \/ /\ stage[r] # "done"
              /\ \/ /\ answer' = [answer EXCEPT ![r] = "published"]
                    /\ stage[r] = "create" /\ InsertNode(post[r], NodeID(post[r]))
                 \/ /\ answer' = [answer EXCEPT ![r] = "already_exists"]
                    /\ NodeID(post[r]) \in IDs /\ UNCHANGED nodes
                 \/ /\ \E a \in Answers \ (Acknowledged \cup {"none"}) : answer' = [answer EXCEPT ![r] = a]
                    /\ \/ UNCHANGED nodes
                       \/ stage[r] = "create" /\ InsertNode(post[r], NodeID(post[r]))
<1> USE DEF Goto, Reply, Answers, Acknowledged
<1>1. CASE Arrive(r) BY <1>1 DEF Arrive, dbVars
<1>2. CASE Banlist(r) BY <1>2 DEF Banlist, dbVars
<1>3. CASE FilterWords(r) BY <1>3 DEF FilterWords, FailOpenCheck, dbVars
<1>4. CASE FilterHash(r) BY <1>4 DEF FilterHash, FailOpenCheck, dbVars
<1>5. CASE Whitelist(r) BY <1>5 DEF Whitelist, dbVars
<1>6. CASE Validate(r) BY <1>6 DEF Validate, dbVars
<1>7. CASE MarkNonce(r) BY <1>7 DEF MarkNonce
<1>8. CASE CheckSignature(r) BY <1>8 DEF CheckSignature, dbVars
<1>9. CASE CheckContentBan(r) BY <1>9 DEF CheckContentBan, FailOpenCheck, dbVars
<1>10. CASE Lookup(r) BY <1>10 DEF Lookup, dbVars
<1>11. CASE Create(r) BY <1>11 DEF Create
<1> QED BY <1>1, <1>2, <1>3, <1>4, <1>5, <1>6, <1>7, <1>8, <1>9, <1>10, <1>11 DEF PublishStep

\* What the answers look like as receipts.
LEMMA AnswerSettles ==
    ASSUME PublishTypeOK, NEW r \in Request, answer[r] = "none", NEW a \in Answers \ {"none"},
           answer' = [answer EXCEPT ![r] = a], UNCHANGED post
    PROVE  Promise!Settle(r, IF a \in Acknowledged THEN a ELSE "refused",
                             IF a \in Acknowledged THEN NodeID(post[r]) ELSE NoParent)
<1>1. Receipts[r] = Promise!Pending
  BY DEF Receipts, Promise!Pending, Acknowledged
<1>2. Receipts' = [Receipts EXCEPT ![r] =
          [status |-> IF a \in Acknowledged THEN a ELSE "refused",
           id |-> IF a \in Acknowledged THEN NodeID(post[r]) ELSE NoParent]]
  <2>1. \A q \in Request : answer'[q] = IF q = r THEN a ELSE answer[q]
    BY DEF PublishTypeOK
  <2>2. \A q \in Request : Receipts'[q] = IF q = r THEN
          [status |-> IF a \in Acknowledged THEN a ELSE "refused",
           id |-> IF a \in Acknowledged THEN NodeID(post[r]) ELSE NoParent] ELSE Receipts[q]
    BY <2>1 DEF Receipts, NodeID, Acknowledged
  <2> QED BY <2>2 DEF Receipts
<1> QED BY <1>1, <1>2 DEF Promise!Settle

\* What an INSERT adds to the table is one post, new to the ledger.
LEMMA InsertPosts ==
    ASSUME NEW d, InsertNode(d, NodeID(d)), Promise!Sound(Posts')
    PROVE  \E p \in Promise!Entry : /\ p.id = NodeID(d)
                                    /\ \A q \in Posts : q.id # p.id
                                    /\ Posts' = Posts \cup {p}
<1> DEFINE new == NodeRow(d, NodeID(d), clock)
           p == [id |-> new.id, parent |-> new.parent]
<1>1. new.id = NodeID(d) /\ new.id \notin IDs /\ nodes' = nodes \cup {new}
  BY DEF InsertNode, NodeRow
<1> HIDE DEF new
<1>2. Posts' = Posts \cup {p}
  BY <1>1 DEF Posts
<1>3. \A q \in Posts : q.id # p.id
  BY <1>1 DEF Posts, IDs
<1>4. p \in Promise!Entry
  BY <1>2 DEF Promise!Sound
<1> QED BY <1>1, <1>2, <1>3, <1>4

\* The four effects are actions of the ledger.
LEMMA PublishRefines ==
    ASSUME TypeInv, BarrierInv, Promise!Sound(Posts'), NEW r \in Request, PublishStep(r)
    PROVE  Promise!Next \/ UNCHANGED <<Posts, Receipts>>
<1> USE DEF TypeInv, TypeOK
<1>1. UNCHANGED post
  BY OthersStay
<1>2. UNCHANGED nodes => UNCHANGED Posts
  BY DEF Posts
<1>3. stage[r] # "done" => answer[r] = "none"
  BY DEF BarrierInv, RequestBarrier
<1>4. CASE UNCHANGED <<nodes, answer>>
  BY <1>1, <1>2, <1>4 DEF Receipts, NodeID
<1>5. CASE /\ stage[r] # "done"
           /\ answer' = [answer EXCEPT ![r] = "published"]
           /\ InsertNode(post[r], NodeID(post[r]))
  <2>1. Promise!Settle(r, "published", NodeID(post[r]))
    BY <1>1, <1>3, <1>5, AnswerSettles DEF Answers, Acknowledged
  <2>2. Promise!Publish(r)
    BY <1>5, <2>1, InsertPosts DEF Promise!Publish
  <2> QED BY <2>2 DEF Promise!Next
<1>6. CASE /\ stage[r] # "done"
           /\ answer' = [answer EXCEPT ![r] = "already_exists"]
           /\ NodeID(post[r]) \in IDs /\ UNCHANGED nodes
  <2>1. Promise!Settle(r, "already_exists", NodeID(post[r]))
    BY <1>1, <1>3, <1>6, AnswerSettles DEF Answers, Acknowledged
  <2>2. \E p \in Posts : p.id = NodeID(post[r])
    <3>1. PICK n \in nodes : n.id = NodeID(post[r])
      BY <1>6 DEF IDs
    <3>2. [id |-> n.id, parent |-> n.parent] \in Posts
      BY DEF Posts
    <3> QED BY <3>1, <3>2
  <2>3. Promise!Confirm(r)
    BY <1>2, <1>6, <2>1, <2>2 DEF Promise!Confirm
  <2> QED BY <2>3 DEF Promise!Next
<1>7. ASSUME NEW a \in Answers \ (Acknowledged \cup {"none"}), stage[r] # "done",
             answer' = [answer EXCEPT ![r] = a],
             UNCHANGED nodes \/ InsertNode(post[r], NodeID(post[r]))
      PROVE  Promise!Next
  <2>1. Promise!Settle(r, "refused", NoParent)
    BY <1>1, <1>3, <1>7, AnswerSettles
  <2>2. CASE UNCHANGED nodes
    BY <1>2, <2>1, <2>2 DEF Promise!Refuse, Promise!Next
  <2>3. CASE InsertNode(post[r], NodeID(post[r]))
    <3>1. Promise!Fail(r)
      BY <2>1, <2>3, InsertPosts DEF Promise!Fail
    <3> QED BY <3>1 DEF Promise!Next
  <2> QED BY <1>7, <2>2, <2>3
<1> QED BY <1>4, <1>5, <1>6, <1>7, PublishEffects

\* What settles no request can only add posts, or only delete some.
LEMMA OthersRefine ==
    ASSUME Promise!Sound(Posts'), UNCHANGED <<answer, post>>,
           nodes \subseteq nodes' \/ nodes' \subseteq nodes
    PROVE  Promise!Next
<1>1. UNCHANGED Receipts
  BY DEF Receipts, NodeID
<1>2. CASE nodes \subseteq nodes'
  <2>1. Posts \subseteq Posts'
    BY <1>2 DEF Posts
  <2> QED BY <1>1, <2>1 DEF Promise!Import, Promise!Next
<1>3. CASE nodes' \subseteq nodes
  <2>1. Posts' \subseteq Posts
    BY <1>3 DEF Posts
  <2> QED BY <1>1, <2>1 DEF Promise!Moderate, Promise!Next
<1> QED BY <1>2, <1>3

LEMMA CrashRefines ==
    ASSUME TypeInv, BarrierInv, Crash
    PROVE  Promise!Next
<1>1. UNCHANGED Posts
  BY DEF Crash, dbVars, Posts
<1>2. \A r \in Request : answer'[r] = answer[r] \/ (answer[r] = "none" /\ answer'[r] = "lost")
  BY DEF Crash, BarrierInv, RequestBarrier
<1>3. \A r \in Request :
          Receipts'[r] = Receipts[r] \/ (Receipts[r] = Promise!Pending /\ Receipts'[r] = Promise!Refused)
  BY <1>2 DEF Crash, Receipts, NodeID, Promise!Pending, Promise!Refused, Acknowledged
<1>4. Receipts' \in [Request -> {Promise!Pending, Promise!Refused} \cup {Receipts[r] : r \in Request}]
  <2>1. \A r \in Request : Receipts'[r] \in {Promise!Refused} \cup {Receipts[q] : q \in Request}
    BY <1>3
  <2> QED BY <2>1 DEF Receipts
<1>5. Promise!Lose
  BY <1>1, <1>3, <1>4 DEF Promise!Lose
<1> QED BY <1>5 DEF Promise!Next

LEMMA StepRefines ==
    ASSUME TypeInv, BarrierInv, OnlyGenuine', TableInv', [Next]_vars
    PROVE  [Promise!Next]_(Promise!vars)
<1>1. Promise!Sound(Posts')
  BY PostsStaySound
<1>2. ASSUME NEW r \in Request, PublishStep(r)
      PROVE  Promise!Next \/ UNCHANGED <<Posts, Receipts>>
  BY <1>1, <1>2, PublishRefines
<1>3. ASSUME NEW b \in Bulk, ImportStep(b), UNCHANGED requestVars
      PROVE  Promise!Next
  <2>1. nodes \subseteq nodes'
    BY <1>3, ImportInserts DEF InsertBatch
  <2> QED BY <1>1, <1>3, <2>1, OthersRefine DEF requestVars
<1>4. CASE Moderate
  <2>1. nodes' \subseteq nodes
    BY <1>4, ModerationDeletes DEF Moderate, DeleteRows
  <2> QED BY <1>1, <1>4, <2>1, OthersRefine DEF Moderate
<1>5. CASE Crash
  BY <1>5, CrashRefines
<1>6. CASE (CleanupExpired \/ Tick \/ UNCHANGED vars) /\ UNCHANGED requestVars
  BY <1>1, <1>6, OthersRefine DEF CleanupExpired, Tick, vars, dbVars, requestVars
<1> QED BY <1>2, <1>3, <1>4, <1>5, <1>6 DEF Next, vars, Promise!vars

\* The server implements the ledger: every publish request has its whole effect on the posts in
\* one step, the one that decides its answer, however the checks, imports, moderators, failing
\* calls and crashes of other requests fall between its own; and the posts are always sound.
THEOREM ServerImplementsLedger == Spec => ImplementsLedger
<1>1. Init => Promise!Init
  BY DEF Init, DatabaseInit, PublishInit, Promise!Init, Posts, Receipts, Promise!Pending, Acknowledged
<1>2. TypeInv /\ BarrierInv /\ OnlyGenuine' /\ TableInv' /\ [Next]_vars => [Promise!Next]_(Promise!vars)
  BY StepRefines
<1>3. Init => OnlyGenuine
  BY DEF Init, DatabaseInit, OnlyGenuine
<1>4. Spec => [](TypeInv /\ BarrierInv /\ CheckedInv /\ OnlyGenuine /\ TableInv)
  BY <1>3, TypeInvInit, TypeInvStep, BarrierInvInit, BarrierInvStep, CheckedInvInit, CheckedInvStep,
     GenuineStep, TableInvInit, TableInvStep, PTL DEF Spec
<1> QED BY <1>1, <1>2, <1>4, PTL DEF Spec, ImplementsLedger, Promise!Spec

(****************************************************************************)
(* BatchAllOrNothing                                                        *)
(****************************************************************************)

\* An import commits the whole of its batch, what was there already included, or nothing.
LEMMA BatchStep ==
    ASSUME TypeInv, [Next]_vars, NEW b \in Bulk, bulkStage[b] = "commit", bulkStage'[b] = "done"
    PROVE  \/ nodes' = nodes
           \/ {NodeID(validNodes[b][i]) : i \in DOMAIN validNodes[b]} \subseteq {n.id : n \in nodes'}
<1> USE DEF TypeInv, TypeOK, ImportTypeOK
<1>1. ASSUME NEW c \in Bulk, ImportStep(c)
      PROVE  \/ nodes' = nodes
             \/ {NodeID(validNodes[b][i]) : i \in DOMAIN validNodes[b]} \subseteq {n.id : n \in nodes'}
  <2>1. c = b
    BY <1>1 DEF ImportStep, BulkArrive, BulkBanlist, BulkFilter, BulkWhitelist, BulkValidate,
                EndOfBatch, CreateBatch, BulkGoto, BulkReply
  <2>2. UNCHANGED nodes \/ InsertBatch(validNodes[b])
    BY <1>1, <2>1, ImportInserts
  <2>3. InsertBatch(validNodes[b]) => \A i \in DOMAIN validNodes[b] : NodeID(validNodes[b][i]) \in IDs'
    BY BatchStored
  <2> QED BY <2>2, <2>3 DEF IDs
<1> QED BY <1>1 DEF Next, Moderate, CleanupExpired, Tick, Crash, vars, dbVars, importVars

\* Between a batch that is rejected as a whole and one that is stored as a whole there is nothing,
\* whatever the order of its replies and whichever statement of the transaction fails.
THEOREM BatchAllOrNothingHolds == Spec => BatchAllOrNothing
<1>1. TypeInv /\ [Next]_vars =>
          [\A b \in Bulk : bulkStage[b] = "commit" /\ bulkStage'[b] = "done" =>
              \/ nodes' = nodes
              \/ {NodeID(validNodes[b][i]) : i \in DOMAIN validNodes[b]} \subseteq {n.id : n \in nodes'}]_vars
  BY BatchStep
<1> QED BY <1>1, TypeInvInit, TypeInvStep, PTL DEF Spec, BatchAllOrNothing
=============================================================================
