-------------------------- MODULE FederationProofs --------------------------
(****************************************************************************)
(* A server among its peers, for any parcels they may send and any number   *)
(* of requests: what content sync lets in and whom it punishes, and that    *)
(* the promises to the server's own clients do not suffer from it.          *)
(****************************************************************************)
EXTENDS Federation, ServerProofs

FedInv == TypeInv /\ CheckedInv /\ SyncTypeOK /\ PullInv

\* A step of the pair is one of the server, which the worker may lose its work in, or one of the
\* worker, which leaves the handlers and the moderators alone.
LEMMA EitherWorks ==
    ASSUME PullInv, [FedNext]_fedVars
    PROVE  \/ /\ [Next]_vars
              /\ UNCHANGED <<pull, items>> \/ (pull' = "idle" /\ items' = <<>>)
              /\ pullStanding' \subseteq pullStanding \cap banned_hashes'
              /\ UNCHANGED <<validCount, invalidCount, verdict, parcel, pullBlind>>
           \/ SyncStep /\ UNCHANGED serverOnly
<1>1. CASE Serve
  BY <1>1 DEF Serve
<1>2. CASE Sync
  BY <1>2 DEF Sync
<1>3. CASE UNCHANGED fedVars
  BY <1>3 DEF fedVars, syncVars, vars, dbVars, PullInv
<1> QED BY <1>1, <1>2, <1>3 DEF FedNext

\* All the worker does to the tables is an INSERT of the item it has found genuine.
LEMMA SyncInserts ==
    ASSUME SyncTypeOK, PullInv, SyncStep
    PROVE  /\ UNCHANGED syncTables
           /\ Fault \/ UNCHANGED faults
           /\ \/ UNCHANGED nodes
              \/ /\ StoreItem /\ items[1] \in Item
                 /\ InsertNode(items[1].doc, items[1].id)
<1>1. items # <<>> => Head(items) = items[1] /\ items[1] \in Item
  BY DEF SyncTypeOK
<1>2. CASE StoreItem
  BY <1>1, <1>2 DEF StoreItem, PullInv
<1>3. CASE Pull \/ CheckItem \/ EndPull
  BY <1>3 DEF Pull, CheckItem, EndPull, NextItem
<1> QED BY <1>2, <1>3 DEF SyncStep

\* What is stored from a parcel, its ID apart, is what its author signed for this network.
LEMMA PulledGenuine ==
    ASSUME SyncTypeOK, PullInv, SyncStep, NEW n \in nodes' \ nodes
    PROVE  /\ Attested(n)
           /\ pull = "store"
           /\ SigHash[n.sig] \notin pullStanding \/ n.sig \in pullBlind
<1>1. StoreItem /\ InsertNode(items[1].doc, items[1].id)
  BY SyncInserts
<1>2. n = NodeRow(items[1].doc, items[1].id, clock)
  BY <1>1 DEF InsertNode
<1>3. /\ n.sig = items[1].doc.sig /\ n.author = items[1].doc.author
      /\ n.body = items[1].doc.body /\ n.claimed = items[1].doc.claimed
  BY <1>2 DEF NodeRow
<1>4. pull = "store"
  BY <1>1 DEF StoreItem
<1>5. /\ items[1].doc.network = HomeNetwork /\ VerifySignature(items[1].doc)
      /\ SigHash[items[1].doc.sig] \notin pullStanding \/ items[1].doc.sig \in pullBlind
  BY <1>4 DEF PullInv, Judge
<1>6. Attested(n)
  BY <1>3, <1>5 DEF Attested, VerifySignature, CanonicalMessage
<1> QED BY <1>3, <1>4, <1>5, <1>6

(****************************************************************************)
(* The invariant                                                            *)
(****************************************************************************)

\* What is left of a sequence when its head is taken off was there before.
LEMMA TailKeeps ==
    ASSUME NEW S, NEW s \in Seq(S), s # <<>>
    PROVE  /\ Tail(s) \in Seq(S)
           /\ \A i \in DOMAIN Tail(s) : i + 1 \in DOMAIN s /\ Tail(s)[i] = s[i + 1]
OBVIOUS

\* A parcel comes from nowhere else, and the worker's work is taken off its front.
LEMMA SyncKeepsItems ==
    ASSUME SyncTypeOK, PullInv, SyncStep
    PROVE  /\ items' \in Seq(Item) /\ parcel' \in Seq(Item)
           /\ \A i \in DOMAIN items' : \E j \in DOMAIN parcel' : items'[i] = parcel'[j]
<1> USE DEF SyncTypeOK
<1>1. CASE Pull
  BY <1>1, ParcelAssumption DEF Pull
<1>2. CASE UNCHANGED <<items, parcel>>
  BY <1>2 DEF PullInv
<1>3. CASE items' = Tail(items) /\ items # <<>> /\ UNCHANGED parcel
  <2>1. /\ Tail(items) \in Seq(Item)
        /\ \A i \in DOMAIN Tail(items) : i + 1 \in DOMAIN items /\ Tail(items)[i] = items[i + 1]
    BY <1>3, TailKeeps
  <2> QED BY <1>3, <2>1 DEF PullInv
<1> QED BY <1>1, <1>2, <1>3 DEF SyncStep, CheckItem, StoreItem, EndPull, NextItem, PullInv

LEMMA SyncKeepsSyncTypes ==
    ASSUME SyncTypeOK, PullInv, TypeInv, SyncStep
    PROVE  SyncTypeOK'
<1>1. items' \in Seq(Item) /\ parcel' \in Seq(Item)
  BY SyncKeepsItems
<1>2. pull' \in {"idle", "check", "store"} /\ verdict' \in {"none", "punished", "rewarded"}
  BY DEF SyncTypeOK, SyncStep, Pull, CheckItem, StoreItem, EndPull, NextItem
<1>3. validCount' \in Nat /\ invalidCount' \in Nat
  BY DEF SyncTypeOK, SyncStep, Pull, CheckItem, StoreItem, EndPull, NextItem, CountInvalid
<1>4. pullStanding' \subseteq Hash
  BY DEF SyncTypeOK, TypeInv, TypeOK, DatabaseTypeOK, SyncStep, Pull, CheckItem, StoreItem, EndPull
<1>5. pullBlind' \subseteq Sig
  <2>1. CASE CheckItem
    <3>1. Head(items) \in Item
      BY <2>1 DEF CheckItem, SyncTypeOK
    <3>2. Head(items).doc.sig \in Sig
      BY <3>1 DEF Item, Document
    <3> QED BY <2>1, <3>2 DEF CheckItem, SyncTypeOK
  <2>2. CASE Pull \/ StoreItem \/ EndPull
    BY <2>2 DEF Pull, StoreItem, EndPull, SyncTypeOK
  <2> QED BY <2>1, <2>2 DEF SyncStep
<1> QED BY <1>1, <1>2, <1>3, <1>4, <1>5 DEF SyncTypeOK

LEMMA SyncKeepsPullInv ==
    ASSUME SyncTypeOK, PullInv, SyncStep
    PROVE  PullInv'
<1>1. \A i \in DOMAIN items' : \E j \in DOMAIN parcel' : items'[i] = parcel'[j]
  BY SyncKeepsItems
<1>2. pullStanding' \subseteq banned_hashes'
  BY DEF PullInv, SyncStep, Pull, CheckItem, StoreItem, EndPull, syncTables
<1>3. items # <<>> => Head(items) = items[1] /\ 1 \in DOMAIN items
  BY DEF SyncTypeOK
<1>4. invalidCount' > 0 \/ verdict' = "punished" =>
          \E j \in DOMAIN parcel' : Judge(parcel'[j].doc) = "forged"
  <2>1. CASE Pull
    BY <2>1 DEF Pull
  <2>2. CASE CheckItem
    <3>1. CASE Judge(Head(items).doc) = "forged"
      <4>1. PICK j \in DOMAIN parcel : items[1] = parcel[j]
        BY <1>3, <2>2 DEF CheckItem, PullInv
      <4> QED BY <1>3, <2>2, <3>1, <4>1 DEF CheckItem, Judge, VerifySignature, CanonicalMessage
    <3>2. CASE Judge(Head(items).doc) # "forged"
      BY <2>2, <3>2 DEF CheckItem, PullInv, Judge, VerifySignature, CanonicalMessage
    <3> QED BY <3>1, <3>2
  <2>3. CASE StoreItem \/ EndPull
    BY <2>3 DEF StoreItem, EndPull, PullInv, Judge, VerifySignature, CanonicalMessage
  <2> QED BY <2>1, <2>2, <2>3 DEF SyncStep
<1>5. pull' = "store" =>
          /\ items' # <<>>
          /\ Judge(items'[1].doc) = "genuine"
          /\ SigHash[items'[1].doc.sig] \notin pullStanding' \/ items'[1].doc.sig \in pullBlind'
  <2>1. pull' = "store" => CheckItem
    BY DEF SyncStep, Pull, StoreItem, EndPull, NextItem
  <2> QED BY <1>3, <2>1 DEF CheckItem, NextItem, PullInv, IsBannedHash
<1> QED BY <1>1, <1>2, <1>4, <1>5 DEF PullInv, Judge, VerifySignature, CanonicalMessage

\* The other half: what the server does behind the worker's back. A ban that is lifted has not
\* stood all the while; a crash takes the parcel out of the worker's hands.
LEMMA ServeKeepsPullInv ==
    ASSUME SyncTypeOK, PullInv, TypeInv, [Next]_vars,
           UNCHANGED <<pull, items>> \/ (pull' = "idle" /\ items' = <<>>),
           pullStanding' \subseteq pullStanding \cap banned_hashes',
           UNCHANGED <<validCount, invalidCount, verdict, parcel, pullBlind>>
    PROVE  SyncTypeOK' /\ PullInv'
<1>1. pullStanding' \subseteq pullStanding /\ pullStanding' \subseteq banned_hashes'
  OBVIOUS
<1>2. SyncTypeOK'
  <2>1. <<>> \in Seq(Item)
    OBVIOUS
  <2>2. items' \in Seq(Item)
    BY <2>1 DEF SyncTypeOK
  <2> QED BY <1>1, <2>2 DEF SyncTypeOK
<1>3. /\ \A i \in DOMAIN items' : \E j \in DOMAIN parcel' : items'[i] = parcel'[j]
      /\ invalidCount' > 0 \/ verdict' = "punished" =>
             \E j \in DOMAIN parcel' : Judge(parcel'[j].doc) = "forged"
  BY DEF PullInv, Judge, VerifySignature, CanonicalMessage
<1>4. pull' = "store" =>
          /\ items' # <<>>
          /\ Judge(items'[1].doc) = "genuine"
          /\ SigHash[items'[1].doc.sig] \notin pullStanding' \/ items'[1].doc.sig \in pullBlind'
  BY <1>1 DEF PullInv
<1> QED BY <1>1, <1>2, <1>3, <1>4 DEF PullInv, Judge, VerifySignature, CanonicalMessage

\* The tables and the handlers: the worker's INSERT is a row like any other's.
LEMMA SyncKeepsTypes ==
    ASSUME TypeInv, SyncTypeOK, PullInv, SyncStep, UNCHANGED serverOnly
    PROVE  TypeInv'
<1> USE DEF TypeInv, TypeOK
<1>1. UNCHANGED syncTables /\ (Fault \/ UNCHANGED faults)
  BY SyncInserts
<1>2. nodes' \subseteq Row
  <2>1. ASSUME NEW item \in Item, InsertNode(item.doc, item.id)
        PROVE  nodes' \subseteq Row
    <3>1. item.doc \in Document /\ item.id \in ID /\ clock \in Nat
      BY TimeAssumption DEF Item, DatabaseTypeOK
    <3>2. NodeRow(item.doc, item.id, clock) \in Row
      BY <3>1 DEF NodeRow, Row, Document
    <3> QED BY <2>1, <3>2 DEF InsertNode, DatabaseTypeOK
  <2> QED BY <2>1, SyncInserts DEF DatabaseTypeOK
<1>3. DatabaseTypeOK'
  BY <1>1, <1>2, FaultTypes DEF DatabaseTypeOK, syncTables
<1> QED BY <1>3, PublishTypesStay, ModerationTypesStay, ImportTypesStay
        DEF serverOnly, requestVars, importVars

LEMMA CheckedStays ==
    ASSUME CheckedInv, UNCHANGED <<requestVars, importVars>>
    PROVE  CheckedInv'
BY DEF CheckedInv, requestVars, importVars, Genuine, VerifySignature, CanonicalMessage

LEMMA FedInvInit == FedInit => FedInv
<1> SUFFICES ASSUME FedInit
             PROVE  FedInv
  OBVIOUS
<1>1. TypeInv /\ CheckedInv
  BY TypeInvInit, CheckedInvInit DEF FedInit
<1>2. <<>> \in Seq(Item) /\ DOMAIN <<>> = {}
  OBVIOUS
<1>3. SyncTypeOK /\ PullInv
  BY <1>2 DEF FedInit, SyncInit, SyncTypeOK, PullInv
<1> QED BY <1>1, <1>3 DEF FedInv

LEMMA FedInvStep == FedInv /\ [FedNext]_fedVars => FedInv'
<1> SUFFICES ASSUME FedInv, [FedNext]_fedVars
             PROVE  FedInv'
  OBVIOUS
<1> USE DEF FedInv
<1>1. CASE SyncStep /\ UNCHANGED serverOnly
  BY <1>1, SyncKeepsTypes, SyncKeepsSyncTypes, SyncKeepsPullInv, CheckedStays DEF serverOnly
<1>2. CASE ~(SyncStep /\ UNCHANGED serverOnly)
  <2>1. TypeInv' /\ CheckedInv'
    BY <1>2, EitherWorks, TypeInvStep, CheckedInvStep
  <2> QED BY <1>2, <2>1, EitherWorks, ServeKeepsPullInv
<1> QED BY <1>1, <1>2

LEMMA FedInvHolds == FedSpec => []FedInv
BY FedInvInit, FedInvStep, PTL DEF FedSpec

\* The variables of the server and of its worker stay in their types, whatever the peers send.
THEOREM FedTypeCorrect == FedSpec => []FedTypeOK
<1>1. FedInv => FedTypeOK
  BY DEF FedInv, TypeInv, FedTypeOK
<1> QED BY <1>1, FedInvHolds, PTL

(****************************************************************************)
(* What content sync promises                                               *)
(****************************************************************************)

LEMMA AttestedStep == FedInv /\ GenuineByAnyWay /\ [FedNext]_fedVars => GenuineByAnyWay'
<1> SUFFICES ASSUME FedInv, GenuineByAnyWay, [FedNext]_fedVars, NEW n \in nodes'
             PROVE  Attested(n)'
  BY DEF GenuineByAnyWay
<1>1. CASE n \in nodes
  BY <1>1 DEF GenuineByAnyWay, Attested
<1>2. CASE n \notin nodes
  <2>1. [Next]_vars => Attested(n)
    BY <1>2, AddedGenuine DEF FedInv
  <2>2. SyncStep => Attested(n)
    BY <1>2, PulledGenuine DEF FedInv
  <2>3. Attested(n)
    BY <2>1, <2>2, EitherWorks DEF FedInv
  <2> QED BY <2>3 DEF Attested
<1> QED BY <1>1, <1>2

\* Nothing unattested gets in by any way: a client, a batch, or a peer that sends what it likes,
\* in whatever order the worker's looks and its INSERT fall among the handlers'.
THEOREM GenuineByAnyWayHolds == FedSpec => []GenuineByAnyWay
<1>1. FedInit => GenuineByAnyWay
  BY DEF FedInit, Init, DatabaseInit, GenuineByAnyWay
<1> QED BY <1>1, AttestedStep, FedInvHolds, PTL DEF FedSpec

LEMMA SyncBarrierStep ==
    ASSUME FedInv, [FedNext]_fedVars, NEW n \in nodes' \ nodes, pull = "store", pull' = "check"
    PROVE  SigHash[n.sig] \notin pullStanding \/ n.sig \in pullBlind
<1>1. SyncStep
  BY EitherWorks DEF FedInv
<1> QED BY <1>1, PulledGenuine DEF FedInv

\* A post is not taken from a peer if its hash has been banned since the pull began, unless the
\* look at the banned hashes failed: bans that come or go meanwhile, and crashes, included.
THEOREM SyncBarrierHolds == FedSpec => SyncBarrier
<1>1. FedInv /\ [FedNext]_fedVars =>
          [\A n \in nodes' \ nodes :
              pull = "store" /\ pull' = "check" =>
                  SigHash[n.sig] \notin pullStanding \/ n.sig \in pullBlind]_fedVars
  BY SyncBarrierStep
<1> QED BY <1>1, FedInvHolds, PTL DEF FedSpec, SyncBarrier

\* A peer is punished only if it sent a document of this network whose signature does not verify:
\* never for duplicates, bans, orphans or failures of this server.
THEOREM OnlyPunishedForForgeryHolds == FedSpec => []OnlyPunishedForForgery
<1>1. FedInv => OnlyPunishedForForgery
  BY DEF FedInv, PullInv, OnlyPunishedForForgery
<1> QED BY <1>1, FedInvHolds, PTL

(****************************************************************************)
(* The server's promises, with peers                                        *)
(****************************************************************************)

ServerInv == BarrierInv /\ OpenInv /\ SpacingInv /\ CauseInv /\ AckDurable /\ TableInv

LEMMA ServerInvStep ==
    ASSUME TypeInv, TypeInv', ServerInv, [Next]_vars
    PROVE  ServerInv'
BY BarrierInvStep, OpenInvStep, SpacingInvStep, CauseInvStep, AckStep, TableInvStep DEF ServerInv

\* What the worker stores takes no promise back: it touches no request, no nonce and no ban.
LEMMA SyncKeepsServerInv ==
    ASSUME TypeInv, ServerInv, SyncTypeOK, PullInv, SyncStep, UNCHANGED serverOnly
    PROVE  ServerInv'
<1>1. UNCHANGED syncTables /\ UNCHANGED requestVars /\ UNCHANGED importVars /\ UNCHANGED moderationVars
  BY SyncInserts DEF serverOnly
<1>2. BarrierInv'
  BY <1>1, BansStay DEF ServerInv, BarrierInv, RequestBarrier, BulkBarrier, Past, BulkPastBanlist,
                        syncTables, requestVars, importVars
<1>3. OpenInv'
  BY <1>1 DEF ServerInv, OpenInv, Past, requestVars
<1>4. SpacingInv'
  BY <1>1 DEF ServerInv, SpacingInv, NonceInv, NonceSpacing, Remembered, syncTables, requestVars
<1>5. CauseInv'
  <2>1. faults > 0 => faults' > 0
    BY SyncInserts, FaultCounts DEF TypeInv, TypeOK
  <2> QED BY <1>1, <2>1 DEF ServerInv, CauseInv, Accounted, RefusedForCause, syncTables, requestVars
<1>6. AckDurable'
  <2>1. IDs \subseteq IDs'
    BY SyncInserts DEF InsertNode, IDs
  <2> QED BY <1>1, <2>1 DEF ServerInv, AckDurable, NodeID, requestVars, moderationVars
<1>7. TableInv'
  <2>1. CASE UNCHANGED nodes
    BY <2>1 DEF ServerInv, TableInv, Keyed, Threaded, IDs
  <2>2. CASE InsertNode(items[1].doc, items[1].id)
    BY <2>2, InsertKeepsTable DEF ServerInv
  <2> QED BY <2>1, <2>2, SyncInserts
<1> QED BY <1>2, <1>3, <1>4, <1>5, <1>6, <1>7 DEF ServerInv

LEMMA ServerInvInit == Init => ServerInv
<1>1. Init => AckDurable
  BY DEF Init, PublishInit, AckDurable, Acknowledged
<1> QED BY <1>1, BarrierInvInit, OpenInvInit, SpacingInvInit, CauseInvInit, TableInvInit DEF ServerInv

LEMMA FedServerStep == FedInv /\ FedInv' /\ ServerInv /\ [FedNext]_fedVars => ServerInv'
BY EitherWorks, ServerInvStep, SyncKeepsServerInv DEF FedInv

\* The promises to the clients and the moderators that do not name the ID of a node survive the
\* company of peers: replay protection, both barriers, durability, no refusal without cause.
THEOREM PromisesSurviveSync ==
    FedSpec => [](NonceSpacing /\ ClosedBarrier /\ OpenBarrier /\ AckDurable /\ RefusedForCause)
<1>1. FedInit => ServerInv
  BY ServerInvInit DEF FedInit
<1>2. ServerInv => NonceSpacing /\ ClosedBarrier /\ OpenBarrier /\ AckDurable /\ RefusedForCause
  BY DEF ServerInv, SpacingInv, BarrierInv, RequestBarrier, BulkBarrier, ClosedBarrier, Past,
         BulkPastBanlist, OpenInv, OpenBarrier, CauseInv
<1> QED BY <1>1, <1>2, FedServerStep, FedInvHolds, PTL DEF FedSpec
=============================================================================
