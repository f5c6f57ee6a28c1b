---------------------------- MODULE ContentSync ----------------------------
(****************************************************************************)
(* Content sync: the gossip worker pulls the posts of a peer and stores     *)
(* those it finds genuine (fetchContentFrom in services/peer_discovery.go). *)
(* The middleware, the nonces and the clock play no part.  One peer is      *)
(* pulled at a time; the order of the peers is in Gossip.                   *)
(****************************************************************************)
EXTENDS Governance, Sequences

CONSTANT Parcel  \* what peers may answer: sequences of documents with the IDs they give them

Item == [doc: Document, id: ID]

ASSUME ParcelAssumption == Parcel \subseteq Seq(Item)

VARIABLES
    pull,          \* what the worker does with the next item: nothing, checks, stores it
    items,         \* the items still to look at
    validCount, invalidCount,
    verdict,       \* what the peer got out of the last pull
    parcel,        \* history: all it sent
    pullStanding,  \* history: hashes banned ever since
    pullBlind      \* history: signatures whose ban could not be looked up

syncVars == <<pull, items, validCount, invalidCount, verdict, parcel, pullStanding, pullBlind>>
syncTables == <<used_nonces, banned_users, banned_words, banned_hashes, whitelist, clock>>

SyncTypeOK ==
    /\ pull \in {"idle", "check", "store"}
    /\ items \in Seq(Item) /\ parcel \in Seq(Item)
    /\ validCount \in Nat /\ invalidCount \in Nat
    /\ verdict \in {"none", "punished", "rewarded"}
    /\ pullStanding \subseteq Hash /\ pullBlind \subseteq Sig

SyncInit ==
    /\ pull = "idle" /\ items = <<>> /\ validCount = 0 /\ invalidCount = 0
    /\ verdict = "none" /\ parcel = <<>> /\ pullStanding = {} /\ pullBlind = {}

Pull ==
    /\ pull = "idle"
    /\ pull' = "check"
    /\ \E p \in Parcel : items' = p /\ parcel' = p
    /\ validCount' = 0 /\ invalidCount' = 0 /\ verdict' = "none"
    /\ pullStanding' = banned_hashes /\ pullBlind' = {}
    /\ UNCHANGED <<nodes, faults, syncTables>>

NextItem == items' = Tail(items) /\ pull' = "check"

\* Mutant: the count runs backwards.
DiscountInvalid == invalidCount' = invalidCount - 1
CountInvalid == invalidCount' = invalidCount + 1

\* Mutant: the signature is taken for granted.
JudgeByNetwork(d) == IF d.network # HomeNetwork THEN "foreign" ELSE "genuine"

\* Posts of another network are skipped; the others must verify.
Judge(d) == IF d.network # HomeNetwork THEN "foreign"
            ELSE IF ~VerifySignature(d) THEN "forged"
            ELSE "genuine"

\* Mutant: the ban is not looked up.
CheckSignatureOnly ==
    /\ pull = "check" /\ items # <<>>
    /\ CASE Judge(Head(items).doc) = "foreign" -> NextItem /\ UNCHANGED invalidCount
         [] Judge(Head(items).doc) = "forged" -> NextItem /\ CountInvalid
         [] OTHER -> pull' = "store" /\ UNCHANGED <<items, invalidCount>>
    /\ UNCHANGED <<validCount, verdict, parcel, pullStanding, pullBlind, nodes, faults, syncTables>>

\* The loop up to the ban: a banned post is dropped, unless its ban cannot be read.
CheckItem ==
    /\ pull = "check" /\ items # <<>>
    /\ LET d == Head(items).doc
       IN  \/ /\ Judge(d) = "foreign" \/ (Judge(d) = "genuine" /\ IsBannedHash(d))
              /\ NextItem /\ UNCHANGED <<invalidCount, faults, pullBlind>>
           \/ /\ Judge(d) = "forged" /\ NextItem
              /\ CountInvalid /\ UNCHANGED <<faults, pullBlind>>
           \/ /\ Judge(d) = "genuine"
              /\ \/ ~IsBannedHash(d) /\ UNCHANGED <<faults, pullBlind>>
                 \/ Fault /\ pullBlind' = pullBlind \cup {d.sig}
              /\ pull' = "store" /\ UNCHANGED <<items, invalidCount>>
    /\ UNCHANGED <<validCount, verdict, parcel, pullStanding, nodes, syncTables>>

\* Mutant: a post that is not stored counts against the peer.
StoreOrBlame ==
    /\ pull = "store" /\ NextItem
    /\ LET d == Head(items).doc  id == Head(items).id
       IN  \/ InsertNode(d, id) /\ validCount' = validCount + 1 /\ UNCHANGED <<faults, invalidCount>>
           \/ /\ id \in IDs \/ ~ParentStored(d, id)
              /\ invalidCount' = invalidCount + 1 /\ UNCHANGED <<nodes, faults, validCount>>
    /\ UNCHANGED <<verdict, parcel, pullStanding, pullBlind, syncTables>>

\* The post is stored under the ID the peer gave it: the one computed from the signature is
\* not assigned. A duplicate, a missing parent or a failing call is passed over.
StoreItem ==
    /\ pull = "store" /\ NextItem
    /\ LET d == Head(items).doc  id == Head(items).id
       IN  \/ InsertNode(d, id) /\ validCount' = validCount + 1 /\ UNCHANGED faults
           \/ /\ id \in IDs \/ ~ParentStored(d, id)
              /\ UNCHANGED <<nodes, faults, validCount>>
           \/ /\ Fault /\ UNCHANGED validCount
              /\ UNCHANGED nodes \/ InsertNode(d, id)
    /\ UNCHANGED <<invalidCount, verdict, parcel, pullStanding, pullBlind, syncTables>>

EndPull ==
    /\ pull = "check" /\ items = <<>>
    /\ pull' = "idle"
    /\ verdict' = IF invalidCount > 0 /\ invalidCount > validCount THEN "punished"
                  ELSE IF validCount > 0 THEN "rewarded"
                  ELSE "none"
    /\ UNCHANGED <<items, validCount, invalidCount, parcel, pullStanding, pullBlind,
                   nodes, faults, syncTables>>

SyncStep == Pull \/ CheckItem \/ StoreItem \/ EndPull
=============================================================================
