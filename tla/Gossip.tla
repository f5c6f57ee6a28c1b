------------------------------- MODULE Gossip -------------------------------
(****************************************************************************)
(* Peer discovery: the worker of every server (services/peer_discovery.go)  *)
(* asks its seeds once, then in rounds its active peers, for their lists of *)
(* peers (handlers/peer.go), and rewards or punishes them by what they      *)
(* answer.  A round ends with a visit to the active peers for their posts,  *)
(* of which only the verdict on the peer is kept here.                      *)
(*                                                                          *)
(* The worker is the only writer of its server's table; other servers read  *)
(* the table between any two of its statements.                             *)
(****************************************************************************)
EXTENDS Peers

CONSTANTS
    Seeds,         \* Seeds[s]: SEED_NODES of server s, a sequence of URLs
    Trusted,       \* hosts whose key is in TRUSTED_PUBKEYS
    Listed,        \* Listed[f]: the signed lists foreign host f may send
    Manners,       \* Manners[f]: what else foreign host f may answer
    Posts,         \* the numbers of valid and invalid posts a foreign host may send
    SyncExternal,  \* SYNC_EXTERNAL_POSTS
    GossipLimit,   \* peers visited in a round (10)
    ServeLimit,    \* peers listed to others (50)
    MaxFaults,     \* bound of the model: failing calls and crashes
    Leaving        \* bound of the model: the foreign hosts that may be switched off

Misconduct == {"unreachable", "refused", "garbled", "untimely", "misKeyed", "forged"}

ASSUME GossipAssumption ==
    /\ Seeds \in [Server -> Seq(Host)] /\ Trusted \subseteq Host
    /\ Posts \subseteq [valid: Nat, invalid: Nat]
    /\ SyncExternal \in BOOLEAN
    /\ GossipLimit \in Nat /\ ServeLimit \in Nat /\ MaxFaults \in Nat
ASSUME ForeignAssumption ==
    /\ Leaving \subseteq Foreign
    /\ DOMAIN Listed = Foreign /\ DOMAIN Manners = Foreign
    /\ \A f \in Foreign : \A list \in Listed[f] : list \in Seq(Entry)
    /\ \A f \in Foreign : Manners[f] \subseteq Misconduct

VARIABLES
    phase,   \* what the server is doing; it listens in all phases but the first two
    todo,    \* the peers the worker has still to visit, as it read them from the table
    answer,  \* the answer of the first of them
    due,     \* the running servers that have not begun a round in this stretch of time
    gone,    \* foreign hosts that have been switched off
    faults,  \* failures so far
    failed   \* history: the hosts whose answers each server has turned down

vars == <<peers, phase, todo, answer, due, gone, faults, failed>>

Phases == {"down", "seeding", "idle", "gossip", "sync"}
Listening == {"idle", "gossip", "sync"}

\* SignedPeerList: "declared" is signed over the list as its server encodes it, with the
\* fields in the order of struct Peer; "sorted", with the fields in alphabetical order.
Answer == [kind: Misconduct \cup {"declared", "sorted", "none"}, list: Seq(Entry)]
Bare(kind) == [kind |-> kind, list |-> <<>>]
NoAnswer == Bare("none")

TypeOK ==
    /\ PeersTypeOK
    /\ phase \in [Server -> Phases]
    /\ todo \in [Server -> Seq(Entry)]
    /\ answer \in [Server -> Answer]
    /\ due \subseteq Server /\ gone \subseteq Foreign
    /\ faults \in 0..MaxFaults
    /\ failed \in [Server -> SUBSET Host]

Init ==
    /\ PeersInit
    /\ phase = [s \in Server |-> "down"]
    /\ todo = [s \in Server |-> <<>>]
    /\ answer = [s \in Server |-> NoAnswer]
    /\ due = {} /\ gone = {} /\ faults = 0
    /\ failed = [s \in Server |-> {}]

Fault == faults < MaxFaults /\ faults' = faults + 1

\* The statement leaves the table of s with these rows, or fails; the worker does not care.
Execute(s, rows) ==
    \/ peers' = [peers EXCEPT ![s] = rows] /\ UNCHANGED faults
    \/ Fault /\ UNCHANGED peers

\* What ListActive yields, without the last_seen nobody looks at.
Snapshot(rows, limit) ==
    {[i \in DOMAIN list |-> [key |-> list[i].key, url |-> list[i].url, rep |-> list[i].rep]] :
        list \in ListActive(rows, limit)}

(****************************************************************************)
(* What a host answers                                                      *)
(****************************************************************************)

\* PeerHandler.HandleList, from a server that listens.
HandleList(u) ==
    IF phase[u] \in Listening
    THEN {[kind |-> "declared", list |-> list] : list \in Snapshot(peers[u], ServeLimit)}
    ELSE {Bare("unreachable")}

PeerList(u) ==
    IF u \in Server THEN HandleList(u)
    ELSE IF u \in gone THEN {Bare("unreachable")}
    ELSE {Bare(kind) : kind \in Manners[u]}
             \cup {[kind |-> "sorted", list |-> list] : list \in Listed[u]}

\* The receiver decodes the list into maps and encodes these, which sorts the fields: the
\* bytes differ from those a server of this kind has signed, unless the list is empty.
Verifies(a) == a.kind = "sorted" \/ (a.kind = "declared" /\ a.list = <<>>)

\* Mutant: a host that is down is not punished for it.
PenaltyUnlessDown(a) == CASE a.kind = "unreachable" -> 0
                          [] a.kind \in {"refused", "garbled"} -> 5
                          [] a.kind \in {"untimely", "misKeyed"} -> 20
                          [] OTHER -> 100

Penalty(a) == CASE a.kind \in {"unreachable", "garbled"} -> 5
                [] a.kind = "refused" -> 2
                [] a.kind \in {"untimely", "misKeyed"} -> 20
                [] OTHER -> 100

(****************************************************************************)
(* The worker                                                               *)
(****************************************************************************)

PunishByUrl(rows, url, penalty) ==
    IF At(rows, url) = {} THEN rows
    ELSE Punish(rows, (CHOOSE p \in At(rows, url) : TRUE).key, penalty)

\* The reputation a reward is added to is read from the table; it is not written back.
RewardByUrl(rows, url, reward) ==
    IF At(rows, url) = {} THEN Upsert(rows, [key |-> Shared, url |-> url, rep |-> Reputation])
    ELSE LET p == CHOOSE p \in At(rows, url) : TRUE
         IN  Upsert(rows, [key |-> p.key, url |-> url,
                           rep |-> IF p.rep < Reputation THEN p.rep + reward ELSE p.rep])

\* The process starts: it pings its seeds before it listens.
Boot(s) ==
    /\ phase[s] = "down"
    /\ phase' = [phase EXCEPT ![s] = "seeding"]
    /\ todo' = [todo EXCEPT ![s] = [i \in DOMAIN Seeds[s] |->
                   [key |-> Shared, url |-> Seeds[s][i], rep |-> Reputation]]]
    /\ UNCHANGED <<peers, answer, due, gone, faults, failed>>

\* The worker turns to the active peers; if it cannot read them, to nobody.
Visit(s, next, limit) ==
    /\ phase' = [phase EXCEPT ![s] = next]
    /\ \/ \E list \in Snapshot(peers[s], limit) : todo' = [todo EXCEPT ![s] = list]
          /\ UNCHANGED faults
       \/ Fault /\ todo' = [todo EXCEPT ![s] = <<>>]
    /\ UNCHANGED <<peers, answer, gone, failed>>

\* gossip: the ticker fires.
StartRound(s) ==
    /\ phase[s] = "idle" /\ Visit(s, "gossip", GossipLimit)
    /\ due' = due \ {s}

\* syncContent, in the same turn of the worker's loop.
StartSync(s) ==
    /\ phase[s] = "gossip" /\ todo[s] = <<>> /\ SyncExternal
    /\ Visit(s, "sync", GossipLimit)
    /\ UNCHANGED due

Rest(s) ==
    /\ todo[s] = <<>>
    /\ \/ phase[s] \in {"seeding", "sync"}
       \/ phase[s] = "gossip" /\ ~SyncExternal
    /\ phase' = [phase EXCEPT ![s] = "idle"]
    /\ UNCHANGED <<peers, todo, answer, due, gone, faults, failed>>

\* The worker does not visit itself, nor disreputable peers for their posts.
Skipped(s) == \/ Head(todo[s]).url = s
              \/ phase[s] = "sync" /\ Head(todo[s]).rep < 50

Skip(s) ==
    /\ todo[s] # <<>> /\ Skipped(s) /\ answer[s] = NoAnswer
    /\ todo' = [todo EXCEPT ![s] = Tail(@)]
    /\ UNCHANGED <<peers, phase, answer, due, gone, faults, failed>>

\* fetchPeersFrom: the request, up to what is decoded. Networks and databases may fail on
\* the way, and so may clocks that differ.
Ask(s) ==
    /\ phase[s] \in {"seeding", "gossip"}
    /\ todo[s] # <<>> /\ ~Skipped(s) /\ answer[s] = NoAnswer
    /\ \/ \E a \in PeerList(Head(todo[s]).url) : answer' = [answer EXCEPT ![s] = a]
          /\ UNCHANGED faults
       \/ \E kind \in {"unreachable", "refused", "untimely"} :
              answer' = [answer EXCEPT ![s] = Bare(kind)]
          /\ Fault
    /\ UNCHANGED <<peers, phase, todo, due, gone, failed>>

Finish(s) ==
    /\ todo' = [todo EXCEPT ![s] = Tail(@)]
    /\ answer' = [answer EXCEPT ![s] = NoAnswer]
    /\ UNCHANGED <<phase, due, gone>>

\* fetchPeersFrom, the answers it turns down.
TurnDown(s) ==
    /\ answer[s] # NoAnswer /\ ~Verifies(answer[s])
    /\ Execute(s, PunishByUrl(peers[s], Head(todo[s]).url, Penalty(answer[s])))
    /\ failed' = [failed EXCEPT ![s] = @ \cup {Head(todo[s]).url}]
    /\ Finish(s)

\* Who is listed without a reputation gets the full one.
Credited(dp) == [dp EXCEPT !.rep = IF @ = 0 THEN Reputation ELSE @]

\* fetchPeersFrom, its loop over the peers of a list that verifies.
Absorb(s) ==
    /\ Verifies(answer[s]) /\ answer[s].list # <<>>
    /\ LET dp == Head(answer[s].list)
       IN  IF dp.url = s THEN UNCHANGED <<peers, faults>>
           ELSE Execute(s, Upsert(peers[s], Credited(dp)))
    /\ answer' = [answer EXCEPT ![s].list = Tail(@)]
    /\ UNCHANGED <<phase, todo, due, gone, failed>>

\* fetchPeersFrom, its end.
Reward(s) ==
    /\ Verifies(answer[s]) /\ answer[s].list = <<>>
    /\ LET u == Head(todo[s]).url
       IN  Execute(s, RewardByUrl(peers[s], u, IF u \in Trusted THEN 100 ELSE 1))
    /\ Finish(s)
    /\ UNCHANGED failed

\* fetchContentFrom as far as the peer is concerned. What a server of this kind returns has
\* lost its network and counts neither way.
Verdict(s, posts) ==
    LET p == Head(todo[s])
    IN  IF posts.invalid > posts.valid
        THEN Punish(peers[s], p.key, IF posts.invalid > 6 THEN 30 ELSE 5 * posts.invalid)
        ELSE IF posts.valid > 0 THEN RewardByUrl(peers[s], p.url, 2)
        ELSE peers[s]

\* How the request for posts may fail, and what may come of it otherwise.
Silent(u) == u \in gone \/ (u \in Server /\ phase[u] \notin Listening)
Failures(u) == IF Silent(u) THEN {"unreachable"}
               ELSE IF u \in Server THEN {}
               ELSE Manners[u] \cap {"unreachable", "refused", "garbled"}
Pulled(u) == IF Silent(u) THEN {}
             ELSE IF u \in Server THEN {[valid |-> 0, invalid |-> 0]}
             ELSE Posts
PostPenalty(kind) == CASE kind = "unreachable" -> 3
                       [] kind = "refused" -> 2
                       [] kind = "garbled" -> 5

PullPosts(s) ==
    LET p == Head(todo[s])
        Punished(kind) == PunishByUrl(peers[s], p.url, PostPenalty(kind))
        Blame == failed' = [failed EXCEPT ![s] = @ \cup {p.url}]
    IN  /\ phase[s] = "sync" /\ todo[s] # <<>> /\ ~Skipped(s)
        /\ \/ \E kind \in Failures(p.url) : Execute(s, Punished(kind)) /\ Blame
           \/ \E kind \in {"unreachable", "refused"} :
                  Fault /\ peers' = [peers EXCEPT ![s] = Punished(kind)] /\ Blame
           \/ \E posts \in Pulled(p.url) :
                  /\ Execute(s, Verdict(s, posts))
                  /\ IF posts.invalid > posts.valid THEN Blame ELSE UNCHANGED failed
        /\ Finish(s)

(****************************************************************************)
(* The surroundings                                                         *)
(****************************************************************************)

\* Time passes, in steps of some hours: a round takes minutes, and one begins every two.
Age ==
    /\ due = {}
    /\ due' = {s \in Server : phase[s] # "down"}
    /\ peers' = [s \in Server |-> Older(peers[s])]
    /\ UNCHANGED <<phase, todo, answer, gone, faults, failed>>

\* The process ends; its table stays.
Crash(s) ==
    /\ phase[s] # "down" /\ Fault
    /\ phase' = [phase EXCEPT ![s] = "down"]
    /\ todo' = [todo EXCEPT ![s] = <<>>]
    /\ answer' = [answer EXCEPT ![s] = NoAnswer]
    /\ due' = due \ {s}
    /\ UNCHANGED <<peers, gone, failed>>

Leave(f) ==
    /\ f \notin gone
    /\ gone' = gone \cup {f}
    /\ UNCHANGED <<peers, phase, todo, answer, due, faults, failed>>

Work(s) == \/ Boot(s) \/ StartRound(s) \/ StartSync(s) \/ Rest(s) \/ Skip(s)
           \/ Ask(s) \/ TurnDown(s) \/ Absorb(s) \/ Reward(s) \/ PullPosts(s)

Next == \/ \E s \in Server : Work(s) \/ Crash(s)
        \/ \E f \in Leaving : Leave(f)
        \/ Age

Spec == Init /\ [][Next]_vars

\* The ticker starts the rounds, requests end by their 10 second timeout, and time passes.
FairSpec == Spec /\ WF_vars(Age) /\ \A s \in Server : WF_vars(Work(s))

(****************************************************************************)
(* Properties                                                               *)
(****************************************************************************)

\* Reputation is lost for good and nobody is forgotten: a row stays under its key, and no
\* list, no reward, no reinsertion and no restart gives reputation back.
ReputationNeverRises ==
    [][\A s \in Server : \A p \in peers[s] :
          \E q \in peers'[s] : q.key = p.key /\ q.rep <= p.rep]_vars

\* README.md:211, "peers that send invalid data lose reputation": and nobody else does. A
\* host with less than it was introduced with has itself failed to answer this server (given
\* that no two hosts have been met under the shared key).
BlameIsEarned ==
    \A s \in Server : \A p \in peers[s] : p.rep < Reputation => p.url \in failed[s]

Visited(s) == /\ phase[s] \in {"gossip", "sync"} /\ phase'[s] = phase[s]
              /\ \/ answer[s] = NoAnswer /\ answer'[s] # NoAnswer
                 \/ phase[s] = "sync" /\ todo'[s] # todo[s] /\ ~Skipped(s)

\* README.md:211, "0 = disconnected": whatever the age of the snapshot a round goes by, and
\* whatever its other visits did to the table, no peer is asked whose reputation is used up.
DisconnectedNotAsked ==
    [][\A s \in Server : Visited(s) =>
          \A p \in At(peers[s], Head(todo[s]).url) : p.rep > 0]_vars

\* A host that is switched off disappears from every list of active peers and stays away,
\* although others go on naming it and each naming makes it look alive again.
DeadForgotten ==
    \A f \in Foreign :
        f \in gone ~> [](\A s \in Server : At(Active(peers[s]), f) = {})

(****************************************************************************)
(* Why: what each statement leaves, and the answer in hand                  *)
(****************************************************************************)

Table(rows) == rows \subseteq Row /\ OneRowEach(rows)
Falls(rows, new) == \A p \in rows : \E q \in new : q.key = p.key /\ q.rep <= p.rep

\* An answer is that of the first peer still to visit.
AnswerInHand ==
    \A s \in Server : answer[s] # NoAnswer =>
        todo[s] # <<>> /\ phase[s] \in {"seeding", "gossip"}
GossipInv == TypeOK /\ AnswerInHand

\* What a configuration and the other implementations have to see to, for the code does not:
\* hosts do not share a key, so that one key is listed under one address, and a server has one
\* seed besides itself (seeds are all met under one key); and nobody who is new is listed with
\* less than a new peer gets.
Listings == UNION {{list[i] : i \in DOMAIN list} : list \in UNION {Listed[f] : f \in Foreign}}
SeedsOf(s) == {Seeds[s][i] : i \in DOMAIN Seeds[s]} \ {s}
KeysOfTheirOwn ==
    /\ \A d, e \in Listings : d.key = e.key => d.url = e.url
    /\ \A d \in Listings : d.key # Shared /\ (d.rep = 0 \/ d.rep >= Reputation)
    /\ \A s \in Server : \A u, v \in SeedsOf(s) : u = v

\* Then a row stays at its address, and who is still to be visited in a round is in the table,
\* once, with some reputation left: nobody loses any before his turn.
AtHome(s, p) == IF p.key = Shared THEN p.url \in SeedsOf(s)
                ELSE \E d \in Listings : d.key = p.key /\ d.url = p.url
InFavour(s, e) == \E p \in peers[s] : p.key = e.key /\ p.url = e.url /\ p.rep > 0
HomeInv(s) ==
    /\ \A p \in peers[s] : AtHome(s, p)
    /\ answer[s].kind = "sorted" => \A i \in DOMAIN answer[s].list : answer[s].list[i] \in Listings
    /\ answer[s] # NoAnswer => Head(todo[s]).url # s
    /\ phase[s] = "seeding" => \A i \in DOMAIN todo[s] : todo[s][i].url \in SeedsOf(s) \cup {s}
    /\ phase[s] \in {"gossip", "sync"} =>
           /\ \A i \in DOMAIN todo[s] : InFavour(s, todo[s][i])
           /\ \A i, j \in DOMAIN todo[s] : todo[s][i].url = todo[s][j].url => i = j
Earned(s) == \A p \in peers[s] : p.rep < Reputation => p.url \in failed[s]
TrustInv == \A s \in Server : HomeInv(s) /\ Earned(s)

(****************************************************************************)
(* What the code says of itself and does not do                             *)
(****************************************************************************)

\* README.md:211 again: where nothing fails, a server of this kind, which sends no invalid
\* data, is not disconnected.
HonestStayConnected ==
    \A s \in Server : \A p \in peers[s] : p.url \in Server => p.rep > 0
=============================================================================
