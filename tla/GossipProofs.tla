---------------------------- MODULE GossipProofs ----------------------------
(****************************************************************************)
(* For any servers, seeds, lists and failures: the peer tables stay tables, *)
(* and no reputation ever rises; where hosts have keys of their own, it is  *)
(* lost by those who failed, and who has none left is not visited.          *)
(****************************************************************************)
EXTENDS Gossip, SequenceTheorems, TLAPS

(****************************************************************************)
(* What one statement does to a table                                       *)
(****************************************************************************)

\* Upsert leaves a table in which nobody's reputation has risen.
LEMMA UpsertFalls ==
    ASSUME NEW rows, Table(rows), NEW e \in Entry
    PROVE  Table(Upsert(rows, e)) /\ Falls(rows, Upsert(rows, e))
<1>. DEFINE new == [key |-> e.key, url |-> e.url, age |-> 0, rep |-> e.rep]
<1>. DEFINE move(p) == IF p.key = e.key THEN [p EXCEPT !.url = e.url, !.age = 0] ELSE p
<1>0. /\ e.key \in PubKey \cup {Shared} /\ e.url \in Host /\ e.rep \in Int
      /\ 0 \in 0..Day + 1
  BY ActiveAssumption DEF Entry
<1>1. CASE \E p \in rows : p.url = e.url /\ p.key # e.key
  <2>1. Upsert(rows, e) = rows
    BY <1>1 DEF Upsert
  <2>. QED
    BY <2>1 DEF Table, Falls, Row
<1>2. CASE /\ ~ \E p \in rows : p.url = e.url /\ p.key # e.key
           /\ \E p \in rows : p.key = e.key
  <2>1. Upsert(rows, e) = {move(p) : p \in rows}
    BY <1>2 DEF Upsert, Moved
  <2>2. \A p \in rows : /\ move(p) \in Row
                        /\ move(p).key = p.key /\ move(p).rep = p.rep
                        /\ move(p).url = IF p.key = e.key THEN e.url ELSE p.url
    BY <1>0 DEF Table, Row
  <2>. HIDE DEF move
  <2>3. \A p, q \in rows : move(p).key = move(q).key \/ move(p).url = move(q).url => p = q
    BY <1>2, <2>2 DEF Table, OneRowEach
  <2>4. \A p \in rows : p.rep \in Int
    BY DEF Table, Row
  <2>5. Table({move(p) : p \in rows})
    BY <2>2, <2>3 DEF Table, OneRowEach
  <2>6. Falls(rows, {move(p) : p \in rows})
    BY <2>2, <2>4 DEF Falls
  <2>. QED
    BY <2>1, <2>5, <2>6
<1>3. CASE /\ ~ \E p \in rows : p.url = e.url /\ p.key # e.key
           /\ ~ \E p \in rows : p.key = e.key
  <2>1. Upsert(rows, e) = rows \cup {new}
    BY <1>3 DEF Upsert, Inserted
  <2>2. new \in Row
    BY <1>0 DEF Row
  <2>3. Table(rows \cup {new})
    BY <1>3, <2>2 DEF Table, OneRowEach
  <2>4. Falls(rows, rows \cup {new})
    BY DEF Falls, Table, Row
  <2>. QED
    BY <2>1, <2>3, <2>4
<1>. QED
  BY <1>1, <1>2, <1>3

\* So does Punish, whatever the penalty.
LEMMA PunishFalls ==
    ASSUME NEW rows, Table(rows), NEW key, NEW penalty \in Nat
    PROVE  Table(Punish(rows, key, penalty)) /\ Falls(rows, Punish(rows, key, penalty))
<1>. DEFINE hit(p) == IF p.key = key THEN [p EXCEPT !.rep = @ - penalty] ELSE p
<1>1. Punish(rows, key, penalty) = {hit(p) : p \in rows}
  BY DEF Punish
<1>2. \A p \in rows : /\ hit(p) \in Row /\ hit(p).key = p.key /\ hit(p).url = p.url
                      /\ hit(p).rep <= p.rep
  BY DEF Table, Row
<1>. HIDE DEF hit
<1>3. Table({hit(p) : p \in rows})
  BY <1>2 DEF Table, OneRowEach
<1>4. Falls(rows, {hit(p) : p \in rows})
  BY <1>2 DEF Falls
<1>. QED
  BY <1>1, <1>3, <1>4

\* And so does time.
LEMMA OlderFalls ==
    ASSUME NEW rows, Table(rows)
    PROVE  Table(Older(rows)) /\ Falls(rows, Older(rows))
<1>. DEFINE aged(p) == [p EXCEPT !.age = IF @ > Day THEN @ ELSE @ + 1]
<1>1. Older(rows) = {aged(p) : p \in rows}
  BY DEF Older
<1>2. \A p \in rows : /\ aged(p) \in Row /\ aged(p).key = p.key /\ aged(p).url = p.url
                      /\ aged(p).rep <= p.rep
  BY ActiveAssumption DEF Table, Row
<1>. HIDE DEF aged
<1>3. Table({aged(p) : p \in rows})
  BY <1>2 DEF Table, OneRowEach
<1>4. Falls(rows, {aged(p) : p \in rows})
  BY <1>2 DEF Falls
<1>. QED
  BY <1>1, <1>3, <1>4

\* A table that is left alone.
LEMMA SameFalls == ASSUME NEW rows, Table(rows) PROVE Falls(rows, rows)
BY DEF Table, Row, Falls

LEMMA PunishByUrlFalls ==
    ASSUME NEW rows, Table(rows), NEW url, NEW penalty \in Nat
    PROVE  /\ Table(PunishByUrl(rows, url, penalty))
           /\ Falls(rows, PunishByUrl(rows, url, penalty))
BY SameFalls, PunishFalls DEF PunishByUrl

LEMMA RewardByUrlFalls ==
    ASSUME NEW rows, Table(rows), NEW url \in Host, NEW reward \in Nat
    PROVE  /\ Table(RewardByUrl(rows, url, reward))
           /\ Falls(rows, RewardByUrl(rows, url, reward))
<1>1. CASE At(rows, url) = {}
  <2>1. [key |-> Shared, url |-> url, rep |-> Reputation] \in Entry
    BY ActiveAssumption DEF Entry
  <2>. QED
    BY <1>1, <2>1, UpsertFalls DEF RewardByUrl
<1>2. CASE At(rows, url) # {}
  <2>. DEFINE p == CHOOSE p \in At(rows, url) : TRUE
              e == [key |-> p.key, url |-> url,
                    rep |-> IF p.rep < Reputation THEN p.rep + reward ELSE p.rep]
  <2>1. p \in Row
    BY <1>2 DEF At, Table
  <2>2. e \in Entry
    BY <2>1, ActiveAssumption DEF Entry, Row
  <2>3. RewardByUrl(rows, url, reward) = Upsert(rows, e)
    BY <1>2 DEF RewardByUrl
  <2>. QED
    BY <2>2, <2>3, UpsertFalls
<1>. QED
  BY <1>1, <1>2

(****************************************************************************)
(* What the worker reads                                                    *)
(****************************************************************************)

LEMMA SnapshotTyped ==
    ASSUME NEW rows, Table(rows), NEW limit \in Nat, NEW list \in Snapshot(rows, limit)
    PROVE  list \in Seq(Entry)
<1>1. PICK read \in ListActive(rows, limit) :
          list = [i \in DOMAIN read |->
                     [key |-> read[i].key, url |-> read[i].url, rep |-> read[i].rep]]
  BY DEF Snapshot
<1>2. PICK n \in Nat : read \in [1..n -> Active(rows)]
  BY DEF ListActive
<1>3. Active(rows) \subseteq Row
  BY DEF Active, Table
<1>4. list \in [1..n -> Entry]
  BY <1>1, <1>2, <1>3 DEF Row, Entry
<1>. QED
  BY <1>4, SeqDef

LEMMA PeerListTyped ==
    ASSUME GossipInv, NEW u \in Host, NEW a \in PeerList(u)
    PROVE  a \in Answer /\ a # NoAnswer
<1>. USE DEF GossipInv, TypeOK, PeersTypeOK
<1>1. \A kind \in Misconduct : Bare(kind) \in Answer /\ Bare(kind) # NoAnswer
  BY EmptySeq DEF Bare, NoAnswer, Answer, Misconduct
<1>2. CASE u \in Server
  <2>1. CASE phase[u] \in Listening
    <3>1. PICK list \in Snapshot(peers[u], ServeLimit) : a = [kind |-> "declared", list |-> list]
      BY <1>2, <2>1 DEF PeerList, HandleList
    <3>2. list \in Seq(Entry)
      BY <1>2, SnapshotTyped, GossipAssumption DEF Table
    <3>. QED
      BY <3>1, <3>2 DEF Answer, NoAnswer, Bare
  <2>2. CASE phase[u] \notin Listening
    BY <1>1, <1>2, <2>2 DEF PeerList, HandleList, Misconduct
  <2>. QED
    BY <2>1, <2>2
<1>3. CASE u \in Foreign
  <2>1. u \notin Server
    BY <1>3, HostAssumption
  <2>2. \A list \in Listed[u] : list \in Seq(Entry)
    BY <1>3, ForeignAssumption
  <2>3. Manners[u] \subseteq Misconduct
    BY <1>3, ForeignAssumption
  <2>4. \/ a = Bare("unreachable")
        \/ \E kind \in Manners[u] : a = Bare(kind)
        \/ \E list \in Listed[u] : a = [kind |-> "sorted", list |-> list]
    BY <2>1 DEF PeerList
  <2>5. \A list \in Listed[u] : LET b == [kind |-> "sorted", list |-> list]
                                IN  b \in Answer /\ b # NoAnswer
    BY <2>2 DEF Answer, NoAnswer, Bare
  <2>6. "unreachable" \in Misconduct
    BY DEF Misconduct
  <2>. QED
    BY <1>1, <2>3, <2>4, <2>5, <2>6
<1>. QED
  BY <1>2, <1>3 DEF Host

(****************************************************************************)
(* Every step                                                               *)
(****************************************************************************)

AllFall == \A s \in Server : Falls(peers[s], peers'[s])

LEMMA ExecuteFalls ==
    ASSUME GossipInv, NEW s \in Server, NEW rows, Table(rows), Falls(peers[s], rows),
           Execute(s, rows)
    PROVE  PeersTypeOK' /\ faults' \in 0..MaxFaults /\ AllFall
<1>. USE DEF GossipInv, TypeOK, PeersTypeOK
<1>1. \A t \in Server : Table(peers[t])
  BY DEF Table
<1>2. CASE peers' = [peers EXCEPT ![s] = rows] /\ UNCHANGED faults
  <2>1. \A t \in Server : peers'[t] = IF t = s THEN rows ELSE peers[t]
    BY <1>2
  <2>2. PeersTypeOK'
    BY <1>1, <1>2, <2>1 DEF Table
  <2>3. AllFall
    BY <1>1, <2>1, SameFalls DEF AllFall
  <2>. QED
    BY <1>2, <2>2, <2>3
<1>3. CASE Fault /\ UNCHANGED peers
  <2>1. faults' \in 0..MaxFaults
    BY <1>3, GossipAssumption DEF Fault
  <2>. QED
    BY <1>1, <1>3, <2>1, SameFalls DEF AllFall
<1>. QED
  BY <1>2, <1>3 DEF Execute

LEMMA PeersSame ==
    ASSUME GossipInv, UNCHANGED peers PROVE PeersTypeOK' /\ AllFall
BY SameFalls DEF GossipInv, TypeOK, PeersTypeOK, AllFall, Table

LEMMA FaultTyped ==
    ASSUME GossipInv, Fault PROVE faults' \in 0..MaxFaults
BY GossipAssumption DEF GossipInv, TypeOK, Fault

\* The peer a worker turns to, and its table.
LEMMA FirstTyped ==
    ASSUME GossipInv, NEW s \in Server
    PROVE  /\ Table(peers[s])
           /\ todo[s] # <<>> => Head(todo[s]) \in Entry /\ Head(todo[s]).url \in Host
<1>1. Table(peers[s])
  BY DEF GossipInv, TypeOK, PeersTypeOK, Table
<1>2. ASSUME todo[s] # <<>> PROVE Head(todo[s]) \in Entry
  BY <1>2, HeadTailProperties DEF GossipInv, TypeOK
<1>3. \A e \in Entry : e.url \in Host
  BY DEF Entry
<1>. QED
  BY <1>1, <1>2, <1>3

\* The steps that read and plan, and leave the tables alone.
LEMMA PlanStep ==
    ASSUME GossipInv, NEW s \in Server,
           Boot(s) \/ StartRound(s) \/ StartSync(s) \/ Rest(s) \/ Skip(s) \/ Ask(s)
    PROVE  GossipInv' /\ AllFall
<1>. USE DEF GossipInv, TypeOK
<1>0. /\ todo \in [Server -> Seq(Entry)] /\ phase \in [Server -> Phases]
      /\ answer \in [Server -> Answer]
  OBVIOUS
<1>1. PeersTypeOK' /\ AllFall
  BY PeersSame DEF Boot, StartRound, StartSync, Visit, Rest, Skip, Ask
<1>2. CASE Boot(s)
  <2>. DEFINE seeds == [i \in DOMAIN Seeds[s] |->
                           [key |-> Shared, url |-> Seeds[s][i], rep |-> Reputation]]
  <2>0. Seeds[s] \in Seq(Host)
    BY GossipAssumption
  <2>1. PICK n \in Nat : Seeds[s] \in [1..n -> Host]
    BY <2>0, SeqDef
  <2>2. seeds \in [1..n -> Entry]
    BY <2>1, ActiveAssumption DEF Entry
  <2>3. seeds \in Seq(Entry)
    BY <2>2, SeqDef
  <2>4. /\ todo' = [todo EXCEPT ![s] = seeds]
        /\ phase[s] = "down" /\ phase' = [phase EXCEPT ![s] = "seeding"]
        /\ UNCHANGED <<answer, due, gone, faults, failed>>
    BY <1>2 DEF Boot
  <2>. HIDE DEF seeds
  <2>5. TypeOK'
    BY <1>1, <2>3, <2>4 DEF Phases
  <2>6. AnswerInHand'
    BY <2>4 DEF AnswerInHand
  <2>. QED
    BY <1>1, <2>5, <2>6
<1>3. ASSUME NEW next \in {"gossip", "sync"}, Visit(s, next, GossipLimit), answer[s] = NoAnswer,
             due' \in SUBSET Server
      PROVE  GossipInv' /\ AllFall
  <2>1. /\ phase' = [phase EXCEPT ![s] = next]
        /\ UNCHANGED <<answer, gone, failed>>
    BY <1>3 DEF Visit
  <2>2. todo' \in [Server -> Seq(Entry)] /\ faults' \in 0..MaxFaults
    <3>1. CASE /\ \E list \in Snapshot(peers[s], GossipLimit) : todo' = [todo EXCEPT ![s] = list]
               /\ UNCHANGED faults
      <4>1. PICK list \in Snapshot(peers[s], GossipLimit) : todo' = [todo EXCEPT ![s] = list]
        BY <3>1
      <4>2. list \in Seq(Entry)
        BY SnapshotTyped, GossipAssumption DEF Table, PeersTypeOK
      <4>. QED
        BY <3>1, <4>1, <4>2
    <3>2. CASE Fault /\ todo' = [todo EXCEPT ![s] = <<>>]
      BY <3>2, FaultTyped, EmptySeq
    <3>. QED
      BY <1>3, <3>1, <3>2 DEF Visit
  <2>3. AnswerInHand'
    <3>1. \A t \in Server \ {s} : todo'[t] = todo[t] /\ phase'[t] = phase[t]
      BY <1>3, <2>1 DEF Visit
    <3>. QED
      BY <1>3, <2>1, <3>1 DEF AnswerInHand
  <2>4. TypeOK'
    BY <1>1, <1>3, <2>1, <2>2 DEF Phases
  <2>. QED
    BY <1>1, <2>3, <2>4
<1>4. CASE StartRound(s)
  <2>1. answer[s] = NoAnswer
    BY <1>4 DEF StartRound, AnswerInHand
  <2>. QED
    BY <1>3, <1>4, <2>1 DEF StartRound
<1>5. CASE StartSync(s)
  <2>1. answer[s] = NoAnswer
    BY <1>5 DEF StartSync, AnswerInHand
  <2>. QED
    BY <1>3, <1>5, <2>1 DEF StartSync
<1>6. CASE Rest(s)
  <2>1. AnswerInHand'
    BY <1>6 DEF Rest, AnswerInHand
  <2>. QED
    BY <1>1, <1>6, <2>1 DEF Rest, Phases
<1>7. CASE Skip(s)
  <2>1. Tail(todo[s]) \in Seq(Entry)
    BY <1>7, HeadTailProperties DEF Skip
  <2>2. AnswerInHand'
    BY <1>7 DEF Skip, AnswerInHand
  <2>3. TypeOK'
    BY <1>1, <1>7, <2>1 DEF Skip
  <2>. QED
    BY <1>1, <2>2, <2>3
<1>8. CASE Ask(s)
  <2>1. Head(todo[s]).url \in Host
    BY <1>8, FirstTyped DEF Ask
  <2>2. PICK a \in Answer : answer' = [answer EXCEPT ![s] = a]
    <3>1. \A kind \in {"unreachable", "refused", "untimely"} : Bare(kind) \in Answer
      BY EmptySeq DEF Bare, Answer, Misconduct
    <3>. QED
      BY <1>8, <2>1, <3>1, PeerListTyped DEF Ask
  <2>3. faults' \in 0..MaxFaults
    BY <1>8, FaultTyped DEF Ask
  <2>4. AnswerInHand'
    BY <1>8, <2>2 DEF Ask, AnswerInHand
  <2>5. TypeOK'
    BY <1>1, <1>8, <2>2, <2>3 DEF Ask
  <2>. QED
    BY <1>1, <2>4, <2>5
<1>. QED
  BY <1>2, <1>4, <1>5, <1>6, <1>7, <1>8

\* The end of a visit, in each of the steps that write.
LEMMA FinishTyped ==
    ASSUME GossipInv, NEW s \in Server, todo[s] # <<>>, Finish(s),
           PeersTypeOK', faults' \in 0..MaxFaults, failed' \in [Server -> SUBSET Host]
    PROVE  GossipInv'
<1>. USE DEF GossipInv, TypeOK
<1>1. Tail(todo[s]) \in Seq(Entry)
  BY HeadTailProperties
<1>2. NoAnswer \in Answer
  BY EmptySeq DEF NoAnswer, Bare, Answer
<1>3. TypeOK'
  BY <1>1, <1>2 DEF Finish
<1>4. AnswerInHand'
  BY DEF Finish, AnswerInHand
<1>. QED
  BY <1>3, <1>4

LEMMA CreditedTyped == ASSUME NEW dp \in Entry PROVE Credited(dp) \in Entry
<1>. DEFINE rep == IF dp.rep = 0 THEN Reputation ELSE dp.rep
<1>1. rep \in Int
  BY ActiveAssumption DEF Entry
<1>2. Credited(dp) = [dp EXCEPT !.rep = rep]
  BY DEF Credited
<1>. HIDE DEF rep
<1>. QED
  BY <1>1, <1>2 DEF Entry

LEMMA JudgedStep ==
    ASSUME GossipInv, NEW s \in Server, TurnDown(s) \/ Absorb(s) \/ Reward(s)
    PROVE  GossipInv' /\ AllFall
<1>. USE DEF GossipInv, TypeOK
<1>1. answer[s] # NoAnswer
  BY DEF TurnDown, Absorb, Reward, Verifies, NoAnswer, Bare
<1>2. todo[s] # <<>> /\ Head(todo[s]).url \in Host /\ Table(peers[s])
  BY <1>1, FirstTyped DEF AnswerInHand
<1>. DEFINE u == Head(todo[s]).url
<1>3. CASE TurnDown(s)
  <2>1. Penalty(answer[s]) \in Nat
    BY DEF Penalty
  <2>2. PeersTypeOK' /\ faults' \in 0..MaxFaults /\ AllFall
    BY <1>2, <1>3, <2>1, PunishByUrlFalls, ExecuteFalls DEF TurnDown
  <2>3. failed' \in [Server -> SUBSET Host]
    BY <1>2, <1>3 DEF TurnDown
  <2>. QED
    BY <1>2, <1>3, <2>2, <2>3, FinishTyped DEF TurnDown
<1>4. CASE Absorb(s)
  <2>. DEFINE dp == Head(answer[s].list)
              e == Credited(dp)
  <2>1. answer[s].list \in Seq(Entry) /\ answer[s].list # <<>>
    BY <1>4 DEF Absorb, Answer
  <2>2. dp \in Entry /\ Tail(answer[s].list) \in Seq(Entry)
    BY <2>1, HeadTailProperties
  <2>3. e \in Entry
    BY <2>2, CreditedTyped
  <2>4. IF dp.url = s THEN UNCHANGED <<peers, faults>> ELSE Execute(s, Upsert(peers[s], e))
    BY <1>4 DEF Absorb
  <2>5. Table(Upsert(peers[s], e)) /\ Falls(peers[s], Upsert(peers[s], e))
    BY <1>2, <2>3, UpsertFalls
  <2>6. PeersTypeOK' /\ faults' \in 0..MaxFaults /\ AllFall
    BY <2>4, <2>5, ExecuteFalls, PeersSame
  <2>7. /\ answer' = [answer EXCEPT ![s].list = Tail(@)]
        /\ UNCHANGED <<phase, todo, due, gone, failed>>
    BY <1>4 DEF Absorb
  <2>8. TypeOK'
    BY <2>2, <2>6, <2>7 DEF Answer
  <2>9. AnswerInHand'
    BY <1>1, <2>7 DEF AnswerInHand
  <2>. QED
    BY <2>6, <2>8, <2>9
<1>5. CASE Reward(s)
  <2>1. PICK reward \in Nat : Execute(s, RewardByUrl(peers[s], u, reward))
    BY <1>5 DEF Reward
  <2>2. PeersTypeOK' /\ faults' \in 0..MaxFaults /\ AllFall
    BY <1>2, <2>1, RewardByUrlFalls, ExecuteFalls
  <2>. QED
    BY <1>2, <1>5, <2>2, FinishTyped DEF Reward
<1>. QED
  BY <1>3, <1>4, <1>5

LEMMA PullStep ==
    ASSUME GossipInv, NEW s \in Server, PullPosts(s)
    PROVE  GossipInv' /\ AllFall
<1>. USE DEF GossipInv, TypeOK
<1>. DEFINE p == Head(todo[s])
<1>1. todo[s] # <<>> /\ p.url \in Host /\ Table(peers[s])
  BY FirstTyped DEF PullPosts
<1>2. failed' \in [Server -> SUBSET Host]
  BY <1>1 DEF PullPosts
<1>3. \A kind \in {"unreachable", "refused", "garbled"} : PostPenalty(kind) \in Nat
  BY DEF PostPenalty
<1>4. CASE \E kind \in Failures(p.url) :
              Execute(s, PunishByUrl(peers[s], p.url, PostPenalty(kind)))
  <2>1. Failures(p.url) \subseteq {"unreachable", "refused", "garbled"}
    BY DEF Failures
  <2>2. PeersTypeOK' /\ faults' \in 0..MaxFaults /\ AllFall
    BY <1>1, <1>3, <1>4, <2>1, PunishByUrlFalls, ExecuteFalls
  <2>. QED
    BY <1>1, <1>2, <2>2, FinishTyped DEF PullPosts
<1>5. CASE \E kind \in {"unreachable", "refused"} :
              /\ Fault
              /\ peers' = [peers EXCEPT ![s] = PunishByUrl(peers[s], p.url, PostPenalty(kind))]
  <2>1. PICK penalty \in Nat :
              peers' = [peers EXCEPT ![s] = PunishByUrl(peers[s], p.url, penalty)]
    BY <1>3, <1>5
  <2>. DEFINE rows == PunishByUrl(peers[s], p.url, penalty)
  <2>2. Table(rows) /\ Falls(peers[s], rows)
    BY <1>1, PunishByUrlFalls
  <2>. HIDE DEF rows
  <2>3. \A t \in Server : Table(peers[t]) /\ Falls(peers[t], peers[t])
    BY SameFalls DEF Table, PeersTypeOK
  <2>4. PeersTypeOK' /\ AllFall
    BY <2>1, <2>2, <2>3 DEF PeersTypeOK, AllFall, Table, rows
  <2>5. faults' \in 0..MaxFaults
    BY <1>5, FaultTyped
  <2>. QED
    BY <1>1, <1>2, <2>4, <2>5, FinishTyped DEF PullPosts
<1>6. CASE \E posts \in Pulled(p.url) : Execute(s, Verdict(s, posts))
  <2>1. Pulled(p.url) \subseteq [valid: Nat, invalid: Nat]
    BY GossipAssumption DEF Pulled
  <2>2. PICK posts \in [valid: Nat, invalid: Nat] : Execute(s, Verdict(s, posts))
    BY <1>6, <2>1
  <2>3. Table(Verdict(s, posts)) /\ Falls(peers[s], Verdict(s, posts))
    <3>1. CASE posts.invalid > posts.valid
      <4>. DEFINE penalty == IF posts.invalid > 6 THEN 30 ELSE 5 * posts.invalid
      <4>1. penalty \in Nat
        OBVIOUS
      <4>2. Verdict(s, posts) = Punish(peers[s], p.key, penalty)
        BY <3>1 DEF Verdict
      <4>. QED
        BY <1>1, <4>1, <4>2, PunishFalls
    <3>2. CASE ~(posts.invalid > posts.valid) /\ posts.valid > 0
      <4>1. Verdict(s, posts) = RewardByUrl(peers[s], p.url, 2)
        BY <3>2 DEF Verdict
      <4>2. /\ Table(RewardByUrl(peers[s], p.url, 2))
            /\ Falls(peers[s], RewardByUrl(peers[s], p.url, 2))
        <5>. HIDE DEF GossipInv, TypeOK
        <5>. QED
          BY <1>1, RewardByUrlFalls
      <4>. QED
        BY <4>1, <4>2, Zenon
    <3>3. CASE ~(posts.invalid > posts.valid) /\ ~(posts.valid > 0)
      <4>1. Verdict(s, posts) = peers[s]
        BY <3>3 DEF Verdict
      <4>. QED
        BY <1>1, <4>1, SameFalls
    <3>. QED
      BY <3>1, <3>2, <3>3
  <2>4. PeersTypeOK' /\ faults' \in 0..MaxFaults /\ AllFall
    BY <2>2, <2>3, ExecuteFalls
  <2>. QED
    BY <1>1, <1>2, <2>4, FinishTyped DEF PullPosts
<1>. QED
  BY <1>4, <1>5, <1>6 DEF PullPosts

\* The surroundings.
LEMMA OtherStep ==
    ASSUME GossipInv,
           \/ \E s \in Server : Crash(s)
           \/ \E f \in Leaving : Leave(f)
           \/ Age
    PROVE  GossipInv' /\ AllFall
<1>. USE DEF GossipInv, TypeOK
<1>1. CASE \E s \in Server : Crash(s)
  <2>1. PICK s \in Server : Crash(s)
    BY <1>1
  <2>2. PeersTypeOK' /\ AllFall /\ faults' \in 0..MaxFaults
    BY <2>1, PeersSame, FaultTyped DEF Crash
  <2>3. <<>> \in Seq(Entry) /\ NoAnswer \in Answer
    BY EmptySeq DEF NoAnswer, Bare, Answer
  <2>4. TypeOK'
    BY <2>1, <2>2, <2>3 DEF Crash, Phases
  <2>5. AnswerInHand'
    BY <2>1 DEF Crash, AnswerInHand
  <2>. QED
    BY <2>2, <2>4, <2>5
<1>2. CASE \E f \in Leaving : Leave(f)
  <2>1. PeersTypeOK' /\ AllFall
    BY <1>2, PeersSame DEF Leave
  <2>2. AnswerInHand'
    BY <1>2 DEF Leave, AnswerInHand
  <2>. QED
    BY <1>2, <2>1, <2>2, ForeignAssumption DEF Leave
<1>3. CASE Age
  <2>1. \A s \in Server : /\ Table(Older(peers[s])) /\ Falls(peers[s], Older(peers[s]))
                          /\ peers'[s] = Older(peers[s])
    BY <1>3, FirstTyped, OlderFalls DEF Age
  <2>2. PeersTypeOK' /\ AllFall
    BY <1>3, <2>1 DEF Age, PeersTypeOK, AllFall, Table
  <2>3. AnswerInHand'
    BY <1>3 DEF Age, AnswerInHand
  <2>. QED
    BY <1>3, <2>2, <2>3 DEF Age
<1>. QED
  BY <1>1, <1>2, <1>3

LEMMA GossipStep == ASSUME GossipInv, Next PROVE GossipInv' /\ AllFall
BY PlanStep, JudgedStep, PullStep, OtherStep DEF Next, Work

LEMMA GossipInvHolds == Spec => []GossipInv
<1>1. Init => GossipInv
  <2>1. <<>> \in Seq(Entry) /\ NoAnswer \in Answer
    BY EmptySeq DEF NoAnswer, Bare, Answer
  <2>. QED
    BY <2>1, GossipAssumption
       DEF Init, GossipInv, TypeOK, AnswerInHand, PeersInit, PeersTypeOK, OneRowEach, Phases
<1>2. GossipInv /\ UNCHANGED vars => GossipInv'
  BY DEF GossipInv, TypeOK, AnswerInHand, PeersTypeOK, vars
<1>3. GossipInv /\ [Next]_vars => GossipInv'
  BY <1>2, GossipStep
<1>. QED
  BY <1>1, <1>3, PTL DEF Spec

\* The tables of all servers keep their types and their unique keys and URLs.
THEOREM GossipTypeCorrect == Spec => []TypeOK
<1>1. GossipInv => TypeOK
  BY DEF GossipInv
<1>. QED
  BY <1>1, GossipInvHolds, PTL

\* No answer, list, reward, failure or restart gives a peer its reputation back.
THEOREM ReputationNeverRisesHolds == Spec => ReputationNeverRises
<1>. DEFINE Fall == \A s \in Server : \A p \in peers[s] :
                       \E q \in peers'[s] : q.key = p.key /\ q.rep <= p.rep
<1>1. GossipInv /\ [Next]_vars => [Fall]_vars
  BY GossipStep DEF AllFall, Falls
<1>. QED
  BY <1>1, GossipInvHolds, PTL DEF Spec, ReputationNeverRises

(****************************************************************************)
(* Where the rows are, and who has lost reputation                          *)
(****************************************************************************)

\* A statement that leaves every row at its address and with its reputation, but for the
\* reputations at the addresses in hit and the rows that come for the entries in new.
Kept(p, q, hit) == p.key = q.key /\ p.url = q.url /\ (p.rep = q.rep \/ p.url \in hit)
Keeps(rows, left, hit, new) ==
    /\ \A p \in rows : \E q \in left : Kept(p, q, hit)
    /\ \A q \in left : \/ \E p \in rows : Kept(p, q, hit)
                       \/ \E e \in new : e.key = q.key /\ e.url = q.url /\ e.rep = q.rep

LEMMA NothingKeeps == ASSUME NEW rows, NEW hit, NEW new PROVE Keeps(rows, rows, hit, new)
BY DEF Keeps, Kept

LEMMA UpsertKeeps ==
    ASSUME NEW rows, Table(rows), NEW e \in Entry, \A p \in rows : p.key = e.key => p.url = e.url
    PROVE  /\ Keeps(rows, Upsert(rows, e), {}, {e})
           /\ (\E p \in rows : p.key = e.key) => Keeps(rows, Upsert(rows, e), {}, {})
<1>. DEFINE move(p) == IF p.key = e.key THEN [p EXCEPT !.url = e.url, !.age = 0] ELSE p
            join == [key |-> e.key, url |-> e.url, age |-> 0, rep |-> e.rep]
<1>1. CASE \E p \in rows : p.url = e.url /\ p.key # e.key
  <2>1. Upsert(rows, e) = rows
    BY <1>1 DEF Upsert
  <2>. QED
    BY <2>1, NothingKeeps
<1>2. CASE /\ ~ \E p \in rows : p.url = e.url /\ p.key # e.key
           /\ \E p \in rows : p.key = e.key
  <2>1. Upsert(rows, e) = {move(p) : p \in rows}
    BY <1>2 DEF Upsert, Moved
  <2>2. \A p \in rows : move(p).key = p.key /\ move(p).url = p.url /\ move(p).rep = p.rep
    BY DEF Table, Row
  <2>. HIDE DEF move
  <2>. QED
    BY <2>1, <2>2 DEF Keeps, Kept
<1>3. CASE /\ ~ \E p \in rows : p.url = e.url /\ p.key # e.key
           /\ ~ \E p \in rows : p.key = e.key
  <2>1. Upsert(rows, e) = rows \cup {join}
    BY <1>3 DEF Upsert, Inserted
  <2>2. join.key = e.key /\ join.url = e.url /\ join.rep = e.rep
    OBVIOUS
  <2>. HIDE DEF join
  <2>. QED
    BY <1>3, <2>1, <2>2 DEF Keeps, Kept
<1>. QED
  BY <1>1, <1>2, <1>3

LEMMA PunishKeeps ==
    ASSUME NEW rows, Table(rows), NEW key, NEW penalty, NEW url,
           \A p \in rows : p.key = key => p.url = url
    PROVE  Keeps(rows, Punish(rows, key, penalty), {url}, {})
<1>. DEFINE hit(p) == IF p.key = key THEN [p EXCEPT !.rep = @ - penalty] ELSE p
<1>1. Punish(rows, key, penalty) = {hit(p) : p \in rows}
  BY DEF Punish
<1>2. \A p \in rows : hit(p).key = p.key /\ hit(p).url = p.url /\ (p.rep = hit(p).rep \/ p.url = url)
  BY DEF Table, Row
<1>. HIDE DEF hit
<1>. QED
  BY <1>1, <1>2 DEF Keeps, Kept

\* A row is found by its address.
LEMMA FoundAt ==
    ASSUME NEW rows, Table(rows), NEW url, At(rows, url) # {}
    PROVE  LET p == CHOOSE p \in At(rows, url) : TRUE
           IN  p \in rows /\ p.url = url /\ \A q \in rows : q.key = p.key => q.url = url
<1>. DEFINE p == CHOOSE p \in At(rows, url) : TRUE
<1>1. p \in At(rows, url)
  OBVIOUS
<1>2. p \in rows /\ p.url = url
  BY <1>1 DEF At
<1>3. \A q \in rows : q.key = p.key => q = p
  BY <1>2 DEF Table, OneRowEach
<1>. QED
  BY <1>2, <1>3

LEMMA PunishByUrlKeeps ==
    ASSUME NEW rows, Table(rows), NEW url, NEW penalty
    PROVE  Keeps(rows, PunishByUrl(rows, url, penalty), {url}, {})
<1>1. CASE At(rows, url) = {}
  BY <1>1, NothingKeeps DEF PunishByUrl
<1>2. CASE At(rows, url) # {}
  BY <1>2, FoundAt, PunishKeeps DEF PunishByUrl
<1>. QED
  BY <1>1, <1>2

LEMMA RewardByUrlKeeps ==
    ASSUME NEW rows, Table(rows), NEW url \in Host, NEW reward \in Nat,
           At(rows, url) = {} => \A p \in rows : p.key = Shared => p.url = url
    PROVE  /\ Keeps(rows, RewardByUrl(rows, url, reward), {},
                    {[key |-> Shared, url |-> url, rep |-> Reputation]})
           /\ At(rows, url) # {} => Keeps(rows, RewardByUrl(rows, url, reward), {}, {})
<1>1. CASE At(rows, url) = {}
  <2>1. [key |-> Shared, url |-> url, rep |-> Reputation] \in Entry
    BY ActiveAssumption DEF Entry
  <2>. QED
    BY <1>1, <2>1, UpsertKeeps DEF RewardByUrl
<1>2. CASE At(rows, url) # {}
  <2>. DEFINE p == CHOOSE p \in At(rows, url) : TRUE
              e == [key |-> p.key, url |-> url,
                    rep |-> IF p.rep < Reputation THEN p.rep + reward ELSE p.rep]
  <2>1. p \in rows /\ p \in Row /\ \A q \in rows : q.key = p.key => q.url = url
    BY <1>2, FoundAt DEF Table
  <2>2. e \in Entry /\ e.key = p.key /\ e.url = url
    BY <2>1, ActiveAssumption DEF Entry, Row
  <2>3. RewardByUrl(rows, url, reward) = Upsert(rows, e)
    BY <1>2 DEF RewardByUrl
  <2>. HIDE DEF e, p
  <2>4. Keeps(rows, Upsert(rows, e), {}, {})
    BY <2>1, <2>2, UpsertKeeps
  <2>. QED
    BY <1>2, <2>3, <2>4 DEF Keeps
<1>. QED
  BY <1>1, <1>2

LEMMA OlderKeeps == ASSUME NEW rows, Table(rows) PROVE Keeps(rows, Older(rows), {}, {})
<1>. DEFINE aged(p) == [p EXCEPT !.age = IF @ > Day THEN @ ELSE @ + 1]
<1>1. Older(rows) = {aged(p) : p \in rows}
  BY DEF Older
<1>2. \A p \in rows : aged(p).key = p.key /\ aged(p).url = p.url /\ aged(p).rep = p.rep
  BY DEF Table, Row
<1>. HIDE DEF aged
<1>. QED
  BY <1>1, <1>2 DEF Keeps, Kept

\* What was found in the table is there, under its address, with its reputation, when the round
\* begins; no address twice.
LEMMA SnapshotInFavour ==
    ASSUME NEW rows, Table(rows), NEW limit \in Nat, NEW list \in Snapshot(rows, limit)
    PROVE  /\ \A i \in DOMAIN list :
                  \E p \in rows : p.key = list[i].key /\ p.url = list[i].url /\ p.rep > 0
           /\ \A i, j \in DOMAIN list : list[i].url = list[j].url => i = j
<1>1. PICK read \in ListActive(rows, limit) :
          list = [i \in DOMAIN read |->
                     [key |-> read[i].key, url |-> read[i].url, rep |-> read[i].rep]]
  BY DEF Snapshot
<1>2. PICK n \in Nat : read \in [1..n -> Active(rows)]
  BY DEF ListActive
<1>3. \A i, j \in DOMAIN read : i < j => read[i] # read[j]
  BY DEF ListActive
<1>4. \A i \in DOMAIN read : read[i] \in rows /\ read[i].rep > 0
  BY <1>2 DEF Active
<1>5. /\ DOMAIN list = DOMAIN read
      /\ \A i \in DOMAIN read : list[i].key = read[i].key /\ list[i].url = read[i].url
  BY <1>1
<1>6. ASSUME NEW i \in DOMAIN list, NEW j \in DOMAIN list, list[i].url = list[j].url
      PROVE  i = j
  <2>1. read[i] = read[j]
    BY <1>4, <1>5, <1>6 DEF Table, OneRowEach
  <2>2. i \in Nat /\ j \in Nat
    BY <1>2, <1>5
  <2>. QED
    BY <1>3, <1>5, <2>1, <2>2
<1>. QED
  BY <1>4, <1>5, <1>6

(****************************************************************************)
(* Each step, for the server whose it is                                    *)
(****************************************************************************)

\* What a statement leaves, given who was struck and who was new.
LEMMA KeepsTrust ==
    ASSUME NEW s \in Server, HomeInv(s), Earned(s),
           NEW hit, NEW new, Keeps(peers[s], peers'[s], hit, new),
           \A e \in new : AtHome(s, e) /\ ~(e.rep < Reputation),
           failed[s] \cup hit \subseteq failed'[s]
    PROVE  /\ \A p \in peers'[s] : AtHome(s, p)
           /\ Earned(s)'
           /\ \A e : InFavour(s, e) /\ e.url \notin hit => \E p \in peers'[s] : p.key = e.key /\ p.url = e.url /\ p.rep > 0
<1>1. \A q \in peers'[s] : \/ \E p \in peers[s] : Kept(p, q, hit)
                           \/ \E e \in new : e.key = q.key /\ e.url = q.url /\ e.rep = q.rep
  BY DEF Keeps
<1>2. \A p, q : p.key = q.key /\ p.url = q.url /\ AtHome(s, p) => AtHome(s, q)
  BY DEF AtHome
<1>3. \A q \in peers'[s] : AtHome(s, q)
  BY <1>1, <1>2 DEF Kept, HomeInv
<1>4. Earned(s)'
  BY <1>1 DEF Kept, Earned
<1>5. ASSUME NEW e, InFavour(s, e), e.url \notin hit
      PROVE  \E p \in peers'[s] : p.key = e.key /\ p.url = e.url /\ p.rep > 0
  BY <1>5 DEF InFavour, Keeps, Kept
<1>. QED
  BY <1>3, <1>4, <1>5

\* A statement strikes at most the peer whose turn it was, and he is visited no more.
LEMMA WriteTrust ==
    ASSUME GossipInv, NEW s \in Server, HomeInv(s), Earned(s),
           NEW hit, NEW new, Keeps(peers[s], peers'[s], hit, new),
           \A e \in new : AtHome(s, e) /\ ~(e.rep < Reputation),
           failed[s] \cup hit \subseteq failed'[s],
           UNCHANGED phase,
           \/ /\ todo'[s] = todo[s] /\ hit = {}
              /\ answer'[s].kind = "sorted" =>
                     \A i \in DOMAIN answer'[s].list : answer'[s].list[i] \in Listings
              /\ answer'[s] # NoAnswer => answer[s] # NoAnswer
           \/ /\ todo[s] # <<>> /\ todo'[s] = Tail(todo[s]) /\ hit \subseteq {Head(todo[s]).url}
              /\ answer'[s] = NoAnswer
    PROVE  HomeInv(s)' /\ Earned(s)'
<1>1. /\ \A p \in peers'[s] : AtHome(s, p)
      /\ Earned(s)'
      /\ \A e : InFavour(s, e) /\ e.url \notin hit =>
                    \E p \in peers'[s] : p.key = e.key /\ p.url = e.url /\ p.rep > 0
  BY KeepsTrust
<1>2. CASE /\ todo'[s] = todo[s] /\ hit = {}
           /\ answer'[s].kind = "sorted" =>
                     \A i \in DOMAIN answer'[s].list : answer'[s].list[i] \in Listings
           /\ answer'[s] # NoAnswer => answer[s] # NoAnswer
  BY <1>1, <1>2 DEF HomeInv, InFavour, AtHome, NoAnswer, Bare
<1>3. CASE /\ todo[s] # <<>> /\ todo'[s] = Tail(todo[s]) /\ hit \subseteq {Head(todo[s]).url}
           /\ answer'[s] = NoAnswer
  <2>1. /\ todo[s] \in Seq(Entry) /\ Len(todo[s]) \in Nat /\ Head(todo[s]) = todo[s][1]
        /\ DOMAIN todo[s] = 1..Len(todo[s]) /\ 1 \in DOMAIN todo[s]
        /\ DOMAIN todo'[s] = 1..Len(todo[s]) - 1
        /\ \A i \in DOMAIN todo'[s] : i + 1 \in DOMAIN todo[s] /\ todo'[s][i] = todo[s][i + 1] /\ i + 1 # 1
    BY <1>3, HeadTailProperties, LenProperties DEF GossipInv, TypeOK
  <2>2. ASSUME phase[s] \in {"gossip", "sync"}
        PROVE  /\ (\A i \in DOMAIN todo[s] : InFavour(s, todo[s][i]))'
               /\ \A i, j \in DOMAIN todo'[s] : todo'[s][i].url = todo'[s][j].url => i = j
    <3>1. /\ \A i \in DOMAIN todo[s] : InFavour(s, todo[s][i])
          /\ \A i, j \in DOMAIN todo[s] : todo[s][i].url = todo[s][j].url => i = j
      BY <2>2 DEF HomeInv
    <3>2. \A i \in DOMAIN todo'[s] : InFavour(s, todo'[s][i]) /\ todo'[s][i].url \notin hit
      BY <1>3, <2>1, <3>1
    <3>3. \A i \in DOMAIN todo'[s] : \E p \in peers'[s] :
              p.key = todo'[s][i].key /\ p.url = todo'[s][i].url /\ p.rep > 0
      BY <1>1, <3>2
    <3>4. ASSUME NEW i \in DOMAIN todo'[s], NEW j \in DOMAIN todo'[s], todo'[s][i].url = todo'[s][j].url
          PROVE  i = j
      <4>0. /\ i + 1 \in DOMAIN todo[s] /\ j + 1 \in DOMAIN todo[s]
            /\ todo[s][i + 1].url = todo[s][j + 1].url
        BY <2>1, <3>4
      <4>1. i + 1 = j + 1
        BY <3>1, <4>0
      <4>2. i \in Nat /\ j \in Nat
        BY <2>1
      <4>. QED
        BY <4>1, <4>2
    <3>. QED
      BY <3>3, <3>4 DEF InFavour
  <2>3. phase[s] = "seeding" => \A i \in DOMAIN todo'[s] : todo'[s][i].url \in SeedsOf(s) \cup {s}
    BY <2>1 DEF HomeInv
  <2>4. answer'[s].kind # "sorted"
    BY <1>3 DEF NoAnswer, Bare
  <2>. QED
    BY <1>1, <1>3, <2>2, <2>3, <2>4 DEF HomeInv, AtHome
<1>. QED
  BY <1>2, <1>3

\* The two ways a visit ends: the peer is struck, or nobody is.
LEMMA VisitEnds ==
    ASSUME GossipInv, NEW s \in Server, HomeInv(s), Earned(s), todo[s] # <<>>,
           Keeps(peers[s], peers'[s], {Head(todo[s]).url}, {}),
           failed[s] \cup {Head(todo[s]).url} \subseteq failed'[s], UNCHANGED phase,
           todo'[s] = Tail(todo[s]), answer'[s] = NoAnswer
    PROVE  HomeInv(s)' /\ Earned(s)'
<1>. DEFINE hit == {Head(todo[s]).url}
            new == {}
<1>1. /\ \A e \in new : AtHome(s, e) /\ ~(e.rep < Reputation)
      /\ hit \subseteq {Head(todo[s]).url} /\ failed[s] \cup hit \subseteq failed'[s]
      /\ Keeps(peers[s], peers'[s], hit, new)
  OBVIOUS
<1>. HIDE DEF hit, new
<1>. QED
  BY <1>1, WriteTrust

LEMMA VisitRewards ==
    ASSUME GossipInv, NEW s \in Server, HomeInv(s), Earned(s), todo[s] # <<>>,
           NEW new, Keeps(peers[s], peers'[s], {}, new),
           \A e \in new : AtHome(s, e) /\ ~(e.rep < Reputation),
           failed[s] \subseteq failed'[s], UNCHANGED phase,
           todo'[s] = Tail(todo[s]), answer'[s] = NoAnswer
    PROVE  HomeInv(s)' /\ Earned(s)'
<1>1. {} \subseteq {Head(todo[s]).url} /\ failed[s] \cup {} \subseteq failed'[s]
  OBVIOUS
<1>. QED
  BY <1>1, WriteTrust

\* In the middle of a visit, or of the day, nobody is.
LEMMA VisitGoesOn ==
    ASSUME GossipInv, NEW s \in Server, HomeInv(s), Earned(s),
           NEW new, Keeps(peers[s], peers'[s], {}, new),
           \A e \in new : AtHome(s, e) /\ ~(e.rep < Reputation),
           failed[s] \subseteq failed'[s], UNCHANGED phase, todo'[s] = todo[s],
           answer'[s].kind = "sorted" =>
               \A i \in DOMAIN answer'[s].list : answer'[s].list[i] \in Listings,
           answer'[s] # NoAnswer => answer[s] # NoAnswer
    PROVE  HomeInv(s)' /\ Earned(s)'
<1>. DEFINE hit == {}
<1>1. failed[s] \cup hit \subseteq failed'[s] /\ hit = {} /\ Keeps(peers[s], peers'[s], hit, new)
  OBVIOUS
<1>. HIDE DEF hit
<1>. QED
  BY <1>1, WriteTrust

\* A round begins with those the table then has.
LEMMA VisitTrust ==
    ASSUME GossipInv, NEW s \in Server, HomeInv(s), Earned(s), answer[s] = NoAnswer,
           NEW next \in {"gossip", "sync"}, Visit(s, next, GossipLimit)
    PROVE  HomeInv(s)' /\ Earned(s)'
<1>1. UNCHANGED <<peers, failed, answer>> /\ phase'[s] = next
  BY DEF Visit, GossipInv, TypeOK
<1>2. /\ (\A i \in DOMAIN todo[s] : InFavour(s, todo[s][i]))'
      /\ \A i, j \in DOMAIN todo'[s] : todo'[s][i].url = todo'[s][j].url => i = j
  <2>1. CASE \E list \in Snapshot(peers[s], GossipLimit) : todo' = [todo EXCEPT ![s] = list]
    <3>1. PICK list \in Snapshot(peers[s], GossipLimit) : todo' = [todo EXCEPT ![s] = list]
      BY <2>1
    <3>2. Table(peers[s]) /\ todo'[s] = list
      BY <3>1, FirstTyped DEF GossipInv, TypeOK
    <3>3. /\ \A i \in DOMAIN list :
                  \E p \in peers[s] : p.key = list[i].key /\ p.url = list[i].url /\ p.rep > 0
          /\ \A i, j \in DOMAIN list : list[i].url = list[j].url => i = j
      BY <3>2, SnapshotInFavour, GossipAssumption
    <3>. QED
      BY <1>1, <3>2, <3>3 DEF InFavour
  <2>2. CASE todo' = [todo EXCEPT ![s] = <<>>]
    BY <2>2 DEF GossipInv, TypeOK
  <2>. QED
    BY <2>1, <2>2 DEF Visit
<1>. QED
  BY <1>1, <1>2 DEF HomeInv, Earned, AtHome, NoAnswer, Bare

\* Only an empty list of a server of this kind verifies; what else is absorbed, a foreign host
\* has listed.
LEMMA AnswerListed ==
    ASSUME NEW u \in Host, NEW a \in PeerList(u), a.kind = "sorted", NEW i \in DOMAIN a.list
    PROVE  a.list[i] \in Listings
<1>1. \A kind \in Misconduct : Bare(kind).kind # "sorted"
  BY DEF Bare, Misconduct
<1>2. u \notin Server
  BY <1>1 DEF PeerList, HandleList, Misconduct
<1>3. u \in Foreign /\ u \notin gone
  BY <1>1, <1>2 DEF PeerList, Host, Misconduct
<1>4. PICK list \in Listed[u] : a = [kind |-> "sorted", list |-> list]
  BY <1>1, <1>2, <1>3, ForeignAssumption DEF PeerList
<1>. QED
  BY <1>3, <1>4 DEF Listings

LEMMA PlanTrust ==
    ASSUME GossipInv, NEW s \in Server, HomeInv(s), Earned(s),
           Boot(s) \/ StartRound(s) \/ StartSync(s) \/ Rest(s) \/ Skip(s) \/ Ask(s)
    PROVE  HomeInv(s)' /\ Earned(s)'
<1>. USE DEF GossipInv, TypeOK
<1>0. UNCHANGED <<peers, failed>> /\ Earned(s)'
  BY DEF Boot, StartRound, StartSync, Visit, Rest, Skip, Ask, Earned
<1>1. CASE Boot(s)
  <2>1. /\ phase'[s] = "seeding" /\ UNCHANGED answer /\ answer[s] = NoAnswer
        /\ DOMAIN todo'[s] = DOMAIN Seeds[s]
        /\ \A i \in DOMAIN Seeds[s] : todo'[s][i].url = Seeds[s][i]
    BY <1>1 DEF Boot, AnswerInHand
  <2>2. \A i \in DOMAIN todo'[s] : todo'[s][i].url \in SeedsOf(s) \cup {s}
    BY <2>1 DEF SeedsOf
  <2>. QED
    BY <1>0, <2>1, <2>2 DEF HomeInv, AtHome, NoAnswer, Bare
<1>2. CASE StartRound(s)
  <2>1. answer[s] = NoAnswer
    BY <1>2 DEF StartRound, AnswerInHand
  <2>. QED
    BY <1>2, <2>1, VisitTrust DEF StartRound
<1>3. CASE StartSync(s)
  <2>1. answer[s] = NoAnswer
    BY <1>3 DEF StartSync, AnswerInHand
  <2>. QED
    BY <1>3, <2>1, VisitTrust DEF StartSync
<1>4. CASE Rest(s)
  BY <1>0, <1>4 DEF Rest, HomeInv, AtHome
<1>5. CASE Skip(s)
  <2>1. Keeps(peers[s], peers'[s], {}, {})
    BY <1>0, NothingKeeps
  <2>2. /\ UNCHANGED <<phase, answer>> /\ answer[s] = NoAnswer
        /\ todo[s] # <<>> /\ todo'[s] = Tail(todo[s])
    BY <1>5 DEF Skip
  <2>3. failed[s] \subseteq failed'[s] /\ \A e \in {} : AtHome(s, e) /\ ~(e.rep < Reputation)
    BY <1>0
  <2>4. answer'[s] = NoAnswer
    BY <2>2
  <2>5. PICK new : new = {}
    OBVIOUS
  <2>6. Keeps(peers[s], peers'[s], {}, new) /\ \A e \in new : AtHome(s, e) /\ ~(e.rep < Reputation)
    BY <2>1, <2>3, <2>5
  <2>. HIDE DEF GossipInv, TypeOK
  <2>. QED
    BY <2>2, <2>3, <2>4, <2>6, VisitRewards
<1>6. CASE Ask(s)
  <2>1. /\ UNCHANGED <<phase, todo>> /\ phase[s] \in {"seeding", "gossip"}
        /\ Head(todo[s]).url # s /\ Head(todo[s]).url \in Host
    BY <1>6, FirstTyped DEF Ask, Skipped
  <2>2. answer'[s].kind = "sorted" => \A i \in DOMAIN answer'[s].list : answer'[s].list[i] \in Listings
    <3>1. answer'[s] \in PeerList(Head(todo[s]).url)
              \/ \E kind \in {"unreachable", "refused", "untimely"} : answer'[s] = Bare(kind)
      BY <1>6 DEF Ask
    <3>. QED
      BY <2>1, <3>1, AnswerListed DEF Bare
  <2>. QED
    BY <1>0, <2>1, <2>2 DEF HomeInv, AtHome, InFavour
<1>. QED
  BY <1>1, <1>2, <1>3, <1>4, <1>5, <1>6

\* A statement of a step, whether it succeeds or not.
LEMMA ExecuteKeeps ==
    ASSUME GossipInv, NEW s \in Server, NEW rows, NEW hit, NEW new, Keeps(peers[s], rows, hit, new),
           Execute(s, rows)
    PROVE  Keeps(peers[s], peers'[s], hit, new)
BY NothingKeeps DEF Execute, GossipInv, TypeOK, PeersTypeOK

\* A seed that has no row may get one under the shared key, at the only address that has a claim
\* to it; everybody else has a row.
LEMMA RewardTrust ==
    ASSUME GossipInv, KeysOfTheirOwn, NEW s \in Server, HomeInv(s), todo[s] # <<>>,
           NEW u, u = Head(todo[s]).url, NEW reward \in Nat,
           phase[s] \in {"gossip", "sync"} \/ (phase[s] = "seeding" /\ u # s)
    PROVE  \E new : /\ Keeps(peers[s], RewardByUrl(peers[s], u, reward), {}, new)
                    /\ \A e \in new : AtHome(s, e) /\ ~(e.rep < Reputation)
<1>. DEFINE seed == [key |-> Shared, url |-> u, rep |-> Reputation]
<1>1. Table(peers[s]) /\ u \in Host
  BY FirstTyped
<1>2. 1 \in DOMAIN todo[s] /\ Head(todo[s]) = todo[s][1]
  BY HeadTailProperties, LenProperties DEF GossipInv, TypeOK
<1>3. CASE phase[s] \in {"gossip", "sync"}
  <2>1. At(peers[s], u) # {}
    BY <1>2, <1>3 DEF HomeInv, InFavour, At
  <2>2. Keeps(peers[s], RewardByUrl(peers[s], u, reward), {}, {})
    BY <1>1, <2>1, RewardByUrlKeeps
  <2>. QED
    BY <2>2
<1>4. CASE phase[s] = "seeding" /\ u # s
  <2>1. u \in SeedsOf(s)
    BY <1>2, <1>4 DEF HomeInv
  <2>2. \A p \in peers[s] : p.key = Shared => p.url = u
    BY <2>1 DEF HomeInv, AtHome, KeysOfTheirOwn
  <2>3. Keeps(peers[s], RewardByUrl(peers[s], u, reward), {}, {seed})
    BY <1>1, <2>2, RewardByUrlKeeps
  <2>4. AtHome(s, seed) /\ ~(seed.rep < Reputation)
    BY <2>1, ActiveAssumption DEF AtHome
  <2>. QED
    BY <2>3, <2>4
<1>. QED
  BY <1>3, <1>4

LEMMA JudgedTrust ==
    ASSUME GossipInv, KeysOfTheirOwn, NEW s \in Server, HomeInv(s), Earned(s),
           TurnDown(s) \/ Absorb(s) \/ Reward(s)
    PROVE  HomeInv(s)' /\ Earned(s)'
<1>. DEFINE u == Head(todo[s]).url
<1>1. /\ answer[s] # NoAnswer /\ todo[s] # <<>> /\ phase[s] \in {"seeding", "gossip"}
      /\ u # s /\ u \in Host /\ Table(peers[s])
  <2>1. answer[s] # NoAnswer
    BY DEF TurnDown, Absorb, Reward, Verifies, NoAnswer, Bare
  <2>. QED
    BY <2>1, FirstTyped DEF GossipInv, AnswerInHand, HomeInv
<1>2. /\ failed \in [Server -> SUBSET Host] /\ todo \in [Server -> Seq(Entry)]
      /\ answer \in [Server -> Answer]
  BY DEF GossipInv, TypeOK
<1>3. CASE TurnDown(s)
  <2>1. Keeps(peers[s], PunishByUrl(peers[s], u, Penalty(answer[s])), {u}, {})
    BY <1>1, PunishByUrlKeeps
  <2>2. Keeps(peers[s], peers'[s], {u}, {})
    BY <1>3, <2>1, ExecuteKeeps DEF TurnDown
  <2>3. /\ failed[s] \cup {u} \subseteq failed'[s] /\ UNCHANGED phase
        /\ todo'[s] = Tail(todo[s]) /\ answer'[s] = NoAnswer
    BY <1>2, <1>3 DEF TurnDown, Finish
  <2>. QED
    BY <1>1, <2>2, <2>3, VisitEnds
<1>4. CASE Absorb(s)
  <2>. DEFINE dp == Head(answer[s].list)
              e == Credited(dp)
  <2>1. /\ answer[s].list \in Seq(Entry) /\ answer[s].list # <<>> /\ answer[s].kind = "sorted"
        /\ answer'[s].list = Tail(answer[s].list) /\ answer'[s].kind = answer[s].kind
        /\ UNCHANGED <<phase, todo, failed>>
    BY <1>2, <1>4 DEF Absorb, Answer, Verifies
  <2>2. /\ dp \in Entry /\ dp \in Listings
        /\ \A i \in DOMAIN Tail(answer[s].list) : Tail(answer[s].list)[i] \in Listings
    <3>1. /\ dp = answer[s].list[1] /\ 1 \in DOMAIN answer[s].list /\ dp \in Entry
          /\ \A i \in DOMAIN Tail(answer[s].list) : /\ i + 1 \in DOMAIN answer[s].list
                                                    /\ Tail(answer[s].list)[i] = answer[s].list[i + 1]
      BY <2>1, HeadTailProperties, LenProperties
    <3>. QED
      BY <2>1, <3>1 DEF HomeInv
  <2>3. e \in Entry /\ e.key = dp.key /\ e.url = dp.url /\ ~(e.rep < Reputation) /\ e.key # Shared
    BY <2>2, CreditedTyped, ActiveAssumption DEF Credited, Entry, KeysOfTheirOwn
  <2>4. AtHome(s, e) /\ \A p \in peers[s] : p.key = e.key => p.url = e.url
    BY <2>2, <2>3 DEF AtHome, HomeInv, KeysOfTheirOwn
  <2>. HIDE DEF e, dp
  <2>5. Keeps(peers[s], Upsert(peers[s], e), {}, {e})
    BY <1>1, <2>3, <2>4, UpsertKeeps
  <2>6. Keeps(peers[s], peers'[s], {}, {e})
    BY <1>4, <2>5, ExecuteKeeps, NothingKeeps DEF Absorb, e, dp
  <2>7. PICK new : /\ Keeps(peers[s], peers'[s], {}, new)
                   /\ \A x \in new : AtHome(s, x) /\ ~(x.rep < Reputation)
    BY <2>3, <2>4, <2>6
  <2>8. answer'[s].kind = "sorted" => \A i \in DOMAIN answer'[s].list : answer'[s].list[i] \in Listings
    BY <2>1, <2>2
  <2>9. failed[s] \subseteq failed'[s] /\ UNCHANGED phase /\ todo'[s] = todo[s]
    BY <2>1
  <2>. QED
    BY <1>1, <2>7, <2>8, <2>9, VisitGoesOn
<1>5. CASE Reward(s)
  <2>1. PICK reward \in Nat : Execute(s, RewardByUrl(peers[s], u, reward))
    BY <1>5 DEF Reward
  <2>2. PICK new : /\ Keeps(peers[s], RewardByUrl(peers[s], u, reward), {}, new)
                   /\ \A e \in new : AtHome(s, e) /\ ~(e.rep < Reputation)
    BY <1>1, RewardTrust
  <2>3. Keeps(peers[s], peers'[s], {}, new)
    BY <2>1, <2>2, ExecuteKeeps
  <2>4. /\ failed[s] \subseteq failed'[s] /\ UNCHANGED phase
        /\ todo'[s] = Tail(todo[s]) /\ answer'[s] = NoAnswer
    BY <1>2, <1>5 DEF Reward, Finish
  <2>. QED
    BY <1>1, <2>2, <2>3, <2>4, VisitRewards
<1>. QED
  BY <1>3, <1>4, <1>5

\* Who is pulled from is in the table, under the key and at the address the round began with:
\* a strike by his key strikes him alone.
LEMMA PullTrust ==
    ASSUME GossipInv, KeysOfTheirOwn, NEW s \in Server, HomeInv(s), Earned(s), PullPosts(s)
    PROVE  HomeInv(s)' /\ Earned(s)'
<1>. DEFINE p == Head(todo[s])
            u == p.url
<1>1. todo[s] # <<>> /\ phase[s] = "sync" /\ u \in Host /\ Table(peers[s])
  BY FirstTyped DEF PullPosts
<1>2. /\ failed \in [Server -> SUBSET Host] /\ todo \in [Server -> Seq(Entry)]
      /\ answer \in [Server -> Answer] /\ peers \in [Server -> SUBSET Row]
  BY DEF GossipInv, TypeOK, PeersTypeOK
<1>3. UNCHANGED phase /\ todo'[s] = Tail(todo[s]) /\ answer'[s] = NoAnswer
  BY <1>2 DEF PullPosts, Finish
<1>4. \A q \in peers[s] : q.key = p.key => q.url = u
  <2>1. 1 \in DOMAIN todo[s] /\ p = todo[s][1]
    BY <1>1, <1>2, HeadTailProperties, LenProperties
  <2>2. PICK q \in peers[s] : q.key = p.key /\ q.url = u
    BY <1>1, <2>1 DEF HomeInv, InFavour
  <2>. QED
    BY <1>1, <2>2 DEF Table, OneRowEach
<1>5. \A penalty : Keeps(peers[s], PunishByUrl(peers[s], u, penalty), {u}, {})
  BY <1>1, PunishByUrlKeeps
<1>6. CASE /\ Keeps(peers[s], peers'[s], {u}, {})
           /\ failed' = [failed EXCEPT ![s] = @ \cup {u}]
  <2>1. failed[s] \cup {u} \subseteq failed'[s]
    BY <1>2, <1>6
  <2>. QED
    BY <1>1, <1>3, <1>6, <2>1, VisitEnds
<1>7. CASE /\ UNCHANGED failed
           /\ \E new : /\ Keeps(peers[s], peers'[s], {}, new)
                       /\ \A e \in new : AtHome(s, e) /\ ~(e.rep < Reputation)
  <2>1. failed[s] \subseteq failed'[s]
    BY <1>7
  <2>. QED
    BY <1>1, <1>3, <1>7, <2>1, VisitRewards
<1>8. CASE \E kind \in Failures(u) :
              /\ Execute(s, PunishByUrl(peers[s], u, PostPenalty(kind)))
              /\ failed' = [failed EXCEPT ![s] = @ \cup {u}]
  BY <1>5, <1>6, <1>8, ExecuteKeeps
<1>9. CASE \E kind \in {"unreachable", "refused"} :
              /\ peers' = [peers EXCEPT ![s] = PunishByUrl(peers[s], u, PostPenalty(kind))]
              /\ failed' = [failed EXCEPT ![s] = @ \cup {u}]
  BY <1>2, <1>5, <1>6, <1>9
<1>10. CASE \E posts \in Pulled(u) :
              /\ Execute(s, Verdict(s, posts))
              /\ IF posts.invalid > posts.valid
                 THEN failed' = [failed EXCEPT ![s] = @ \cup {u}] ELSE UNCHANGED failed
  <2>1. PICK posts \in Pulled(u) :
              /\ Execute(s, Verdict(s, posts))
              /\ IF posts.invalid > posts.valid
                 THEN failed' = [failed EXCEPT ![s] = @ \cup {u}] ELSE UNCHANGED failed
    BY <1>10
  <2>2. CASE posts.invalid > posts.valid
    <3>1. Keeps(peers[s], Verdict(s, posts), {u}, {})
      BY <1>1, <1>4, <2>2, PunishKeeps DEF Verdict
    <3>. QED
      BY <1>6, <2>1, <2>2, <3>1, ExecuteKeeps
  <2>3. CASE ~(posts.invalid > posts.valid) /\ posts.valid > 0
    <3>1. Verdict(s, posts) = RewardByUrl(peers[s], u, 2)
      BY <2>3 DEF Verdict
    <3>2. PICK new : /\ Keeps(peers[s], RewardByUrl(peers[s], u, 2), {}, new)
                     /\ \A e \in new : AtHome(s, e) /\ ~(e.rep < Reputation)
      BY <1>1, RewardTrust
    <3>3. Keeps(peers[s], peers'[s], {}, new)
      BY <2>1, <3>1, <3>2, ExecuteKeeps
    <3>. QED
      BY <1>7, <2>1, <2>3, <3>2, <3>3
  <2>4. CASE ~(posts.invalid > posts.valid) /\ ~(posts.valid > 0)
    <3>1. Keeps(peers[s], Verdict(s, posts), {}, {})
      BY <2>4, NothingKeeps DEF Verdict
    <3>2. Keeps(peers[s], peers'[s], {}, {}) /\ \A e \in {} : AtHome(s, e) /\ ~(e.rep < Reputation)
      BY <2>1, <3>1, ExecuteKeeps
    <3>. QED
      BY <1>7, <2>1, <2>4, <3>2
  <2>. QED
    BY <2>2, <2>3, <2>4
<1>. QED
  BY <1>8, <1>9, <1>10 DEF PullPosts

\* A crash ends the round, and the table ages as it is.
LEMMA OtherTrust ==
    ASSUME GossipInv, NEW s \in Server, HomeInv(s), Earned(s),
           Crash(s) \/ (\E f \in Leaving : Leave(f)) \/ Age
    PROVE  HomeInv(s)' /\ Earned(s)'
<1>1. CASE Crash(s)
  <2>1. /\ UNCHANGED <<peers, failed>> /\ phase'[s] = "down" /\ answer'[s] = NoAnswer
    BY <1>1 DEF Crash, GossipInv, TypeOK
  <2>. QED
    BY <2>1 DEF HomeInv, Earned, AtHome, NoAnswer, Bare
<1>2. CASE \E f \in Leaving : Leave(f)
  BY <1>2 DEF Leave, HomeInv, Earned, AtHome, InFavour
<1>3. CASE Age
  <2>1. /\ UNCHANGED <<phase, todo, answer, failed>> /\ peers'[s] = Older(peers[s])
    BY <1>3 DEF Age
  <2>2. Keeps(peers[s], peers'[s], {}, {})
    BY <2>1, FirstTyped, OlderKeeps
  <2>3. /\ failed[s] \subseteq failed'[s]
        /\ todo'[s] = todo[s] /\ UNCHANGED phase
        /\ answer'[s].kind = "sorted" =>
               \A i \in DOMAIN answer'[s].list : answer'[s].list[i] \in Listings
    BY <2>1 DEF HomeInv
  <2>4. answer'[s] # NoAnswer => answer[s] # NoAnswer
    BY <2>1
  <2>5. PICK new : /\ Keeps(peers[s], peers'[s], {}, new)
                   /\ \A x \in new : AtHome(s, x) /\ ~(x.rep < Reputation)
    BY <2>2
  <2>. QED
    BY <2>3, <2>4, <2>5, VisitGoesOn
<1>. QED
  BY <1>1, <1>2, <1>3

\* A step of another server leaves everything of this one as it is.
LEMMA Untouched ==
    ASSUME GossipInv, NEW s \in Server, NEW t \in Server \ {s}, Work(t) \/ Crash(t)
    PROVE  /\ peers'[s] = peers[s] /\ phase'[s] = phase[s] /\ todo'[s] = todo[s]
           /\ answer'[s] = answer[s] /\ failed'[s] = failed[s]
<1>. USE DEF GossipInv, TypeOK, PeersTypeOK
<1>1. ASSUME NEW rows, Execute(t, rows) PROVE peers'[s] = peers[s]
  BY <1>1 DEF Execute
<1>2. CASE Boot(t) \/ StartRound(t) \/ StartSync(t) \/ Rest(t) \/ Skip(t) \/ Ask(t) \/ Crash(t)
  BY <1>2 DEF Boot, StartRound, StartSync, Visit, Rest, Skip, Ask, Crash
<1>3. CASE TurnDown(t) \/ Absorb(t) \/ Reward(t)
  BY <1>1, <1>3 DEF TurnDown, Absorb, Reward, Finish
<1>4. CASE PullPosts(t)
  BY <1>1, <1>4 DEF PullPosts, Finish
<1>. QED
  BY <1>2, <1>3, <1>4 DEF Work

LEMMA TrustStep ==
    ASSUME GossipInv, KeysOfTheirOwn, TrustInv, Next PROVE TrustInv'
<1>. SUFFICES ASSUME NEW s \in Server PROVE HomeInv(s)' /\ Earned(s)'
  BY DEF TrustInv
<1>1. HomeInv(s) /\ Earned(s)
  BY DEF TrustInv
<1>2. CASE \E t \in Server \ {s} : Work(t) \/ Crash(t)
  <2>1. /\ peers'[s] = peers[s] /\ phase'[s] = phase[s] /\ todo'[s] = todo[s]
        /\ answer'[s] = answer[s] /\ failed'[s] = failed[s]
    BY <1>2, Untouched
  <2>. QED
    BY <1>1, <2>1 DEF HomeInv, Earned, AtHome, InFavour
<1>3. CASE Work(s)
  BY <1>1, <1>3, PlanTrust, JudgedTrust, PullTrust DEF Work
<1>4. CASE Crash(s) \/ (\E f \in Leaving : Leave(f)) \/ Age
  BY <1>1, <1>4, OtherTrust
<1>. QED
  BY <1>2, <1>3, <1>4 DEF Next

\* There is somebody whom a visit visits.
LEMMA FirstVisited ==
    ASSUME GossipInv, Next, NEW s \in Server, Visited(s) PROVE todo[s] # <<>>
<1>. USE DEF GossipInv, TypeOK
<1>1. CASE Work(s) \/ Crash(s)
  <2>1. CASE Boot(s) \/ StartRound(s) \/ StartSync(s) \/ Rest(s) \/ Crash(s)
    BY <2>1 DEF Visited, Boot, StartRound, StartSync, Visit, Rest, Crash
  <2>2. CASE Skip(s) \/ Ask(s) \/ PullPosts(s)
    BY <2>2 DEF Skip, Ask, PullPosts
  <2>3. CASE TurnDown(s) \/ Absorb(s) \/ Reward(s)
    <3>1. answer[s] # NoAnswer
      BY <2>3 DEF TurnDown, Absorb, Reward, Verifies, NoAnswer, Bare
    <3>. QED
      BY <3>1 DEF AnswerInHand
  <2>. QED
    BY <1>1, <2>1, <2>2, <2>3 DEF Work
<1>2. CASE \E t \in Server \ {s} : Work(t) \/ Crash(t)
  <2>1. phase'[s] = phase[s] /\ todo'[s] = todo[s] /\ answer'[s] = answer[s]
    BY <1>2, Untouched
  <2>. QED
    BY <2>1 DEF Visited
<1>3. CASE (\E f \in Leaving : Leave(f)) \/ Age
  BY <1>3 DEF Leave, Age, Visited
<1>. QED
  BY <1>1, <1>2, <1>3 DEF Next

LEMMA TrustInvHolds == ASSUME KeysOfTheirOwn PROVE Spec => []TrustInv
<1>1. Init => TrustInv
  BY DEF Init, PeersInit, TrustInv, HomeInv, Earned, NoAnswer, Bare
<1>2. GossipInv /\ TrustInv /\ UNCHANGED vars => TrustInv'
  BY DEF vars, TrustInv, HomeInv, Earned, AtHome, InFavour
<1>3. KeysOfTheirOwn /\ GossipInv /\ TrustInv /\ [Next]_vars => TrustInv'
  BY <1>2, TrustStep
<1>4. KeysOfTheirOwn
  OBVIOUS
<1>5. GossipInv /\ TrustInv /\ [Next]_vars => TrustInv'
  BY <1>3, <1>4
<1>. QED
  BY <1>1, <1>5, GossipInvHolds, PTL DEF Spec

\* Where hosts do not share keys, who has less reputation than he was introduced with has
\* himself failed to answer: no strike meets a peer for what another one has done.
THEOREM BlameIsEarnedHolds == ASSUME KeysOfTheirOwn PROVE Spec => []BlameIsEarned
<1>1. TrustInv => BlameIsEarned
  BY DEF TrustInv, Earned, BlameIsEarned
<1>. QED
  BY <1>1, TrustInvHolds, PTL

\* Nor is anybody asked, for peers or for posts, whose reputation is used up, although a round
\* goes by the table as it was when the round began.
THEOREM DisconnectedNotAskedHolds == ASSUME KeysOfTheirOwn PROVE Spec => DisconnectedNotAsked
<1>. DEFINE Asked == \A s \in Server : Visited(s) =>
                        \A p \in At(peers[s], Head(todo[s]).url) : p.rep > 0
<1>1. ASSUME GossipInv, TrustInv, Next PROVE Asked
  <2>. SUFFICES ASSUME NEW s \in Server, Visited(s), NEW p \in peers[s], p.url = Head(todo[s]).url
                PROVE  p.rep > 0
    BY DEF At
  <2>1. todo[s] # <<>>
    BY <1>1, FirstVisited
  <2>2. 1 \in DOMAIN todo[s] /\ Head(todo[s]) = todo[s][1]
    BY <1>1, <2>1, HeadTailProperties, LenProperties DEF GossipInv, TypeOK
  <2>3. PICK q \in peers[s] : q.url = Head(todo[s]).url /\ q.rep > 0
    BY <1>1, <2>2 DEF Visited, TrustInv, HomeInv, InFavour
  <2>4. Table(peers[s])
    BY <1>1, FirstTyped
  <2>. QED
    BY <2>3, <2>4 DEF Table, OneRowEach
<1>2. GossipInv /\ TrustInv /\ [Next]_vars => [Asked]_vars
  BY <1>1
<1>. QED
  BY <1>2, GossipInvHolds, TrustInvHolds, PTL DEF Spec, DisconnectedNotAsked
=============================================================================
