---------------------------- MODULE RoundsProofs ----------------------------
(****************************************************************************)
(* For any lengths of rounds, windows and pages that fit each other, any    *)
(* posts and failures: no peer is quarantined, and what it has to offer is  *)
(* offered in time.                                                         *)
(****************************************************************************)
EXTENDS Rounds, SequenceTheorems, FiniteSetTheorems, TLAPS

(****************************************************************************)
(* What an answer contains                                                  *)
(****************************************************************************)

\* A row of the window is in the answer, or a full page of others is that are not younger.
LEMMA Answered ==
    ASSUME NEW rows, IsFiniteSet(rows), \A q \in rows : q.claimed \in Int,
           NEW from \in Int, NEW limit \in Nat, NEW page \in ListRecent(rows, from, limit)
    PROVE  /\ \A i \in DOMAIN page : page[i] \in rows
           /\ \A p \in rows : from < p.claimed =>
                  \/ \E i \in DOMAIN page : page[i] = p
                  \/ limit <= Cardinality(
                         {q \in rows \ {p} : from < q.claimed /\ q.claimed <= p.claimed})
<1>. DEFINE window == {q \in rows : q.claimed > from}
            n == Cardinality(window)
            last == IF limit < n THEN limit ELSE n
<1>1. window \subseteq rows /\ IsFiniteSet(window) /\ n \in Nat
  BY FS_Subset, FS_CardinalityType
<1>2. PICK s \in SetToSeqs(window) :
          /\ \A i, j \in DOMAIN s : i < j => ~(s[j].claimed < s[i].claimed)
          /\ page = SubSeq(s, 1, IF limit < Len(s) THEN limit ELSE Len(s))
  <2>1. page \in {Page(s, limit, 0) : s \in Ordered(window, Older)}
    BY DEF ListRecent
  <2>2. PICK s \in Ordered(window, Older) : page = Page(s, limit, 0)
    BY <2>1
  <2>3. s \in SetToSeqs(window) /\ \A i, j \in DOMAIN s : i < j => ~(s[j].claimed < s[i].claimed)
    BY <2>2 DEF Ordered, Older
  <2>4. Page(s, limit, 0) = SubSeq(s, 1, IF limit < Len(s) THEN limit ELSE Len(s))
    BY DEF Page
  <2>. QED
    BY <2>2, <2>3, <2>4
<1>3. s \in [1..n -> window] /\ \A i, j \in 1..n : i # j => s[i] # s[j]
  BY <1>2 DEF SetToSeqs
<1>. HIDE DEF window, n
<1>4. Len(s) = n /\ s \in Seq(window)
  <2>1. s \in Seq(window)
    BY <1>1, <1>3, SeqDef
  <2>2. Len(s) \in Nat /\ DOMAIN s = 1..Len(s) /\ DOMAIN s = 1..n
    BY <1>3, <2>1, LenProperties
  <2>3. \A m \in Nat : Cardinality(1..m) = m
    BY FS_Interval
  <2>. QED
    BY <1>1, <2>1, <2>2, <2>3
<1>5. last \in 0..n
  BY <1>1
<1>6. page = SubSeq(s, 1, last)
  BY <1>2, <1>4
<1>7. DOMAIN page = 1..last /\ \A i \in 1..last : page[i] = s[i] /\ s[i] \in window
  BY <1>1, <1>3, <1>4, <1>5, <1>6
<1>8. ASSUME NEW p \in window PROVE \E k \in 1..n : s[k] = p
  <2>1. s \in Injection(1..n, window)
    BY <1>3 DEF Injection, IsInjective
  <2>2. IsFiniteSet(1..n) /\ Cardinality(1..n) = n
    BY <1>1, FS_Interval
  <2>3. s \in Surjection(1..n, window)
    BY <1>1, <2>1, <2>2, FS_Injection DEF n
  <2>. QED
    BY <2>3 DEF Surjection
<1>9. ASSUME NEW p \in rows, from < p.claimed, ~ \E i \in DOMAIN page : page[i] = p
      PROVE  limit <= Cardinality({q \in rows \ {p} : from < q.claimed /\ q.claimed <= p.claimed})
  <2>. DEFINE ahead == {q \in rows \ {p} : from < q.claimed /\ q.claimed <= p.claimed}
              first == [i \in 1..limit |-> s[i]]
  <2>1. PICK k \in 1..n : s[k] = p
    BY <1>8, <1>9 DEF window
  <2>2. limit < k
    BY <1>7, <1>9, <2>1
  <2>3. \A i \in 1..limit : i \in 1..n /\ i < k
    BY <1>1, <2>2
  <2>4. ASSUME NEW i \in 1..limit PROVE s[i] \in ahead
    <3>1. s[i] \in window /\ ~(s[k].claimed < s[i].claimed) /\ s[i] # s[k]
      BY <1>2, <1>3, <2>3
    <3>. QED
      BY <1>9, <2>1, <3>1 DEF window
  <2>5. first \in Injection(1..limit, ahead)
    BY <1>3, <2>3, <2>4 DEF Injection, IsInjective
  <2>6. IsFiniteSet(ahead)
    BY FS_Subset
  <2>7. Cardinality(1..limit) = limit
    BY FS_Interval
  <2>. HIDE DEF first, ahead
  <2>8. Cardinality(1..limit) <= Cardinality(ahead)
    BY <2>5, <2>6, FS_Injection
  <2>. QED
    BY <2>7, <2>8 DEF ahead
<1>. QED
  BY <1>1, <1>7, <1>9 DEF window

(****************************************************************************)
(* Types and times                                                          *)
(****************************************************************************)

RoundInv == TypeOK /\ IsFiniteSet(stored) /\ TimeInv

\* What an answer of the peer has, and what it may leave out.
LEMMA AnswerTyped ==
    ASSUME RoundInv, NEW page \in ListRecent(stored, since, PullLimit)
    PROVE  /\ \A i \in DOMAIN page : page[i] \in stored
           /\ \A p \in stored : since < p.claimed =>
                  \/ \E i \in DOMAIN page : page[i] = p
                  \/ PullLimit <= Cardinality(AheadOf(p, since))
<1>1. /\ IsFiniteSet(stored) /\ since \in Int /\ PullLimit \in Nat
      /\ \A q \in stored : q.claimed \in Int
  BY RoundsAssumption DEF RoundInv, TypeOK, Row
<1>. QED
  BY <1>1, Answered DEF AheadOf

LEMMA RoundInvInit == Init => RoundInv
<1>1. Init => TypeOK
  <2>1. Init => ticked \in BOOLEAN /\ skipped \in BOOLEAN
    BY DEF Init
  <2>. QED
    BY <2>1, RoundsAssumption DEF Init, TypeOK
<1>2. Init => IsFiniteSet(stored)
  BY FS_EmptySet DEF Init
<1>3. Init => TimeInv
  BY RoundsAssumption DEF Init, TimeInv
<1>. QED
  BY <1>1, <1>2, <1>3 DEF RoundInv

LEMMA RoundInvStep == ASSUME RoundInv, Next PROVE RoundInv'
<1>. USE RoundsAssumption DEF RoundInv, TypeOK, TimeInv
<1>1. CASE StartRound
  <2>1. TypeOK'
    <3>1. ticked' \in BOOLEAN
      BY <1>1 DEF StartRound
    <3>. QED
      BY <1>1, <3>1 DEF StartRound
  <2>2. TimeInv'
    BY <1>1 DEF StartRound
  <2>. QED
    BY <1>1, <2>1, <2>2 DEF StartRound
<1>2. CASE StartSync
  BY <1>2 DEF StartSync
<1>3. CASE AllowSync
  <2>1. Current \in [count: 0..MaxFetches, lastFetch: 0..MaxClock]
    BY DEF Current
  <2>2. record' \in [count: 0..MaxFetches, lastFetch: 0..MaxClock]
    BY <1>3, <2>1 DEF AllowSync
  <2>. QED
    BY <1>3, <2>2 DEF AllowSync
<1>4. CASE Answer
  <2>1. offered' \subseteq stored
    <3>. HIDE DEF RoundInv
    <3>. QED
      BY <1>4, AnswerTyped DEF Answer, RoundInv
  <2>2. faults' \in 0..MaxFaults
    BY <1>4 DEF Answer
  <2>. QED
    BY <1>4, <2>1, <2>2 DEF Answer
<1>5. CASE EndRound
  BY <1>5 DEF EndRound
<1>6. CASE Restart
  <2>1. TypeOK'
    <3>1. ticked' \in BOOLEAN
      BY <1>6 DEF Restart
    <3>. QED
      BY <1>6, <3>1 DEF Restart
  <2>2. TimeInv'
    BY <1>6 DEF Restart
  <2>. QED
    BY <1>6, <2>1, <2>2 DEF Restart
<1>7. CASE Tick
  <2>1. TypeOK'
    <3>1. ticked' \in BOOLEAN
      BY <1>7 DEF Tick
    <3>. QED
      BY <1>7, <3>1 DEF Tick
  <2>2. TimeInv'
    BY <1>7 DEF Tick
  <2>. QED
    BY <1>7, <2>1, <2>2 DEF Tick
<1>8. CASE \E p \in Post, b \in Backdating : Store(p, clock - b)
  <2>1. PICK p \in Post, b \in Backdating : Store(p, clock - b)
    BY <1>8
  <2>. DEFINE row == [post |-> p, claimed |-> clock - b, at |-> clock]
  <2>2. stored' = stored \cup {row} /\ row \in Row
    BY <2>1 DEF Store, Row
  <2>3. IsFiniteSet(stored')
    BY <2>2, FS_AddElement
  <2>. QED
    BY <2>1, <2>2, <2>3 DEF Store
<1>. QED
  BY <1>1, <1>2, <1>3, <1>4, <1>5, <1>6, <1>7, <1>8 DEF Next

\* The variables stay in their types: no more is counted than is allowed, and a peer offers
\* what it has.
THEOREM RoundsTypeCorrect == Spec => []TypeOK
<1>1. RoundInv /\ [Next]_vars => RoundInv'
  <2>1. RoundInv /\ UNCHANGED vars => RoundInv'
    BY DEF RoundInv, TypeOK, TimeInv, vars
  <2>. QED
    BY <2>1, RoundInvStep
<1>2. RoundInv => TypeOK
  BY DEF RoundInv
<1>. QED
  BY <1>1, <1>2, RoundInvInit, PTL DEF Spec

(****************************************************************************)
(* The quarantine                                                           *)
(****************************************************************************)

SparedInv == FetchInv /\ ~skipped

LEMMA SparedStep == ASSUME RoundInv, SparedInv, Next PROVE SparedInv'
<1>. USE RoundsAssumption DEF RoundInv, TypeOK, TimeInv, SparedInv, FetchInv, ToCome
<1>1. CASE StartRound
  BY <1>1 DEF StartRound
<1>2. CASE StartSync
  BY <1>2 DEF StartSync
<1>3. CASE AllowSync
  <2>1. CASE record.count = 0 \/ clock - record.lastFetch > Minute
    <3>1. Current = [count |-> 0, lastFetch |-> clock] /\ MaxFetches > 0
      BY <2>1, FetchAssumption DEF Current
    <3>2. record' = [count |-> 1, lastFetch |-> clock] /\ ~skipped' /\ worker' = "asking"
      BY <1>3, <3>1 DEF AllowSync
    <3>. QED
      BY <1>3, <3>2 DEF AllowSync
  <2>2. CASE ~(record.count = 0 \/ clock - record.lastFetch > Minute)
    <3>1. Current = record
      BY <2>2 DEF Current
    <3>2. record.count < MaxFetches
      BY <1>3, <2>2, FetchAssumption DEF AllowSync
    <3>3. record' = [record EXCEPT !.count = @ + 1] /\ UNCHANGED skipped /\ worker' = "asking"
      BY <1>3, <3>1, <3>2 DEF AllowSync
    <3>4. record'.count = record.count + 1 /\ record'.lastFetch = record.lastFetch /\ ~skipped'
      BY <3>3
    <3>5. UNCHANGED <<nextTick, ticked>>
      BY <1>3 DEF AllowSync
    <3>6. record'.count - 1 + ToCome' = record.count - 1 + ToCome
      BY <1>3, <3>3, <3>4, <3>5 DEF AllowSync
    <3>. QED
      BY <2>2, <3>4, <3>5, <3>6
  <2>. QED
    BY <2>1, <2>2
<1>4. CASE Answer
  BY <1>4 DEF Answer
<1>5. CASE EndRound
  BY <1>5 DEF EndRound
<1>6. CASE Restart
  BY <1>6 DEF Restart
<1>7. CASE Tick
  BY <1>7 DEF Tick
<1>8. CASE \E p \in Post, b \in Backdating : Store(p, clock - b)
  BY <1>8 DEF Store
<1>. QED
  BY <1>1, <1>2, <1>3, <1>4, <1>5, <1>6, <1>7, <1>8 DEF Next

LEMMA SparedInvHolds == Spec => [](RoundInv /\ SparedInv)
<1>1. Init => SparedInv
  BY DEF Init, SparedInv, FetchInv
<1>2. RoundInv /\ SparedInv /\ [Next]_vars => RoundInv' /\ SparedInv'
  <2>1. RoundInv /\ SparedInv /\ UNCHANGED vars => RoundInv' /\ SparedInv'
    BY DEF RoundInv, TypeOK, TimeInv, SparedInv, FetchInv, ToCome, vars
  <2>. QED
    BY <2>1, RoundInvStep, SparedStep
<1>. QED
  BY <1>1, <1>2, RoundInvInit, PTL DEF Spec

\* No peer is skipped, as long as a minute and a round fit into the periods of all the fetches
\* but one that the counter allows.
THEOREM NeverQuarantinedHolds == Spec => []NeverQuarantined
<1>1. SparedInv => NeverQuarantined
  BY DEF SparedInv, NeverQuarantined
<1>. QED
  BY <1>1, SparedInvHolds, PTL

(****************************************************************************)
(* What is offered                                                          *)
(****************************************************************************)

\* What the failures that are left may cost.
Delay == (MaxFaults - faults) * (Period + MaxRound)

LateFacts ==
    /\ NextRound \in Nat /\ Delay \in Nat /\ Latest \in Nat
    /\ clock \in Nat /\ began \in Nat
    /\ Latest = NextRound + MaxRound + Delay
    /\ Latest <= NextRound - ToNext + Gap
    /\ clock <= NextRound + MaxRound /\ NextRound <= clock + ToNext
    /\ worker # "waiting" => began <= NextRound /\ NextRound <= began + ToNext

LEMMA SpansTyped ==
    /\ ToNext \in Nat /\ Gap \in Nat /\ ToNext' = ToNext /\ Gap' = Gap
    /\ MaxRound \in Nat /\ Period \in Nat /\ Hour \in Nat /\ PullLimit \in Nat
<1>1. \A a, b \in Nat : a * b \in Nat
  OBVIOUS
<1>2. MaxFaults * (Period + MaxRound) \in Nat
  BY <1>1, RoundsAssumption
<1>. QED
  BY <1>2, RoundsAssumption DEF ToNext, Gap

LEMMA LateTyped == RoundInv => LateFacts
<1>. SUFFICES ASSUME RoundInv PROVE LateFacts
  OBVIOUS
<1>. USE RoundsAssumption DEF RoundInv, TypeOK, TimeInv
<1>1. NextRound \in Nat /\ ToNext \in Nat
  BY DEF NextRound, ToNext
<1>2. \A a, b, c \in Nat : a <= b => a * c \in Nat /\ a * c <= b * c
  OBVIOUS
<1>3. /\ Delay \in Nat /\ Delay <= MaxFaults * (Period + MaxRound)
      /\ MaxFaults * (Period + MaxRound) \in Nat
  <2>1. /\ MaxFaults - faults \in Nat /\ MaxFaults \in Nat /\ MaxFaults - faults <= MaxFaults
        /\ Period + MaxRound \in Nat
    OBVIOUS
  <2>. QED
    BY <1>2, <2>1 DEF Delay
<1>4. clock <= NextRound + MaxRound
  BY DEF NextRound
<1>5. NextRound <= clock + ToNext /\ (worker # "waiting" => NextRound <= began + ToNext)
  BY DEF NextRound, ToNext
<1>6. worker # "waiting" => began <= NextRound
  BY DEF NextRound
<1>7. /\ Latest = NextRound + MaxRound + Delay
      /\ Gap = ToNext + MaxRound + MaxFaults * (Period + MaxRound)
  BY DEF Latest, Delay, Gap
<1>. QED
  BY <1>1, <1>3, <1>4, <1>5, <1>6, <1>7 DEF LateFacts

LEMMA LateTypedNext == RoundInv' => LateFacts'
BY LateTyped, PTL

\* Without an answer, the next one does not move away: a call that fails uses up its share.
LEMMA LateStep ==
    ASSUME RoundInv, RoundInv', SparedInv', Next, ~(Answer /\ UNCHANGED faults)
    PROVE  Latest' <= Latest
<1>. DEFINE unit == Period + MaxRound
<1>0. /\ Latest = NextRound + MaxRound + Delay /\ NextRound \in Nat /\ Delay \in Nat
      /\ Latest' = NextRound' + MaxRound + Delay' /\ NextRound' \in Nat /\ Delay' \in Nat
      /\ MaxRound \in Nat /\ Period \in Nat
  BY LateTyped, LateTypedNext, SpansTyped DEF LateFacts
<1>1. faults' = faults => Delay' = Delay
  BY DEF Delay
<1>2. faults' = faults + 1 => Delay' = Delay - unit
  <2>1. \A a, c \in Int : (a - 1) * c = a * c - c
    OBVIOUS
  <2>2. faults' = faults + 1 => MaxFaults - faults' = (MaxFaults - faults) - 1
    BY RoundsAssumption DEF RoundInv, TypeOK
  <2>. QED
    BY <1>0, <2>1, <2>2, RoundsAssumption DEF Delay, RoundInv, TypeOK
<1>. SUFFICES \/ UNCHANGED faults /\ NextRound' <= NextRound
              \/ faults' = faults + 1 /\ NextRound' <= NextRound + unit
  <2>1. ASSUME faults' = faults, NextRound' <= NextRound
        PROVE  Latest' <= Latest
    <3>1. \A x, y, d, m \in Nat : y <= x => y + m + d <= x + m + d
      OBVIOUS
    <3>2. NextRound' + MaxRound + Delay <= NextRound + MaxRound + Delay
      BY <1>0, <2>1, <3>1, Zenon
    <3>. QED
      BY <1>0, <1>1, <2>1, <3>2, Zenon
  <2>2. ASSUME faults' = faults + 1, NextRound' <= NextRound + unit
        PROVE  Latest' <= Latest
    <3>1. \A x, y, d, m, p \in Nat :
              y <= x + (p + m) => y + m + (d - (p + m)) <= x + m + d
      OBVIOUS
    <3>2. NextRound' + MaxRound + (Delay - unit) <= NextRound + MaxRound + Delay
      BY <1>0, <2>2, <3>1, Zenon
    <3>. QED
      BY <1>0, <1>2, <2>2, <3>2, Zenon
  <2>. QED
    BY <2>1, <2>2
<1>. USE RoundsAssumption DEF RoundInv, TypeOK, TimeInv
<1>4. CASE StartRound
  BY <1>4 DEF StartRound, NextRound
<1>5. CASE StartSync
  BY <1>5 DEF StartSync, NextRound
<1>6. CASE AllowSync
  BY <1>6 DEF AllowSync, NextRound, SparedInv
<1>7. CASE Answer
  <2>1. faults' = faults + 1 /\ UNCHANGED <<began, ticked, nextTick>>
    BY <1>7 DEF Answer
  <2>. QED
    BY <1>7, <2>1 DEF Answer, NextRound
<1>8. CASE EndRound
  BY <1>8 DEF EndRound, NextRound
<1>9. CASE Restart
  <2>1. clock <= NextRound + MaxRound
    BY LateTyped DEF LateFacts
  <2>. QED
    BY <1>9, <2>1 DEF Restart, NextRound
<1>10. CASE Tick
  BY <1>10 DEF Tick, NextRound
<1>11. CASE \E p \in Post, b \in Backdating : Store(p, clock - b)
  BY <1>11 DEF Store, NextRound
<1>. QED
  BY <1>4, <1>5, <1>6, <1>7, <1>8, <1>9, <1>10, <1>11 DEF Next

\* Who still waits when its window is about to close has been stored too late, or is one of too
\* many.
LEMMA LateExcused ==
    ASSUME RoundInv, NEW p \in stored, Waits(p), p.claimed + Hour <= Latest
    PROVE  Excused(p)
<1>1. /\ p.claimed \in Int /\ p.at \in Int /\ Latest \in Int /\ Gap \in Int /\ Hour \in Int
      /\ PullLimit \in Int /\ IsFiniteSet(stored) /\ \A q \in stored : q.claimed \in Int
  BY LateTyped, SpansTyped DEF LateFacts, RoundInv, TypeOK, Row
<1>2. CASE Latest <= p.at + Gap
  BY <1>1, <1>2 DEF Excused
<1>3. CASE \E from \in Int : /\ from < p.claimed /\ Latest <= from + Hour + Gap
                             /\ Cardinality(AheadOf(p, from)) >= PullLimit
  <2>1. PICK from \in Int : /\ from < p.claimed /\ Latest <= from + Hour + Gap
                            /\ Cardinality(AheadOf(p, from)) >= PullLimit
    BY <1>3
  <2>2. AheadOf(p, from) \subseteq AheadOf(p, p.claimed - Gap)
    BY <1>1, <2>1 DEF AheadOf
  <2>3. IsFiniteSet(AheadOf(p, p.claimed - Gap)) /\ IsFiniteSet(AheadOf(p, from))
    BY <1>1, FS_Subset DEF AheadOf
  <2>4. /\ Cardinality(AheadOf(p, from)) <= Cardinality(AheadOf(p, p.claimed - Gap))
        /\ Cardinality(AheadOf(p, from)) \in Int /\ Cardinality(AheadOf(p, p.claimed - Gap)) \in Int
    BY <2>2, <2>3, FS_Subset, FS_CardinalityType
  <2>. QED
    BY <1>1, <2>1, <2>4 DEF Excused
<1>. QED
  BY <1>2, <1>3 DEF Waits

\* What is excused remains so, and what waits goes on waiting while nothing is answered.
LEMMA StillExcused ==
    ASSUME RoundInv, RoundInv', stored \subseteq stored', NEW p \in stored
    PROVE  /\ Excused(p) => Excused(p)'
           /\ Waits(p) /\ Latest' <= Latest => Waits(p)'
<1>1. /\ IsFiniteSet(stored') /\ PullLimit \in Int /\ p.at \in Int /\ Gap \in Int /\ Hour \in Int
      /\ Latest \in Int /\ Latest' \in Int
  BY LateTyped, LateTypedNext, SpansTyped, RoundsAssumption DEF LateFacts, RoundInv, TypeOK, Row
<1>2. ASSUME NEW from, Cardinality(AheadOf(p, from)) >= PullLimit
      PROVE  Cardinality(AheadOf(p, from)') >= PullLimit
  <2>1. /\ AheadOf(p, from) \subseteq AheadOf(p, from)' /\ AheadOf(p, from)' \subseteq stored'
    BY DEF AheadOf
  <2>2. /\ IsFiniteSet(AheadOf(p, from)') /\ IsFiniteSet(AheadOf(p, from))
        /\ Cardinality(AheadOf(p, from)) <= Cardinality(AheadOf(p, from)')
    BY <1>1, <2>1, FS_Subset
  <2>3. Cardinality(AheadOf(p, from)) \in Int /\ Cardinality(AheadOf(p, from)') \in Int
    BY <2>2, FS_CardinalityType
  <2>. QED
    BY <1>1, <1>2, <2>2, <2>3
<1>3. Excused(p) => Excused(p)'
  BY <1>2 DEF Excused, AheadOf, Gap, ToNext
<1>4. Waits(p) /\ Latest' <= Latest => Waits(p)'
  <2>1. CASE Latest <= p.at + Gap /\ Latest' <= Latest
    <3>1. Latest' <= p.at + Gap
      BY <1>1, <2>1
    <3>. QED
      BY <3>1 DEF Waits, Gap, ToNext
  <2>2. ASSUME NEW from \in Int, from < p.claimed, Latest <= from + Hour + Gap, Latest' <= Latest,
               Cardinality(AheadOf(p, from)) >= PullLimit
        PROVE  Waits(p)'
    <3>1. Latest' <= from + Hour + Gap
      BY <1>1, <2>2
    <3>2. Cardinality(AheadOf(p, from)') >= PullLimit
      BY <1>2, <2>2
    <3>. QED
      BY <2>2, <3>1, <3>2 DEF Waits, AheadOf, Gap, ToNext
  <2>. QED
    BY <2>1, <2>2 DEF Waits
<1>. QED
  BY <1>3, <1>4

LEMMA OfferStep ==
    ASSUME RoundInv, RoundInv', SparedInv', OfferInv, Next
    PROVE  OfferInv'
<1>1. CASE Answer /\ UNCHANGED faults
  <2>1. PICK page \in ListRecent(stored, since, PullLimit) :
            offered' = offered \cup {page[i] : i \in DOMAIN page}
    BY <1>1, RoundsAssumption DEF Answer, RoundInv, TypeOK
  <2>2. /\ stored' = stored /\ worker = "asking" /\ worker' = "others"
        /\ UNCHANGED <<began, ticked, nextTick>>
    BY <1>1 DEF Answer
  <2>3. Latest' <= since + Hour + Gap /\ since + Hour <= Latest
    <3>1. began <= since + Hour /\ since + Hour <= clock /\ since \in Int
      BY <2>2 DEF RoundInv, TimeInv, TypeOK
    <3>2. NextRound' - ToNext <= began /\ Latest' <= NextRound' - ToNext + Gap /\ clock <= Latest
      BY <2>2, LateTyped, LateTypedNext, SpansTyped DEF LateFacts
    <3>. QED
      BY <3>1, <3>2, LateTyped, LateTypedNext, SpansTyped DEF LateFacts
  <2>. SUFFICES ASSUME NEW p \in stored
                PROVE  (p \in offered \/ Excused(p) \/ Waits(p))'
    BY <2>2 DEF OfferInv
  <2>4. CASE p \in offered
    BY <2>1, <2>4
  <2>5. CASE Excused(p)
    BY <2>2, <2>5, StillExcused
  <2>6. CASE Waits(p) /\ since < p.claimed
    <3>1. \/ \E i \in DOMAIN page : page[i] = p
          \/ PullLimit <= Cardinality(AheadOf(p, since))
      BY <2>6, AnswerTyped
    <3>2. CASE \E i \in DOMAIN page : page[i] = p
      BY <2>1, <3>2
    <3>3. CASE PullLimit <= Cardinality(AheadOf(p, since))
      <4>1. since \in Int
        BY DEF RoundInv, TypeOK
      <4>2. \A from : {q \in stored' \ {p} : from < q.claimed /\ q.claimed <= p.claimed} = AheadOf(p, from)
        BY <2>2 DEF AheadOf
      <4>3. IsFiniteSet(AheadOf(p, since))
        BY FS_Subset DEF AheadOf, RoundInv
      <4>4. Cardinality(AheadOf(p, since)) >= PullLimit
        BY <3>3, <4>3, FS_CardinalityType, RoundsAssumption
      <4>. QED
        BY <2>3, <2>6, <4>1, <4>2, <4>4 DEF Waits, AheadOf, Gap, ToNext
    <3>. QED
      BY <3>1, <3>2, <3>3
  <2>7. CASE Waits(p) /\ ~(since < p.claimed)
    <3>1. p.claimed + Hour <= Latest
      BY <2>3, <2>7, LateTyped, SpansTyped DEF LateFacts, RoundInv, TypeOK, Row
    <3>. QED
      BY <2>2, <2>7, <3>1, LateExcused, StillExcused
  <2>. QED
    BY <2>4, <2>5, <2>6, <2>7 DEF OfferInv
<1>2. CASE ~(Answer /\ UNCHANGED faults)
  <2>1. Latest' <= Latest
    BY <1>2, LateStep
  <2>2. stored \subseteq stored' /\ offered \subseteq offered'
    BY DEF Next, StartRound, StartSync, AllowSync, Answer, EndRound, Restart, Tick, Store
  <2>3. ASSUME NEW p \in stored PROVE (p \in offered \/ Excused(p) \/ Waits(p))'
    BY <2>1, <2>2, StillExcused DEF OfferInv
  <2>4. ASSUME NEW p \in stored' \ stored PROVE Waits(p)'
    <3>1. p.at = clock /\ clock' = clock
      BY <2>4 DEF Next, StartRound, StartSync, AllowSync, Answer, EndRound, Restart, Tick, Store
    <3>2. Latest' <= clock' + Gap
      BY LateTypedNext, SpansTyped DEF LateFacts
    <3>. QED
      BY <3>1, <3>2 DEF Waits, Gap, ToNext
  <2>. QED
    BY <2>3, <2>4 DEF OfferInv
<1>. QED
  BY <1>1, <1>2

\* Whatever the peer publishes is offered before it leaves the window, or it was stored too
\* late, or crowded out by a full page within a gap: for any number of failures.
THEOREM EveryPostOfferedHolds == Spec => []EveryPostOffered
<1>1. Init => OfferInv
  BY DEF Init, OfferInv
<1>2. RoundInv /\ RoundInv' /\ SparedInv' /\ OfferInv /\ [Next]_vars => OfferInv'
  <2>1. OfferInv /\ UNCHANGED vars => OfferInv'
    BY DEF OfferInv, Excused, Waits, AheadOf, Latest, NextRound, Gap, ToNext, vars
  <2>. QED
    BY <2>1, OfferStep
<1>3. RoundInv /\ OfferInv => EveryPostOffered
  <2>. SUFFICES ASSUME RoundInv, OfferInv, NEW p \in stored, p.claimed <= clock - Hour
                PROVE  p \in offered \/ Excused(p)
    BY DEF EveryPostOffered
  <2>1. p.claimed + Hour <= Latest
    BY LateTyped, SpansTyped DEF LateFacts, RoundInv, TypeOK, Row
  <2>. QED
    BY <2>1, LateExcused DEF OfferInv
<1>. QED
  BY <1>1, <1>2, <1>3, SparedInvHolds, PTL DEF Spec
=============================================================================
