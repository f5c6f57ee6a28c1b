---------------------------- MODULE PagingProofs ----------------------------
(****************************************************************************)
(* For any posts, question, page length and number of lost connections, and *)
(* any storing and deleting meanwhile: a careful reader misses or is given  *)
(* twice only what the order of the answers or the offset accounts for.     *)
(****************************************************************************)
EXTENDS Paging, SequenceTheorems, FiniteSetTheorems, TLAPS

(****************************************************************************)
(* The order of the answers                                                 *)
(****************************************************************************)

\* A sort of a finite set of rows is a numbering of them, newest first.
LEMMA Numbered ==
    ASSUME NEW rows, IsFiniteSet(rows), NEW s \in Ordered(rows, Newer)
    PROVE  LET n == Cardinality(rows)
           IN  /\ n \in Nat /\ s \in Seq(rows) /\ Len(s) = n
               /\ \A i, j \in 1..n : i # j => s[i] # s[j]
               /\ \A i, j \in 1..n : i < j => ~(s[j].claimed > s[i].claimed)
               /\ \A r \in rows : \E i \in 1..n : s[i] = r
<1>. DEFINE n == Cardinality(rows)
<1>1. n \in Nat
  BY FS_CardinalityType
<1>2. s \in SetToSeqs(rows) /\ \A i, j \in DOMAIN s : i < j => ~(s[j].claimed > s[i].claimed)
  BY DEF Ordered, Newer
<1>3. s \in [1..n -> rows] /\ \A i, j \in 1..n : i # j => s[i] # s[j]
  BY <1>2 DEF SetToSeqs
<1>. HIDE DEF n
<1>4. s \in Seq(rows)
  BY <1>1, <1>3, SeqDef
<1>5. IsFiniteSet(1..n) /\ Cardinality(1..n) = n
  BY <1>1, FS_Interval
<1>6. Len(s) = n
  <2>1. Len(s) \in Nat /\ DOMAIN s = 1..Len(s) /\ DOMAIN s = 1..n
    BY <1>3, <1>4, LenProperties
  <2>2. \A m \in Nat : Cardinality(1..m) = m
    BY FS_Interval
  <2>. QED
    BY <1>1, <2>1, <2>2
<1>7. s \in Injection(1..n, rows)
  BY <1>3 DEF Injection, IsInjective
<1>8. s \in Surjection(1..n, rows)
  BY <1>5, <1>7, FS_Injection DEF n
<1>. QED
  BY <1>1, <1>2, <1>3, <1>4, <1>6, <1>8 DEF Surjection, n

\* A row that no other one shares its time with is numbered by how many were claimed later.
LEMMA PlaceInOrder ==
    ASSUME NEW rows, IsFiniteSet(rows), \A r \in rows : r.claimed \in Int,
           NEW s \in Ordered(rows, Newer), NEW k \in 1..Cardinality(rows),
           \A r \in rows : r.claimed = s[k].claimed => r = s[k]
    PROVE  Cardinality({r \in rows : r.claimed > s[k].claimed}) = k - 1
<1>. DEFINE n == Cardinality(rows)
            above == {r \in rows : r.claimed > s[k].claimed}
            first == [i \in 1..(k - 1) |-> s[i]]
<1>1. /\ n \in Nat /\ s \in Seq(rows) /\ Len(s) = n
      /\ \A i, j \in 1..n : i # j => s[i] # s[j]
      /\ \A i, j \in 1..n : i < j => ~(s[j].claimed > s[i].claimed)
      /\ \A r \in rows : \E i \in 1..n : s[i] = r
  BY Numbered
<1>. HIDE DEF n
<1>2. k \in 1..n /\ \A i \in 1..n : s[i] \in rows
  BY <1>1, ElementOfSeq DEF n
<1>3. \A i \in 1..(k - 1) : i \in 1..n /\ i < k
  BY <1>1, <1>2
<1>4. ASSUME NEW i \in 1..(k - 1) PROVE s[i] \in above
  <2>1. s[i] \in rows /\ ~(s[k].claimed > s[i].claimed) /\ s[i] # s[k]
    BY <1>1, <1>2, <1>3
  <2>2. s[i].claimed \in Int /\ s[k].claimed \in Int /\ s[i].claimed # s[k].claimed
    BY <1>2, <2>1
  <2>. QED
    BY <2>1, <2>2
<1>5. ASSUME NEW r \in above PROVE \E i \in 1..(k - 1) : s[i] = r
  <2>1. PICK i \in 1..n : s[i] = r
    BY <1>1
  <2>2. s[i].claimed > s[k].claimed
    BY <2>1
  <2>3. s[i].claimed \in Int /\ s[k].claimed \in Int
    BY <1>2
  <2>4. i # k /\ ~(k < i)
    BY <1>1, <1>2, <2>2, <2>3
  <2>. QED
    BY <1>1, <1>2, <2>1, <2>4
<1>6. first \in Surjection(1..(k - 1), above)
  BY <1>4, <1>5 DEF Surjection
<1>7. first \in Injection(1..(k - 1), above)
  BY <1>1, <1>3, <1>4 DEF Injection, IsInjective
<1>8. IsFiniteSet(1..(k - 1)) /\ Cardinality(1..(k - 1)) = k - 1
  <2>1. \A m \in Nat : IsFiniteSet(1..m) /\ Cardinality(1..m) = m
    BY FS_Interval
  <2>2. k - 1 \in Nat
    BY <1>1, <1>2
  <2>. QED
    BY <2>1, <2>2
<1>. HIDE DEF first, above
<1>9. Cardinality(above) = Cardinality(1..(k - 1))
  BY <1>6, <1>7, <1>8, FS_Surjection
<1>. QED
  BY <1>8, <1>9 DEF above

(****************************************************************************)
(* What a page adds to what the reader has                                  *)
(****************************************************************************)

Rows == Selected(nodes, Question)

\* What the steps of the reader rely on.
ReadInv == TypeOK /\ IsFiniteSet(nodes) /\ OffsetInv

\* Pages have at least one row.
Limit == IF Wish \in 1..MaxLimit THEN Wish ELSE DefaultLimit
LEMMA LimitType == Limit \in Nat \ {0}
BY LimitAssumption, PagingAssumption DEF Limit

\* The selected rows are a finite set of rows with times.
LEMMA RowsTyped ==
    ASSUME ReadInv
    PROVE  Rows \subseteq nodes /\ Rows \subseteq Row /\ IsFiniteSet(Rows) /\ \A n \in Rows : n.claimed \in Int
<1>1. Rows \subseteq nodes
  BY DEF Rows, Selected
<1>2. nodes \subseteq Row /\ IsFiniteSet(nodes)
  BY DEF ReadInv, TypeOK, DatabaseTypeOK
<1>. QED
  BY <1>1, <1>2, FS_Subset DEF Row

\* The reader is given the next m rows of some order of all of them. If there are none, the
\* connection was lost before the first row, or he has reached the end.
PageOf(s, m) ==
    /\ got' \in Seq(ID) /\ Len(got') = Len(got) + m
    /\ m = 0 \/ Len(got) + m <= Len(s)
    /\ \A i \in 1..Len(got) : got'[i] = got[i]
    /\ \A i \in 1..m : Len(got) + i <= Len(s) /\ got'[Len(got) + i] = s[Len(got) + i].id
    /\ reading' = IF m = 0 THEN "done" ELSE "under way"
    /\ broken => broken'
    /\ broken' \/ m # 0 \/ Len(s) <= Len(got)

LEMMA PageTaken ==
    ASSUME ReadInv, ReadPage
    PROVE  \E s \in Ordered(Rows, Newer), m \in Nat : PageOf(s, m)
<1>. DEFINE g == Len(got)
<1>1. got \in Seq(ID) /\ g \in Nat
  BY LenProperties DEF ReadInv, TypeOK
<1>a. PICK page \in QueryAnswers(nodes, Question, Wish, g) :
          \/ Take(page) /\ UNCHANGED broken
          \/ \E n \in 0..Len(page) - 1 : /\ Take(SubSeq(page, 1, n))
                                        /\ broken' = (broken \/ n = 0)
  BY DEF ReadPage
<1>2. PICK p \in Query(Rows, Limit, g) : page = [i \in DOMAIN p |-> ReadBack(p[i])]
  BY DEF QueryAnswers, Limit, Rows
<1>3. PICK s \in Ordered(Rows, Newer) : p = Page(s, Limit, g)
  BY DEF Query
<1>. DEFINE l == Len(s)
            last == IF g + Limit < l THEN g + Limit ELSE l
            k == IF last < g THEN 0 ELSE last - g
<1>4. s \in Seq(Row) /\ l \in Nat
  BY <1>3, RowsTyped, Numbered, SeqMonotonic, LenProperties
<1>5. last \in Nat /\ k \in Nat /\ (k = 0 \/ g + k <= l) /\ (k # 0 \/ l <= g)
  BY <1>1, <1>4, LimitType
<1>6. p = [i \in 1..k |-> s[g + i]]
  BY <1>1, <1>3, <1>4, <1>5, LimitType DEF Page
<1>7. \A i \in 1..k : g + i \in 1..l /\ p[i] \in Row
  BY <1>1, <1>4, <1>5, <1>6, ElementOfSeq
<1>. HIDE DEF g, l, last, k
<1>8. page \in Seq(Range(page)) /\ Len(page) = k
      /\ \A i \in 1..k : page[i].id = s[g + i].id /\ s[g + i].id \in ID
  <2>1. DOMAIN page = 1..k /\ \A i \in 1..k : page[i] = ReadBack(s[g + i]) /\ p[i] = s[g + i]
    BY <1>2, <1>6
  <2>2. page \in [1..k -> Range(page)]
    BY <1>2, <2>1 DEF Range
  <2>3. page \in Seq(Range(page))
    BY <1>5, <2>2, SeqDef
  <2>4. Len(page) = k
    BY <1>5, <2>1, <2>3, LenProperties
  <2>5. \A i \in 1..k : page[i].id = s[g + i].id /\ s[g + i].id \in ID
    BY <1>7, <2>1 DEF ReadBack, Row
  <2>. QED
    BY <2>3, <2>4, <2>5
<1>9. ASSUME NEW m \in 0..k, NEW part \in Seq(Range(page)), Len(part) = m, Take(part),
             \A i \in 1..m : part[i] = page[i], broken => broken', broken' \/ m # 0 \/ l <= g
      PROVE  PageOf(s, m)
  <2>1. m \in Nat /\ \A i \in 1..m : i \in 1..k
    BY <1>5
  <2>. DEFINE new == [i \in DOMAIN part |-> part[i].id]
  <2>a. DOMAIN part = 1..m /\ (part = <<>> <=> m = 0)
    BY <1>9, LenProperties, EmptySeq
  <2>2. new \in Seq(ID) /\ Len(new) = m /\ \A i \in 1..m : new[i] = s[g + i].id
    BY <1>8, <1>9, <2>1, <2>a, SeqDef
  <2>3. got' = got \o new /\ reading' = IF m = 0 THEN "done" ELSE "under way"
    BY <1>9, <2>a DEF Take, ReadPage
  <2>. HIDE DEF new
  <2>4. /\ got' \in Seq(ID) /\ Len(got') = g + m
        /\ \A i \in 1..(g + m) : got'[i] = IF i <= g THEN got[i] ELSE new[i - g]
    BY <1>1, <2>1, <2>2, <2>3, ConcatProperties DEF g
  <2>5. \A i \in 1..g : got'[i] = got[i]
    BY <1>1, <2>1, <2>4
  <2>6. ASSUME NEW i \in 1..m PROVE g + i <= l /\ got'[g + i] = s[g + i].id
    <3>1. g + i \in 1..(g + m) /\ ~(g + i <= g) /\ (g + i) - g = i
      BY <1>1, <2>1
    <3>. QED
      BY <1>4, <1>7, <2>1, <2>2, <2>4, <3>1
  <2>7. m = 0 \/ g + m <= l
    BY <1>1, <1>4, <1>5, <2>1
  <2>. QED
    BY <1>9, <2>1, <2>3, <2>4, <2>5, <2>6, <2>7 DEF PageOf, g, l
<1>10. CASE Take(page) /\ UNCHANGED broken
  BY <1>5, <1>8, <1>9, <1>10
<1>11. ASSUME NEW n \in 0..Len(page) - 1, Take(SubSeq(page, 1, n)), broken' = (broken \/ n = 0)
       PROVE  PageOf(s, n)
  <2>1. n \in 0..k
    BY <1>5, <1>8, <1>11
  <2>2. /\ SubSeq(page, 1, n) \in Seq(Range(page)) /\ Len(SubSeq(page, 1, n)) = n
        /\ \A i \in 1..n : SubSeq(page, 1, n)[i] = page[i]
    BY <1>5, <1>8, <2>1, SubSeqProperties
  <2>. QED
    BY <1>9, <1>11, <2>1, <2>2
<1>. QED
  BY <1>a, <1>5, <1>10, <1>11

(****************************************************************************)
(* The offset                                                               *)
(****************************************************************************)

\* A row that no other one shares its time with is in its place.
LEMMA InPlace ==
    ASSUME ReadInv, NEW s \in Ordered(Rows, Newer), NEW k \in 1..Len(s), Tied(nodes \cup gone, s[k]) = {}
    PROVE  Before(s[k]) = k - 1
<1>1. Len(s) = Cardinality(Rows) /\ s \in Seq(Rows)
  BY RowsTyped, Numbered
<1>2. s[k] \in Rows
  BY <1>1, ElementOfSeq
<1>3. \A r \in Rows : r.claimed = s[k].claimed => r = s[k]
  BY DEF Rows, Selected, Tied
<1>4. Cardinality({r \in Rows : r.claimed > s[k].claimed}) = k - 1
  BY <1>1, <1>3, RowsTyped, PlaceInOrder
<1>. QED
  BY <1>4 DEF Before, Above, Rows

\* What the reader has been given stays, and each page is the rest of an order up to its end.
LEMMA PageKeepsOffset == ASSUME ReadInv, ReadPage PROVE OffsetInv'
<1>. DEFINE g == Len(got)
<1>1. PICK s \in Ordered(Rows, Newer), m \in Nat : PageOf(s, m)
  BY PageTaken
<1>2. /\ Len(s) \in Nat /\ s \in Seq(Rows)
      /\ \A r \in Rows : \E k \in 1..Len(s) : s[k] = r
  BY RowsTyped, Numbered
<1>3. \A k \in 1..Len(s) : s[k] \in Rows
  BY <1>2, ElementOfSeq
<1>4. UNCHANGED <<nodes, lasting, arrived, gone>> /\ reading = "under way"
  BY DEF ReadPage, dbVars
<1>5. g \in Nat /\ DOMAIN got = 1..g /\ DOMAIN got' = 1..(g + m)
  BY <1>1, LenProperties DEF PageOf, ReadInv, TypeOK
<1>a. /\ \A i \in 1..g : got'[i] = got[i]
      /\ \A i \in 1..m : g + i <= Len(s) /\ got'[g + i] = s[g + i].id
  BY <1>1 DEF PageOf
<1>. HIDE DEF g
<1>6. \A i \in 1..(g + m) : i \in 1..g \/ (i > g /\ i - g \in 1..m /\ g + (i - g) = i)
  BY <1>1, <1>5
<1>7. \A i \in 1..(g + m) : i \in 1..g \/ (i > g /\ i \in 1..Len(s) /\ got'[i] = s[i].id)
  <2>1. ASSUME NEW j \in 1..m, NEW i \in Nat, i = g + j
        PROVE  i \in 1..Len(s) /\ got'[i] = s[i].id
    <3>1. g + j <= Len(s) /\ got'[g + j] = s[g + j].id
      BY <1>a
    <3>2. got'[i] = s[i].id /\ i <= Len(s)
      BY <2>1, <3>1
    <3>3. i \in 1..Len(s)
      BY <1>2, <1>5, <2>1, <3>2
    <3>. QED
      BY <3>2, <3>3
  <2>2. ASSUME NEW i \in 1..(g + m), ~(i \in 1..g)
        PROVE  i > g /\ i \in 1..Len(s) /\ got'[i] = s[i].id
    <3>1. i > g /\ i - g \in 1..m /\ i = g + (i - g) /\ i \in Nat
      BY <1>5, <1>6, <2>2
    <3>. QED
      BY <2>1, <3>1
  <2>. QED
    BY <2>2
<1>8. \A i \in 1..g : i \in 1..(g + m) /\ got'[i] = got[i]
  BY <1>5, <1>a
<1>9. ASSUME NEW n \in Selected(lasting, Question) PROVE Ahead(n)'
  <2>. SUFFICES ASSUME Tied(nodes \cup gone, n) = {}, Above(gone, n) = {}, ~broken',
                       \A i \in 1..(g + m) : got'[i] # n.id
                PROVE  reading' = "under way" /\ g + m <= Before(n)
    BY <1>1, <1>4, <1>5 DEF Ahead, PageOf, Before, Above, Tied, g
  <2>1. ~broken /\ \A i \in 1..g : got[i] # n.id
    BY <1>1, <1>8 DEF PageOf
  <2>2. g <= Before(n)
    <3>1. Ahead(n)
      BY <1>4, <1>9 DEF ReadInv, OffsetInv
    <3>. QED
      BY <1>5, <2>1, <3>1 DEF Ahead, g
  <2>3. n \in Rows
    BY DEF ReadInv, TypeOK, Rows, Selected
  <2>4. PICK k \in 1..Len(s) : s[k] = n
    BY <1>2, <2>3
  <2>5. Before(n) = k - 1
    BY <2>4, InPlace
  <2>6. ~(k \in 1..(g + m))
    <3>1. k \in Nat /\ ~(k \in 1..g)
      BY <1>2, <1>5, <2>2, <2>5
    <3>. QED
      BY <1>7, <2>4, <3>1
  <2>7. g + m <= Before(n) /\ ~(Len(s) <= g)
    BY <1>1, <1>2, <1>5, <2>2, <2>5, <2>6
  <2>. QED
    <3>1. m # 0
      BY <1>1, <2>7 DEF PageOf, g
    <3>. QED
      BY <1>1, <2>7, <3>1 DEF PageOf
<1>10. ASSUME NEW i \in 1..(g + m) PROVE Behind(i)'
  <2>1. CASE i \in 1..g
    <3>1. Behind(i) /\ got'[i] = got[i]
      BY <1>5, <1>8, <2>1 DEF ReadInv, OffsetInv
    <3>. QED
      BY <1>4, <3>1 DEF Behind, Above, Tied, Before
  <2>2. CASE i \in 1..Len(s) /\ got'[i] = s[i].id
    <3>1. s[i] \in Selected(nodes \cup gone, Question)
      BY <1>3, <2>2 DEF Rows, Selected
    <3>2. Tied(nodes \cup gone, s[i]) # {} \/ Before(s[i]) < i
      <4>1. Tied(nodes \cup gone, s[i]) = {} => Before(s[i]) = i - 1
        BY <2>2, InPlace
      <4>. QED
        <5>1. i \in Nat /\ i - 1 < i
          BY <1>5
        <5>. QED
          BY <4>1, <5>1
    <3>. QED
      BY <1>4, <2>2, <3>1, <3>2 DEF Behind, Above, Tied, Before
  <2>. QED
    BY <1>7, <2>1, <2>2
<1>11. ASSUME NEW i \in 1..(g + m), NEW j \in 1..(g + m), i < j, got'[i] = got'[j]
       PROVE  \E n \in nodes \cup gone :
                  n.id = got'[i] /\ (Above(arrived, n) # {} \/ Tied(nodes \cup gone, n) # {})
  <2>1. CASE j \in 1..g
    <3>1. i \in 1..g
      BY <1>5, <1>11, <2>1
    <3>2. got[i] = got[j] /\ got'[i] = got[i]
      BY <1>8, <1>11, <2>1, <3>1
    <3>. QED
      BY <1>5, <1>11, <2>1, <3>1, <3>2 DEF ReadInv, OffsetInv, NothingRepeated
  <2>2. CASE j \in 1..Len(s) /\ got'[j] = s[j].id
    <3>1. PICK n \in Selected(nodes \cup gone, Question) :
              /\ n.id = got'[i]
              /\ Above(arrived, n) # {} \/ Tied(nodes \cup gone, n) # {} \/ Before(n) < i
      BY <1>4, <1>10 DEF Behind, Above, Tied, Before
    <3>2. n \in nodes \cup gone
      BY DEF Selected
    <3>3. s[j] \in Selected(nodes \cup gone, Question) /\ s[j] \in nodes \cup gone
      BY <1>3, <2>2 DEF Rows, Selected
    <3>4. CASE n = s[j]
      <4>1. Tied(nodes \cup gone, n) = {} => Before(n) = j - 1
        BY <2>2, <3>4, InPlace
      <4>2. ~(Before(n) < i) \/ Tied(nodes \cup gone, n) # {}
        <5>1. i \in Nat /\ j \in Nat /\ i < j
          BY <1>5, <1>11
        <5>2. ~(j - 1 < i)
          BY <5>1
        <5>. QED
          BY <4>1, <5>2
      <4>. QED
        BY <3>1, <3>2, <4>2
    <3>5. CASE n # s[j]
      <4>1. SignedRow(n) /\ SignedRow(s[j]) /\ n.id = s[j].id
        <5>1. \A r \in nodes \cup gone : SignedRow(r)
          BY DEF ReadInv, OffsetInv
        <5>2. n.id = s[j].id
          BY <1>11, <2>2, <3>1
        <5>. QED
          BY <3>2, <3>3, <5>1, <5>2
      <4>2. n.sig = s[j].sig
        <5>1. /\ SigHash[n.sig] \in Hash /\ SigHash[s[j].sig] \in Hash
              /\ n.sig \in Sig /\ s[j].sig \in Sig
          BY <4>1, SignatureAssumption, DigestAssumption DEF SignedRow
        <5>2. UUID[SigHash[n.sig]] = UUID[SigHash[s[j].sig]]
          BY <4>1 DEF SignedRow
        <5>. QED
          BY <5>1, <5>2, DigestAssumption
      <4>3. s[j] \in Tied(nodes \cup gone, n)
        BY <3>3, <3>5, <4>1, <4>2 DEF Tied, SignedRow, Selected
      <4>. QED
        BY <3>1, <3>2, <4>3
    <3>. QED
      BY <3>4, <3>5
  <2>. QED
    BY <1>7, <2>1, <2>2
<1>12. NothingRepeated'
  BY <1>4, <1>5, <1>11 DEF NothingRepeated, Above, Tied
<1>13. reading' # "before"
  BY <1>1 DEF PageOf
<1>. QED
  BY <1>4, <1>5, <1>9, <1>10, <1>12, <1>13 DEF OffsetInv, ReadInv

\* Whatever is stored or deleted meanwhile: a row that was before the offset still is, and one
\* behind it too, or else something newer has come or gone.
LEMMA ChangeKeepsOffset ==
    ASSUME ReadInv, Remember, IsFiniteSet(nodes'), \A n \in nodes' \cup nodes : SignedRow(n)
    PROVE  OffsetInv'
<1>1. CASE reading = "before"
  <2>1. got = <<>> /\ lasting = {} /\ gone = {} /\ arrived = {}
    BY <1>1 DEF ReadInv, OffsetInv
  <2>2. /\ reading' = "before" /\ got' = <<>>
        /\ lasting' = {} /\ gone' = {} /\ arrived' = {}
    BY <1>1, <2>1 DEF Remember
  <2>. QED
    BY <2>2 DEF OffsetInv, NothingRepeated
<1>2. CASE reading # "before"
  <2>1. /\ lasting' \subseteq lasting /\ gone' = gone \cup (nodes \ nodes')
        /\ arrived' = arrived \cup (nodes' \ nodes) /\ UNCHANGED <<reading, got, broken>>
    BY <1>2 DEF Remember
  <2>2. /\ nodes \cup gone \subseteq nodes' \cup gone'
        /\ \A n \in nodes' \cup gone' : SignedRow(n)
    BY <2>1 DEF ReadInv, OffsetInv
  <2>3. \A n : /\ Above(gone, n) \subseteq Above(gone', n)
              /\ Above(arrived, n) \subseteq Above(arrived', n)
              /\ Tied(nodes \cup gone, n) \subseteq Tied(nodes' \cup gone', n)
    BY <2>1, <2>2 DEF Above, Tied, Selected
  <2>5. ASSUME NEW n
        PROVE  /\ Before(n) \in Nat /\ Before(n)' \in Nat
               /\ Before(n) <= Before(n)' \/ Above(gone', n) # {}
               /\ Before(n)' <= Before(n) \/ Above(arrived', n) # {}
    <3>1. Above(nodes, n) \subseteq nodes /\ Above(nodes', n) \subseteq nodes'
      BY DEF Above, Selected
    <3>2. IsFiniteSet(Above(nodes, n)) /\ IsFiniteSet(Above(nodes', n))
      BY <3>1, FS_Subset DEF ReadInv
    <3>3. /\ Above(nodes, n) \subseteq Above(nodes', n) => Before(n) <= Before(n)'
          /\ Above(nodes', n) \subseteq Above(nodes, n) => Before(n)' <= Before(n)
      BY <3>2, FS_Subset DEF Before
    <3>4. Before(n) \in Nat /\ Before(n)' \in Nat
      BY <3>2, FS_CardinalityType DEF Before
    <3>5. /\ Above(nodes, n) \subseteq Above(nodes', n) \/ Above(gone', n) # {}
          /\ Above(nodes', n) \subseteq Above(nodes, n) \/ Above(arrived', n) # {}
      BY <2>1 DEF Above, Selected
    <3>6. /\ Before(n) <= Before(n)' \/ Above(gone', n) # {}
          /\ Before(n)' <= Before(n) \/ Above(arrived', n) # {}
      BY <3>3, <3>5
    <3>. QED
      BY <3>4, <3>6
  <2>6. ASSUME NEW n \in Selected(lasting', Question) PROVE Ahead(n)'
    <3>1. n \in Selected(lasting, Question)
      BY <2>1 DEF Selected
    <3>2. Ahead(n)
      BY <1>2, <3>1 DEF ReadInv, OffsetInv
    <3>3. Len(got) \in Nat
      BY LenProperties DEF ReadInv, TypeOK
    <3>4. Len(got) <= Before(n) => Len(got) <= Before(n)' \/ Above(gone', n) # {}
      BY <2>5, <3>3
    <3>. QED
      BY <2>1, <2>3, <3>2, <3>4 DEF Ahead
  <2>7. ASSUME NEW i \in DOMAIN got PROVE Behind(i)'
    <3>1. PICK n \in Selected(nodes \cup gone, Question) :
              /\ n.id = got[i]
              /\ Above(arrived, n) # {} \/ Tied(nodes \cup gone, n) # {} \/ Before(n) < i
      BY DEF ReadInv, OffsetInv, Behind
    <3>2. n \in Selected(nodes' \cup gone', Question)
      BY <2>2 DEF Selected
    <3>3. i \in Nat
      <4>1. Len(got) \in Nat /\ DOMAIN got = 1..Len(got)
        BY LenProperties DEF ReadInv, TypeOK
      <4>. QED
        BY <2>7, <4>1
    <3>4. Before(n) < i => Before(n)' < i \/ Above(arrived', n) # {}
      BY <2>5, <3>3
    <3>5. Above(arrived', n) # {} \/ Tied(nodes' \cup gone', n) # {} \/ Before(n)' < i
      BY <2>3, <3>1, <3>4
    <3>. QED
      <4>1. n.id = got'[i]
        BY <2>1, <3>1
      <4>2. n \in Selected(nodes' \cup gone', Question) /\ n.id = got'[i]
            /\ (Above(arrived', n) # {} \/ Tied(nodes' \cup gone', n) # {} \/ Before(n)' < i)
        BY <3>2, <3>5, <4>1
      <4>. QED
        BY <4>2 DEF Behind
  <2>8. NothingRepeated'
    <3>1. ASSUME NEW i \in DOMAIN got, NEW j \in DOMAIN got, i < j, got[i] = got[j]
          PROVE  \E n \in nodes' \cup gone' :
                     n.id = got[i] /\ (Above(arrived', n) # {} \/ Tied(nodes' \cup gone', n) # {})
      <4>1. NothingRepeated
        BY DEF ReadInv, OffsetInv
      <4>2. PICK n \in nodes \cup gone :
                n.id = got[i] /\ (Above(arrived, n) # {} \/ Tied(nodes \cup gone, n) # {})
        BY <3>1, <4>1 DEF NothingRepeated
      <4>3. Above(arrived', n) # {} \/ Tied(nodes' \cup gone', n) # {}
        BY <2>3, <4>2
      <4>. QED
        BY <2>2, <4>2, <4>3
    <3>2. got' = got
      BY <2>1
    <3>. QED
      BY <3>1, <3>2 DEF NothingRepeated
  <2>. QED
    BY <1>2, <2>1, <2>2, <2>6, <2>7, <2>8 DEF OffsetInv
<1>. QED
  BY <1>1, <1>2

(****************************************************************************)
(* The tables                                                               *)
(****************************************************************************)

\* A statement that fails is counted within its bound.
LEMMA FaultTypes ==
    ASSUME DatabaseTypeOK, Fault \/ UNCHANGED faults
    PROVE  faults' \in 0..MaxFaults
BY TimeAssumption DEF DatabaseTypeOK, Fault

\* A moderator's call deletes nodes, or none, and leaves every table in its type.
LEMMA ModerationDeletes ==
    ASSUME DatabaseTypeOK, ModerationTypeOK, ModerationStep
    PROVE  DatabaseTypeOK' /\ ModerationTypeOK' /\ nodes' \subseteq nodes
<1>. USE DEF DatabaseTypeOK, ModerationTypeOK, moderationVars
<1>1. CASE \E k \in Key : BanUser(k) \/ UnbanUser(k) \/ AddToWhitelist(k) \/ RemoveFromWhitelist(k)
  BY <1>1 DEF BanUser, UnbanUser, AddToWhitelist, RemoveFromWhitelist
<1>2. CASE \E w \in Word : BanWord(w) \/ UnbanWord(w)
  BY <1>2 DEF BanWord, UnbanWord
<1>3. ASSUME NEW rows \in SUBSET nodes, DeleteRows(rows)
      PROVE  nodes' \subseteq nodes /\ removed' \subseteq ID
  BY <1>3 DEF DeleteRows, Row
<1>4. ASSUME NEW id \in IDs, DeleteNode(id)
      PROVE  DatabaseTypeOK' /\ ModerationTypeOK' /\ nodes' \subseteq nodes
  <2>1. DeleteRows({n \in nodes : n.id = id})
    BY <1>4 DEF DeleteNode
  <2>2. nodes' \subseteq nodes /\ removed' \subseteq ID
    BY <1>3, <2>1
  <2>. QED
    BY <1>4, <2>2 DEF DeleteNode
<1>5. ASSUME NEW h \in Hash, RecordBan(h) \/ RemoveBannedHash(h)
      PROVE  DatabaseTypeOK' /\ ModerationTypeOK' /\ nodes' \subseteq nodes
  <2>1. faults' \in 0..MaxFaults
    BY <1>5, FaultTypes DEF RecordBan, RemoveBannedHash
  <2>. QED
    BY <1>5, <2>1 DEF RecordBan, RemoveBannedHash
<1>6. ASSUME NEW h \in Hash, Purge(h)
      PROVE  DatabaseTypeOK' /\ ModerationTypeOK' /\ nodes' \subseteq nodes
  <2>1. faults' \in 0..MaxFaults
    BY <1>6, FaultTypes DEF Purge
  <2>2. StoredWith(h) \in SUBSET nodes
    BY DEF StoredWith
  <2>3. nodes' \subseteq nodes /\ removed' \subseteq ID
    BY <1>3, <1>6, <2>2 DEF Purge
  <2>. QED
    BY <1>6, <2>1, <2>3 DEF Purge
<1>. QED
  BY <1>1, <1>2, <1>4, <1>5, <1>6 DEF ModerationStep

\* The rows the history holds are rows that were there.
LEMMA RememberTypes ==
    ASSUME TypeOK, Remember, nodes' \subseteq Row
    PROVE  /\ reading' \in {"before", "under way", "done"} /\ got' \in Seq(ID)
           /\ lasting' \subseteq nodes' /\ arrived' \subseteq Row /\ gone' \subseteq Row
           /\ broken' \in BOOLEAN
<1>1. reading' \in {"before", "under way", "done"} /\ got' \in Seq(ID) /\ broken' \in BOOLEAN
  BY DEF TypeOK, Remember
<1>2. nodes \subseteq Row /\ arrived \subseteq Row /\ gone \subseteq Row
  BY DEF TypeOK, DatabaseTypeOK
<1>3. lasting' \subseteq nodes' /\ arrived' \subseteq Row /\ gone' \subseteq Row
  BY <1>2 DEF Remember
<1>. QED
  BY <1>1, <1>3

LEMMA ReadInvInit == Init => ReadInv
<1>. SUFFICES ASSUME Init PROVE ReadInv
  OBVIOUS
<1>1. broken \in BOOLEAN /\ got \in Seq(ID) /\ DOMAIN got = {}
  <2>1. broken = FALSE /\ got = <<>>
    BY DEF Init
  <2>2. broken \in BOOLEAN
    BY <2>1
  <2>. QED
    BY <2>1, <2>2
<1>2. DatabaseTypeOK /\ ModerationTypeOK
  BY TimeAssumption DEF Init, DatabaseInit, ModerationInit, DatabaseTypeOK, ModerationTypeOK
<1>3. TypeOK
  BY <1>1, <1>2 DEF Init, TypeOK
<1>4. IsFiniteSet(nodes)
  BY FS_EmptySet DEF Init, DatabaseInit
<1>5. OffsetInv
  BY <1>1 DEF Init, DatabaseInit, OffsetInv, NothingRepeated
<1>. QED
  BY <1>3, <1>4, <1>5 DEF ReadInv

LEMMA ReadInvStep == ReadInv /\ [Next]_vars => ReadInv'
<1>. SUFFICES ASSUME ReadInv, [Next]_vars PROVE ReadInv'
  OBVIOUS
<1>0. /\ TypeOK /\ DatabaseTypeOK /\ ModerationTypeOK /\ IsFiniteSet(nodes) /\ OffsetInv
      /\ \A n \in nodes : SignedRow(n)
  BY DEF ReadInv, TypeOK, OffsetInv
<1>1. CASE Begin
  <2>1. UNCHANGED <<clock, faults, dbVars, moderationVars, got, arrived, gone, broken>>
    BY <1>1 DEF Begin
  <2>2. TypeOK'
    BY <1>0, <1>1, <2>1 DEF Begin, TypeOK, DatabaseTypeOK, ModerationTypeOK, dbVars, moderationVars
  <2>3. got = <<>> /\ gone = {} /\ arrived = {}
    BY <1>0, <1>1 DEF Begin, OffsetInv
  <2>4. ASSUME NEW n \in Selected(lasting', Question) PROVE Ahead(n)'
    <3>1. Above(nodes', n) \in SUBSET nodes'
      BY DEF Above, Selected
    <3>2. Before(n)' \in Nat
      BY <1>0, <2>1, <3>1, FS_Subset, FS_CardinalityType DEF Before, dbVars
    <3>3. Len(got') = 0
      BY <2>1, <2>3, EmptySeq
    <3>. QED
      <4>1. Len(got') <= Before(n)'
        BY <3>2, <3>3
      <4>. QED
        BY <1>1, <4>1 DEF Ahead, Begin
  <2>5. OffsetInv'
    <3>1. DOMAIN got' = {} /\ nodes' = nodes /\ gone' = {} /\ reading' = "under way"
      <4>1. got' = <<>> /\ nodes' = nodes /\ gone' = {} /\ reading' = "under way"
        BY <1>1, <2>1, <2>3 DEF Begin, dbVars
      <4>2. \A q : q = <<>> => DOMAIN q = {}
        OBVIOUS
      <4>. QED
        BY <4>1, <4>2, Zenon
    <3>2. \A n \in nodes' \cup gone' : SignedRow(n)
      BY <1>0, <3>1
    <3>3. NothingRepeated' /\ \A i \in DOMAIN got' : Behind(i)'
      BY <3>1 DEF NothingRepeated
    <3>. QED
      BY <2>4, <3>1, <3>2, <3>3 DEF OffsetInv
  <2>. QED
    BY <1>0, <2>1, <2>2, <2>5 DEF ReadInv, dbVars
<1>2. CASE ReadPage
  <2>1. UNCHANGED <<clock, dbVars, moderationVars, lasting, arrived, gone>>
    BY <1>2 DEF ReadPage
  <2>2. PICK s \in Ordered(Rows, Newer), m \in Nat : PageOf(s, m)
    BY <1>2, PageTaken
  <2>3. got' \in Seq(ID) /\ reading' \in {"before", "under way", "done"}
    BY <2>2 DEF PageOf
  <2>4. broken' \in BOOLEAN /\ (Fault \/ UNCHANGED faults)
    BY <1>0, <1>2 DEF ReadPage, TypeOK
  <2>5. faults' \in 0..MaxFaults
    BY <1>0, <2>4, FaultTypes
  <2>6. TypeOK'
    BY <1>0, <2>1, <2>3, <2>4, <2>5
    DEF TypeOK, DatabaseTypeOK, ModerationTypeOK, dbVars, moderationVars
  <2>. QED
    BY <1>0, <1>2, <2>1, <2>6, PageKeepsOffset DEF ReadInv, dbVars
<1>3. CASE Store
  <2>1. PICK d \in Arrivals : InsertNode(d, NodeID(d))
    BY <1>3 DEF Store
  <2>. DEFINE row == NodeRow(d, NodeID(d), clock)
  <2>2. d \in Document /\ VerifySignature(d)
    BY PagingAssumption
  <2>3. row \in Row
    <3>1. NodeID(d) \in ID /\ clock \in Nat
      BY <1>0, <2>2, DigestAssumption, TimeAssumption DEF NodeID, Document, DatabaseTypeOK
    <3>. QED
      BY <2>2, <3>1 DEF NodeRow, Row, Document
  <2>4. SignedRow(row)
    BY <2>2 DEF SignedRow, NodeRow, NodeID, VerifySignature, CanonicalMessage
  <2>5. nodes' = nodes \cup {row}
    BY <2>1 DEF InsertNode
  <2>. HIDE DEF row
  <2>6. IsFiniteSet(nodes')
    BY <1>0, <2>5, FS_AddElement
  <2>7. nodes' \subseteq Row /\ \A n \in nodes' : SignedRow(n)
    BY <1>0, <2>3, <2>4, <2>5 DEF DatabaseTypeOK
  <2>8. Remember
    BY <1>3 DEF Store
  <2>9. DatabaseTypeOK' /\ ModerationTypeOK'
    BY <1>0, <1>3, <2>7 DEF Store, DatabaseTypeOK, ModerationTypeOK, moderationVars
  <2>10. TypeOK'
    BY <1>0, <2>7, <2>8, <2>9, RememberTypes DEF TypeOK
  <2>. QED
    BY <1>0, <2>6, <2>7, <2>8, <2>10, ChangeKeepsOffset DEF ReadInv
<1>4. CASE Moderate
  <2>1. DatabaseTypeOK' /\ ModerationTypeOK' /\ nodes' \subseteq nodes /\ Remember
    BY <1>0, <1>4, ModerationDeletes DEF Moderate
  <2>2. nodes' \subseteq Row /\ IsFiniteSet(nodes')
    BY <1>0, <2>1, FS_Subset DEF DatabaseTypeOK
  <2>3. TypeOK'
    BY <1>0, <2>1, <2>2, RememberTypes DEF TypeOK
  <2>. QED
    BY <1>0, <2>1, <2>2, <2>3, ChangeKeepsOffset DEF ReadInv
<1>5. CASE UNCHANGED vars
  <2>1. UNCHANGED <<clock, faults, nodes, used_nonces, banned_users, banned_words, banned_hashes,
                    whitelist, purging, removed, reading, got, lasting, arrived, gone, broken>>
    BY <1>5 DEF vars, dbVars, moderationVars, readerVars
  <2>2. TypeOK'
    BY <1>0, <2>1 DEF TypeOK, DatabaseTypeOK, ModerationTypeOK
  <2>3. OffsetInv'
    <3>1. \A n : Ahead(n)' <=> Ahead(n)
      BY <2>1 DEF Ahead, Above, Tied, Before
    <3>2. \A i : Behind(i)' <=> Behind(i)
      BY <2>1 DEF Behind, Above, Tied, Before
    <3>3. NothingRepeated' <=> NothingRepeated
      BY <2>1 DEF NothingRepeated, Above, Tied
    <3>. QED
      BY <1>0, <2>1, <3>1, <3>2, <3>3 DEF OffsetInv
  <2>. QED
    BY <1>0, <2>1, <2>2, <2>3 DEF ReadInv
<1>. QED
  BY <1>1, <1>2, <1>3, <1>4, <1>5 DEF Next

LEMMA ReadInvHolds == Spec => []ReadInv
BY ReadInvInit, ReadInvStep, PTL DEF Spec

\* The variables stay in their types: what the reader has are IDs of nodes.
THEOREM PagingTypeCorrect == Spec => []TypeOK
<1>1. ReadInv => TypeOK
  BY DEF ReadInv
<1>. QED
  BY <1>1, ReadInvHolds, PTL

\* Nothing that lasts is overlooked but by a deletion above it, a tie, or a page lost at its
\* first row: whatever else is stored or deleted, and wherever pages break off.
THEOREM NothingOverlookedHolds == Spec => []NothingOverlooked
<1>1. ReadInv => NothingOverlooked
  BY DEF ReadInv, OffsetInv, Ahead, NothingOverlooked
<1>. QED
  BY <1>1, ReadInvHolds, PTL

\* Nothing is read twice unless something newer was stored meanwhile, or there was a tie.
THEOREM NothingRepeatedHolds == Spec => []NothingRepeated
<1>1. ReadInv => NothingRepeated
  BY DEF ReadInv, OffsetInv
<1>. QED
  BY <1>1, ReadInvHolds, PTL
=============================================================================
