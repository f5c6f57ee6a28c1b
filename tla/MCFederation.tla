---------------------------- MODULE MCFederation ----------------------------
(* Small instances of Federation, with the documents of MCServer. *)
EXTENDS MCServer, Federation

Sent(doc) == [doc |-> doc, id |-> NodeID(doc)]
\* a peer of another implementation, which names its nodes at random
Renamed(doc, as) == [doc |-> doc, id |-> NodeID(as)]
\* somebody has changed the author's words
Altered == [Root EXCEPT !.body = {}]
\* and has brought it to another network
Abroad == [Root EXCEPT !.network = elsewhere]

Mixed == {<<Sent(Reply1), Sent(Root)>>, <<Sent(Altered), Sent(Abroad), Sent(Root)>>,
          <<Renamed(Root, Reply1)>>}
\* a peer that runs this program and has Root in its table
FromTable == SyncAnswers({NodeRow(Root, NodeID(Root), 0)}, -1, 50)
Roots == {Root}
=============================================================================
