------------------------------ MODULE MCPaging ------------------------------
(* Small instances of Paging: a few posts, two of them of one time. *)
EXTENDS Paging

CONSTANTS ann, bob, n1, home

MCHash == {<<"sha256", s>> : s \in Sig}
MCSigHash == [s \in Sig |-> <<"sha256", s>>]
MCID == {<<"uuid", s>> : s \in Sig}
MCUUID == [h \in MCHash |-> <<"uuid", h[2]>>]

Post(sig, claimed, author) ==
    [author |-> author, nonce |-> n1, network |-> home, body |-> {}, claimed |-> claimed,
     parent |-> NoParent, sig |-> sig]

Posts == {Post("old", 1, ann), Post("new", 3, ann), Post("twin", 3, ann), Post("other", 2, bob)}
MCSignedFields == [s \in Sig |-> CanonicalMessage(CHOOSE d \in Posts : d.sig = s)]

OfAnn == [ids |-> {}, authors |-> {ann}, tags |-> {}]
=============================================================================
