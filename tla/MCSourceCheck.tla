--------------------------- MODULE MCSourceCheck ---------------------------
(***************************************************************************)
(* A small instance of SourceCheck: more hosts than the cache has room     *)
(* for, so that a lookup evicts what another is about to read.             *)
(***************************************************************************)
EXTENDS SourceCheck

CONSTANTS h1, h2, h3, c1, c2, c3

MCCallers == {c1, c2, c3}
MCHosts ==  {h1, h2, h3}

Public  == {}
Private == {"private", "blocked_cidr"}

\* A host whose answer turns bad, one with two addresses, one with
\* nothing to offer.
MCDNS == [h \in MCHosts |->
            CASE h = h1 -> { <<Public>>, <<Public, Private>> }
              [] h = h2 -> { <<Public, Public>> }
              [] h = h3 -> { <<>> }]

Get(h) == [scheme |-> "https", host |-> h, port |-> "none"]

AnyList ==
    { <<Get(h1)>>, <<Get(h2), Get(h1)>>, <<Get(h3)>>,
      <<>>,
      <<[Get(h1) EXCEPT !.scheme = "other"]>>,
      <<[Get(h1) EXCEPT !.host = None]>>,
      <<[Get(h1) EXCEPT !.port = "denied"]>> }

\* The third request joins the others at h1.
MCLists == [c \in MCCallers |-> IF c = c3 THEN {<<Get(h1)>>} ELSE AnyList]

=============================================================================
