----------------------------- MODULE MCCertChain -----------------------------
(* Small chains of certificates. *)
EXTENDS CertChain

\* Chains of one to three certificates below the trusted ones, and one that nobody issued.
Items == {NoExt, <<>>, <<[tag |-> 1, name |-> "d"]>>, <<[tag |-> 2, name |-> "d"]>>,
          <<[tag |-> 3, name |-> "d"], [tag |-> 1, name |-> "e"]>>,
          <<[tag |-> 1, name |-> "d"], [tag |-> 2, name |-> "d"]>>}
MCWorlds ==
    {[certs |-> c, trusteds |-> t, raw |-> r,
      issuers |-> [c1 |-> {"root", "c1"}, c2 |-> {"c1", "other"}, c3 |-> {"c2"}, root |-> {"root"}, other |-> {}]] :
        c \in {<<"c1">>, <<"c2">>, <<"c2", "c1">>, <<"c3", "c1", "c2">>}, t \in {<<"root">>, <<"other", "root">>},
        r \in {[other |-> NoExt, root |-> x, c1 |-> y, c2 |-> z, c3 |-> w] : x, y, z, w \in Items}}
=============================================================================
