----------------------------- MODULE MCFrontend -----------------------------
EXTENDS Frontend
\* The home page, another spelling of a member in a link of another version,
\* a link that is redirected, a member and a bundle that do not exist and a path that is no name.
H(path, q) == [path |-> path, query |-> q]
V(v) == [p \in {"v"} |-> v]
MCHashes ==
  {EmptyHash, H(<<"b", "da", "m%31", "overview">>, [v |-> "2", view |-> "v1", path |-> "07"]),
   H(<<"b", "db">>, V("2")), H(<<"b", "da", "m2">>, V("1")), H(<<"b", "dc">>, V("1")),
   H(<<"b", "da", "?!">>, V("1"))}
MCMembers ==
  [da |-> <<[id |-> "m1", kind |-> "rf"]>>, dc |-> <<>>,
   db |-> <<[id |-> "m2", kind |-> "other"], [id |-> "m1", kind |-> "rf"]>>]
MCPanelsOf == [rf |-> <<"overview", "p2">>, other |-> <<>>]
MCSpelled == [x \in {"m%31"} |-> "m1"]
=============================================================================
