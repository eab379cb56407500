----------------------------- MODULE MCListing ------------------------------
(* Instances of Listing.  Names are words over two letters, so that one name *)
(* can be a textual prefix of another.                                       *)
EXTENDS Listing

A == <<"a">>
AB == <<"a", "b">>
Bad == <<"b", "b">>
Link == <<"b">>

MCBase == <<A>>
MCCwd == <<AB>>
MCBadNames == {Bad}
MCOutLinks == {Link}
MCUnlimited == 9

MCEntries == {<<A>>, <<AB>>, <<A, A>>, <<AB, A>>, <<Bad>>, <<Link>>, <<Link, A>>}
MCTrees ==
    {{<<A>>, <<A, A>>, <<Bad>>, <<Link>>, <<Link, A>>}, {<<A>>, <<AB>>, <<A, A>>, <<AB, A>>}, {}}

NoFilter == [kind |-> "none", prefix |-> <<>>]
Subtree(p) == [kind |-> "subtree", prefix |-> p]
Literal(p) == [kind |-> "literal", prefix |-> p]

Absolute == [absolute |-> TRUE, components |-> MCBase]
Relative == [absolute |-> FALSE, components |-> MCBase]

\* Every kind of request of both scopes.
MCRequests ==
    [scope : {"Host", "Rooted"}, path : {Absolute, Relative, None},
     filter : {NoFilter, Subtree(<<A>>), Subtree(<<A, A>>), Literal(<<A>>)},
     recursive : BOOLEAN, depth : {1, 2}, entries : {0, 1, MCUnlimited},
     symlinks : {"Default", "Reject", "Follow", "Unsupported"}]

MCCeilings == [depth : {1, MCUnlimited}, entries : {2, MCUnlimited}]

\* Other programs change the tree during some of the requests, on the names
\* below which nothing is special.
ChurnEntries == {<<A>>, <<AB>>, <<A, A>>, <<AB, A>>}
ChurnRequests ==
    [scope : {"Rooted"}, path : {Relative}, filter : {NoFilter, Subtree(<<A>>)},
     recursive : BOOLEAN, depth : {2}, entries : {1, MCUnlimited},
     symlinks : {"Default"}]

MCNext ==
    \/ \E r \in Requests : List(r)
    \/ Ask
    \/ Close
    \/ Step
    \/ /\ Churn
       /\ request \in ChurnRequests /\ ceiling.entries # MCUnlimited
       /\ present \cup present' \subseteq ChurnEntries
MCSpec == Init /\ [][MCNext]_vars /\ WF_vars(Step)
=============================================================================
