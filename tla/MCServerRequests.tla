-------------------------- MODULE MCServerRequests --------------------------
(***************************************************************************)
(* Instances of ServerRequests for TLC.                                    *)
(***************************************************************************)
EXTENDS ServerRequests

Paths == <<"eager", "rndv", "empty">>
Names == <<"mono", "trans", "keep", Unregistered, Malformed>>

Rank(r) ==
    CHOOSE k \in 4..18 : \E p \in 1..3, f \in 1..5 :
        r.path = Paths[p] /\ r.fn = Names[f] /\ k = p + 3 * f

\* Every action and property treats the requests alike, and the ids, and req
\* never changes, so the behaviours of two requests in one order and under one
\* naming of their ids stand for all.
FirstMsg == CHOOSE m \in Msgs : TRUE
FirstId == CHOOSE i \in Ids : TRUE

OneOrder ==
    \A m \in Msgs :
      /\ Rank(req[FirstMsg]) <= Rank(req[m])
      /\ req[m].id # FirstId => m # FirstMsg /\ req[FirstMsg].fn = "keep"

InitOneOrder == Init /\ OneOrder

SpecOneOrder == InitOneOrder /\ [][Next]_vars /\ Fairness

=============================================================================
