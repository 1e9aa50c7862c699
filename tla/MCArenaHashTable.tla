-------------------------- MODULE MCArenaHashTable --------------------------
(***************************************************************************)
(* Three keys, one of them EMPTY_KEY, and every hash of them.  A table     *)
(* asked for two or three entries has four slots: the second fills up to   *)
(* its limit, the first beyond it, and probes go around the end.           *)
(***************************************************************************)
EXTENDS ArenaHashTable

Row(k, v) == [key |-> k, val |-> v]

MCKey == {1, 2, 9}

Passing == {Row(k, 3) : k \in MCKey}

Tables ==
    {<<b>> : b \in [1 .. 3 -> Passing]}
      \cup {<<<<r, Row(1, 0)>>, b>> :
               r \in Passing, b \in [1 .. 2 -> Passing] \cup {<<>>}}
=============================================================================
