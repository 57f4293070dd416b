-------------------------------- MODULE Walks --------------------------------
(***************************************************************************)
(* What a loop along the links of a list meets: the live cells from the    *)
(* first on, each once, up to NULL, a freed cell, or a cell met before.    *)
(***************************************************************************)
EXTENDS Naturals, Sequences, FiniteSets

\* The cells met so far, and where the loop goes from there.
Met(list) == {list[i] : i \in DOMAIN list}
Following(start, link, list) == IF list = <<>> THEN start ELSE link[list[Len(list)]]

\* Each cell is where the one before it points, and the loop cannot go on.
IsWalk(start, link, live, list) ==
  /\ \A i \in DOMAIN list : list[i] = IF i = 1 THEN start ELSE link[list[i - 1]]
  /\ \A i, j \in DOMAIN list : list[i] = list[j] => i = j
  /\ Following(start, link, list) \notin live \ Met(list)

Walk(start, link, live) ==
  CHOOSE list \in UNION {[1 .. n -> live] : n \in 0 .. Cardinality(live)} :
    IsWalk(start, link, live, list)
=============================================================================
