------------------------------- MODULE Mirror -------------------------------
(***************************************************************************)
(* What the download pipeline promises its readers: data/ is a mirror that *)
(* lags behind the servers and only ever grows, one month file at a time.  *)
(* A file holds nothing the server does not have, nothing of another       *)
(* month, and a reader never finds it half-written or smaller than before. *)
(***************************************************************************)
CONSTANTS Table, Month, Row,
          RowsOf      \* RowsOf[m]: the rows a file of month m may hold

VARIABLES upstream,   \* upstream[t]: the rows the server has
          mirror      \* mirror[t][m]: the rows of data/<m>/<t>.parquet

Init ==
  /\ upstream = [t \in Table |-> {}]
  /\ mirror = [t \in Table |-> [m \in Month |-> {}]]

Grow(t, r) ==
  /\ upstream' = [upstream EXCEPT ![t] = @ \cup {r}]
  /\ UNCHANGED mirror

Sync(t, m) ==
  /\ \E S \in SUBSET (upstream[t] \cap RowsOf[m]) :
       mirror' = [mirror EXCEPT ![t][m] = @ \cup S]
  /\ UNCHANGED upstream

Next == \E t \in Table :
          \/ \E r \in Row : Grow(t, r)
          \/ \E m \in Month : Sync(t, m)

Spec == Init /\ [][Next]_<<upstream, mirror>>
=============================================================================
