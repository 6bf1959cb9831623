--------------------------- MODULE PackageStream ---------------------------
(***************************************************************************)
(* What receiving on a connection promises: the client's packages are      *)
(* taken one after the other, each once and in the order they were sent;   *)
(* one of a legal length is delivered, another one is dropped.             *)
(***************************************************************************)
EXTENDS Integers, Sequences

CONSTANTS Lens,         \* the lengths a client may declare
          Legal         \* and those a package may have

VARIABLES offered,      \* the lengths of the client's packages
          taken,        \* how many of them are behind
          delivered,    \* the numbers of the packages delivered
          open          \* the connection is open

vars == <<offered, taken, delivered, open>>

Init == offered = <<>> /\ taken = 0 /\ delivered = <<>> /\ open = TRUE

Offer(len) ==
    /\ open
    /\ offered' = Append(offered, len)
    /\ UNCHANGED <<taken, delivered, open>>

Take ==
    /\ open
    /\ taken < Len(offered)
    /\ taken' = taken + 1
    /\ delivered' = IF offered[taken'] \in Legal
                    THEN Append(delivered, taken') ELSE delivered
    /\ UNCHANGED <<offered, open>>

Close ==
    /\ open
    /\ open' = FALSE
    /\ UNCHANGED <<offered, taken, delivered>>

Next == (\E len \in Lens : Offer(len)) \/ Take \/ Close

Spec == Init /\ [][Next]_vars
=============================================================================
