---------------------------- MODULE ConnService ----------------------------
(***************************************************************************)
(* What the connection pool promises: a connection is handed out only      *)
(* while nobody holds it, only a held one is given back, and there are     *)
(* never more than Limit of them.                                          *)
(***************************************************************************)
EXTENDS Integers

CONSTANTS First,    \* connections made at start
          Limit     \* and at most

VARIABLES size,     \* connections 1..size exist
          held      \* the ones handed out

Init == size = First /\ held = {}

Get(c) ==
    /\ c \in (1..size) \ held
    /\ held' = held \cup {c}
    /\ size' \in size..Limit

Put(c) ==
    /\ c \in held
    /\ held' = held \ {c}
    /\ UNCHANGED size

Next == \E c \in 1..Limit : Get(c) \/ Put(c)

Spec == Init /\ [][Next]_<<size, held>>
=============================================================================
