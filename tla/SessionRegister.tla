--------------------------- MODULE SessionRegister ---------------------------
(***************************************************************************)
(* What the files and locks of one session are for: a session that several *)
(* processes change, one whole request after the other.                    *)
(***************************************************************************)
CONSTANT Request    \* the requests that may change the session

VARIABLE content    \* <<>> before creation, then <<session>>

Session == [done : SUBSET Request, closed : BOOLEAN]

RInit == content = <<>>

Create == /\ content = <<>>
          /\ content' = <<[done |-> {}, closed |-> FALSE]>>

\* An answer or a deletion is added to what is there, unless that is closed.
Change(r) == /\ content # <<>>
             /\ ~content[1].closed
             /\ content' = <<[content[1] EXCEPT !.done = @ \cup {r}]>>

Close == /\ content # <<>>
         /\ content' = <<[content[1] EXCEPT !.closed = TRUE]>>

RNext == Create \/ Close \/ \E r \in Request : Change(r)

RSpec == RInit /\ [][RNext]_content
=============================================================================
