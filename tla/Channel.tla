------------------------------ MODULE Channel ------------------------------
(***************************************************************************)
(* What a pipe promises: a bounded first-in first-out stream of bytes with *)
(* two ends.  A read takes a prefix of what is in it, an end of file is    *)
(* seen only when nothing is left and the write end is closed, a write     *)
(* fails only when the read end is closed.                                 *)
(***************************************************************************)
EXTENDS Sequences, Naturals

CONSTANTS Bytes, Capacity, MaxRequest

VARIABLES open,         \* the ends that are open: a subset of {"read", "write"}
          contents,     \* the bytes written and not yet read
          result        \* what the last operation that finished returned

cvars == <<open, contents, result>>

Data == UNION {[1 .. n -> Bytes] : n \in 0 .. MaxRequest}

Init == open = {} /\ contents = <<>> /\ result = <<"none">>

Open ==
    /\ open = {} /\ open' = {"read", "write"}
    /\ contents' = <<>> /\ UNCHANGED result

Close ==
    /\ \E e \in open : open' = open \ {e}
    /\ contents' = IF open' = {} THEN <<>> ELSE contents
    /\ UNCHANGED result

(* A write takes as much of its data as there is room for, and there is    *)
(* some room.                                                              *)
Write ==
    /\ "read" \in open /\ Len(contents) < Capacity
    /\ \E data \in Data :
          LET room  == Capacity - Len(contents)
              taken == IF Len(data) < room THEN Len(data) ELSE room
          IN  /\ contents' = contents \o SubSeq(data, 1, taken)
              /\ result' = <<"wrote", taken>>
    /\ UNCHANGED open

Broken ==
    /\ open = {"write"}
    /\ result' = <<"broken">>
    /\ UNCHANGED <<open, contents>>

Read ==
    /\ contents # <<>>
    /\ \E n \in 0 .. MaxRequest :
          LET taken == IF n < Len(contents) THEN n ELSE Len(contents)
          IN  /\ result' = <<"read", SubSeq(contents, 1, taken)>>
              /\ contents' = SubSeq(contents, taken + 1, Len(contents))
    /\ UNCHANGED open

EndOfFile ==
    /\ contents = <<>> /\ open = {"read"}
    /\ result' = <<"eof">>
    /\ UNCHANGED <<open, contents>>

Next == Open \/ Close \/ Write \/ Broken \/ Read \/ EndOfFile

Spec == Init /\ [][Next]_cvars
=============================================================================
