------------------------------ MODULE FileReader ------------------------------
(***************************************************************************)
(* What libebml and libavformat are promised of a file that may still be   *)
(* arriving: a read gives the bytes at the reader's position, all that was *)
(* asked for or as much as was there when it was asked, and moves the      *)
(* position behind them.  The byte at offset i is i.  A read may fail, and *)
(* the reader may not be trusted after that.                               *)
(***************************************************************************)
EXTENDS Integers, Sequences

VARIABLES size,           \* the bytes of the file that are there
          pos,            \* the reader's position
          asked,          \* the read that is under way, [from, count], or Nothing
          answer,         \* what the last one gave, or Failed
          trusted

vars == <<size, pos, asked, answer, trusted>>

Nothing == [from |-> -1, count |-> 0]
Failed == <<"failed">>
\* How many of n bytes from a place on are there, when there are s.
There(s, from, n) == IF n <= 0 \/ from >= s THEN 0 ELSE IF from + n <= s THEN n ELSE s - from

BytesFrom(from, n) == [k \in 1 .. n |-> from + k - 1]

Init == size \in Nat /\ pos = 0 /\ asked = Nothing /\ answer = <<>> /\ trusted = TRUE

Grow == size' \in Nat /\ size' > size /\ UNCHANGED <<pos, asked, answer, trusted>>

Seek == asked = Nothing /\ pos' \in Nat /\ UNCHANGED <<size, asked, answer, trusted>>

Ask(n) ==
  /\ asked = Nothing
  /\ asked' = [from |-> pos, count |-> There(size, pos, n)]
  /\ UNCHANGED <<size, pos, answer, trusted>>

Answer ==
  /\ asked # Nothing
  /\ asked' = Nothing
  /\ pos' = asked.from + asked.count
  /\ IF trusted THEN answer' = BytesFrom(asked.from, asked.count) ELSE Len(answer') = asked.count
  /\ UNCHANGED <<size, trusted>>

Fail ==
  /\ asked # Nothing
  /\ asked' = Nothing
  /\ pos' \in asked.from .. asked.from + asked.count
  /\ answer' = Failed
  /\ trusted' \in {trusted, FALSE}
  /\ UNCHANGED size

\* More than what is there is asked for as what is there.
Next == Grow \/ Seek \/ Answer \/ Fail \/ Ask(asked'.count)

Spec == Init /\ [][Next]_vars
=============================================================================
