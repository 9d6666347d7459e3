----------------------------- MODULE MCMinimizer -----------------------------
(* Cases of up to four bytes over '0' and two more, and five targets: what    *)
(* they look at makes deletions depend on replacements, and the other way.    *)
EXTENDS Minimizer, TLC

CONSTANT MaxLen

A == 65
B == 66
Counts(case, sym) == Cardinality({p \in DOMAIN case : case[p] = sym})
Has(case, word) ==
  \E p \in 0..Len(case) - Len(word) : SubSeq(case, p + 1, p + Len(word)) = word

OK(n) == [exit |-> "ok", cksum |-> n]
Crash(n) == [exit |-> "crash", cksum |-> n]
Hang == [exit |-> "hang", cksum |-> 0]

MCOutcome(target, case) ==
  CASE target = "crash on AB" -> IF Has(case, <<A, B>>) THEN Crash(Counts(case, A)) ELSE OK(1)
    [] target = "even" -> OK(1 + (Counts(case, A) % 2))
    [] target = "checked" ->
         IF Len(case) > 0 /\ Counts(case, A) = Counts(case, Zero) THEN OK(2) ELSE OK(1)
    [] target = "hangs on AA" ->
         IF Has(case, <<A, A>>) THEN Hang ELSE IF Has(case, <<B>>) THEN Crash(1) ELSE OK(0)
    [] target = "length" -> OK(Min({Len(case), 2}))

Cases == UNION {[1..n -> {Zero, A, B}] : n \in 1..MaxLen}
Started(data, target, exact) == [data |-> data, target |-> target, exact_mode |-> exact]
MCStarts ==
  {Started(data, "crash on AB", exact) : data \in Cases, exact \in BOOLEAN} \union
  {Started(data, target, FALSE) :
     data \in Cases, target \in {"even", "checked", "hangs on AA", "length"}}
=============================================================================
