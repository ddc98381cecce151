----------------------------- MODULE PayoutCurve -----------------------------
(***************************************************************************)
(* payout_curve.rs: from a payout function, given by pieces, to the ranges *)
(* of outcomes that share a payout, one CET for each.                      *)
(*                                                                         *)
(* The f64 of the code is a fraction, [num, den] with den > 0, and the     *)
(* arithmetic is exact.  A piece is                                        *)
(*   polynomial  [points |-> Seq([outcome, payout])], or                   *)
(*   hyperbola   [points |-> <<left, right>>, x, y, c, d] with a = 1,      *)
(*               b = 0 and the positive piece: c * t + d / t + y, where t  *)
(*               is the distance to x.                                     *)
(* The extra precision of a point is zero.                                 *)
(***************************************************************************)
EXTENDS Integers, Sequences, FiniteSets, SequencesExt

Fraction(num, den) ==
    IF den < 0 THEN [num |-> -num, den |-> -den] ELSE [num |-> num, den |-> den]

Plus(a, b) == Fraction(a.num * b.den + b.num * a.den, a.den * b.den)
Times(a, b) == Fraction(a.num * b.num, a.den * b.den)

(* f64::round of a number that is not negative.                            *)
Nearest(a) == (2 * a.num + a.den) \div (2 * a.den)

IsHyperbola(piece) == "x" \in DOMAIN piece

FirstPoint(piece) == Head(piece.points)
LastPoint(piece) == Last(piece.points)

IsConstant(piece) ==
    /\ ~IsHyperbola(piece)
    /\ Len(piece.points) = 2
    /\ FirstPoint(piece).payout = LastPoint(piece).payout

(* is_continuous, the checks of the two constructors, and validate.  That  *)
(* a * d = b * c, of a hyperbola, is d = 0 here.                           *)
ValidFunction(pieces, max) ==
    /\ \A i \in 1 .. Len(pieces) - 1 :
          LastPoint(pieces[i]) = FirstPoint(pieces[i + 1])
    /\ \A i \in DOMAIN pieces : \A j \in 1 .. Len(pieces[i].points) - 1 :
          pieces[i].points[j].outcome < pieces[i].points[j + 1].outcome
    /\ \A i \in DOMAIN pieces : IsHyperbola(pieces[i]) => pieces[i].d # 0
    /\ FirstPoint(Head(pieces)).outcome = 0
    /\ LastPoint(Last(pieces)).outcome = max

(* RoundingIntervals::validate.                                            *)
ValidIntervals(intervals) ==
    /\ intervals # <<>>
    /\ Head(intervals).begin = 0
    /\ \A i \in 1 .. Len(intervals) - 1 :
          intervals[i].begin < intervals[i + 1].begin

(* The summand of a point in the interpolation of a polynomial.            *)
Summand(points, i, outcome) ==
    FoldLeft(LAMBDA f, j :
                 IF i = j THEN f
                 ELSE Times(f, Fraction(outcome - points[j].outcome,
                                        points[i].outcome - points[j].outcome)),
             Fraction(points[i].payout, 1), [j \in DOMAIN points |-> j])

(* evaluate.  The special cases for two points are the same function.      *)
Evaluate(piece, outcome) ==
    LET t == outcome - piece.x
    IN IF IsHyperbola(piece)
       THEN Fraction(piece.c * t * t + piece.d + piece.y * t, t)
       ELSE FoldLeft(LAMBDA f, i : Plus(f, Summand(piece.points, i, outcome)),
                     Fraction(0, 1), [i \in DOMAIN piece.points |-> i])

(* The modulus of the rounding interval of an outcome.                     *)
RoundingMod(intervals, outcome) ==
    Last(SelectSeq(intervals, LAMBDA x : x.begin =< outcome)).mod

(* RoundingIntervals::round, of a payout that is not negative.             *)
Round(intervals, outcome, payout) ==
    LET mod == RoundingMod(intervals, outcome)
        below == payout.num \div (mod * payout.den)
        rest == payout.num % (mod * payout.den)
    IN mod * (IF 2 * rest >= mod * payout.den THEN below + 1 ELSE below)

(* get_rounded_payout: an error is the empty sequence.                     *)
RoundedPayout(piece, outcome, intervals, collateral) ==
    LET payout == Evaluate(piece, outcome)
        rounded == Round(intervals, outcome, payout)
    IN IF payout.num < 0 \/ Nearest(payout) > collateral THEN <<>>
       ELSE <<IF rounded < collateral THEN rounded ELSE collateral>>

RangePayout(start, count, payout, collateral) ==
    [start |-> start, count |-> count,
     payout |-> [offer |-> payout, accept |-> collateral - payout]]

(* Mutant: an outcome that pays less joins the last range.                 *)
M_AddOutcome(ranges, outcome, payout, collateral) ==
    IF Last(ranges).payout.offer >= payout
    THEN [ranges EXCEPT ![Len(ranges)].count = @ + 1]
    ELSE Append(ranges, RangePayout(outcome, 1, payout, collateral))

(* One more outcome: it joins the last range or opens a new one.           *)
AddOutcome(ranges, outcome, payout, collateral) ==
    IF Last(ranges).payout.offer = payout
    THEN [ranges EXCEPT ![Len(ranges)].count = @ + 1]
    ELSE Append(ranges, RangePayout(outcome, 1, payout, collateral))

(* to_range_payouts of a piece.  The outcome that it shares with the piece *)
(* before it is in a range already (get_cur_range).                        *)
AddPiece(ranges, piece, intervals, collateral) ==
    LET first == FirstPoint(piece).outcome
        last == LastPoint(piece).outcome
        Payout(o) == RoundedPayout(piece, o, intervals, collateral)[1]
        begun == IF ranges # <<>> THEN ranges
                 ELSE <<RangePayout(first, 1, Payout(first), collateral)>>
    IN IF IsConstant(piece)
       THEN [begun EXCEPT ![Len(begun)].count = @ + (last - first)]
       ELSE FoldLeft(LAMBDA r, o : AddOutcome(r, o, Payout(o), collateral),
                     begun, [i \in 1 .. last - first |-> first + i])

(* The outcomes that a piece evaluates; one that fails fails the whole.    *)
Evaluated(pieces, i) ==
    LET first == FirstPoint(pieces[i]).outcome
        last == LastPoint(pieces[i]).outcome
    IN (IF i = 1 THEN {first} ELSE {})
       \cup (IF IsConstant(pieces[i]) THEN {} ELSE first + 1 .. last)

(* PayoutFunction::to_range_payouts: an error is the empty sequence.       *)
ToRangePayouts(pieces, intervals, collateral) ==
    IF \E i \in DOMAIN pieces : \E o \in Evaluated(pieces, i) :
          RoundedPayout(pieces[i], o, intervals, collateral) = <<>>
    THEN <<>>
    ELSE FoldLeft(LAMBDA r, p : AddPiece(r, p, intervals, collateral),
                  <<>>, pieces)
=============================================================================
