------------------------- MODULE MCContractExecution -------------------------
(***************************************************************************)
(* The contracts that the run of ContractExecution goes through.           *)
(***************************************************************************)
EXTENDS ContractExecutionProperties

At(outcome, payout) == [outcome |-> outcome, payout |-> payout]
Polynomial(points) == [points |-> points]
Hyperbola(left, right, x, y, c, d) ==
    [points |-> <<left, right>>, x |-> x, y |-> y, c |-> c, d |-> d]
Interval(begin, mod) == [begin |-> begin, mod |-> mod]

(* Flat, rising, flat: 0 .. 7 with a collateral of 4000.  The last piece   *)
(* crosses a rounding interval.                                            *)
Ramp == <<Polynomial(<<At(0, 0), At(2, 0)>>),
          Polynomial(<<At(2, 0), At(5, 3700)>>),
          Polynomial(<<At(5, 3700), At(7, 3700)>>)>>

(* A parabola and a line, 0 .. 7.                                          *)
Bent == <<Polynomial(<<At(0, 4000), At(2, 1000), At(4, 0)>>),
          Polynomial(<<At(4, 0), At(7, 4000)>>)>>

(* Up and down again, 0 .. 7.                                              *)
Hill == <<Polynomial(<<At(0, 1000), At(3, 4000)>>),
          Polynomial(<<At(3, 4000), At(7, 0)>>)>>

(* 12000 / (x + 3), 0 .. 8.                                                *)
Reciprocal == <<Hyperbola(At(0, 4000), At(8, 1091), -3, 0, 0, 12000)>>

(* A line over the outcomes of four digits.                                *)
Line == <<Polynomial(<<At(0, 0), At(15, 4000)>>)>>

(* Up and down, over the outcomes of five digits.                          *)
Waves == <<Polynomial(<<At(0, 4000), At(9, 1000)>>),
           Polynomial(<<At(9, 1000), At(13, 4000)>>),
           Polynomial(<<At(13, 4000), At(22, 4000)>>),
           Polynomial(<<At(22, 4000), At(31, 0)>>)>>

Steps == <<Interval(0, 1), Interval(3, 500), Interval(6, 1000)>>
Coarse == <<Interval(0, 1000)>>

Numerical(base, digits, threshold, pieces, intervals, diff) ==
    [kind |-> "Numerical", numeric |-> [base |-> base, nb_digits |-> digits],
     pieces |-> pieces, intervals |-> intervals, diff |-> diff,
     threshold |-> threshold]

Diff(error, support) == <<[max_error_exp |-> error, min_support_exp |-> support]>>

Enum(nb, threshold, payouts) ==
    [kind |-> "Enum", outcomes |-> <<"a", "b", "c">>,
     payouts |-> [i \in 1 .. 3 |-> [offer |-> payouts[i],
                                    accept |-> 4000 - payouts[i]]],
     nb_oracles |-> nb, threshold |-> threshold]

(* One input, or none.  The scripts are of a witness key hash, 22 bytes,   *)
(* or of a witness script hash, 34.                                        *)
Party(input, collateral, len) ==
    [input_amount |-> input, collateral |-> collateral,
     inputs_weight |-> IF input = 0 THEN 0 ELSE 271,
     change_len |-> 22, payout_len |-> len]

Funding(p, q, rate, config, channel) ==
    [offer |-> p, accept |-> q, rate |-> rate, config |-> config,
     channel |-> channel]

Plain == Funding(Party(9000, 1500, 34), Party(9000, 2500, 34), 2,
                 "EvenSplit", FALSE)

Simple == Enum(1, 1, <<0, 3500, 4000>>)

(* Every way to share the fees, with change, without, with dust, and with  *)
(* too little; the last rate makes the extra fee odd.                      *)
Fundings ==
    {Funding(Party(i, 1500, l), Party(j, 2500, m), rate, config, channel) :
        i \in {2200, 4360, 9000}, j \in {0, 3500, 9000}, l, m \in {22, 34},
        rate \in {1, 3}, config \in FeeConfigs, channel \in BOOLEAN}
    \cup {Funding(Party(i, 4000, l), Party(0, 0, m), rate, config, channel) :
        i \in {5000, 9000}, l, m \in {22, 34},
        rate \in {1, 3}, config \in FeeConfigs, channel \in BOOLEAN}
    \cup {Funding(Party(0, 0, l), Party(j, 4000, m), rate, config, channel) :
        j \in {5000, 9000}, l, m \in {22, 34},
        rate \in {1, 3}, config \in FeeConfigs, channel \in BOOLEAN}

(* A contract so small that its fund output is dust.                       *)
Small ==
    [infos |-> <<[Simple EXCEPT !.payouts =
                     [i \in 1 .. 3 |-> [offer |-> 100 * i,
                                        accept |-> 300 - 100 * i]]]>>,
     funding |-> Funding(Party(9000, 100, 22), Party(9000, 200, 22), 1,
                         "EvenSplit", FALSE)]

Only(infos) == [infos |-> infos, funding |-> Plain]

MCCases ==
    {Only(<<Numerical(2, <<3, 3, 3>>, 2, Ramp, Steps, <<>>)>>),
     Only(<<Numerical(2, <<3, 3, 3>>, 3, Bent, Coarse, <<>>)>>),
     Only(<<Numerical(2, <<3, 3>>, 1, Bent, Steps, <<>>)>>),
     Only(<<Numerical(2, <<3, 3>>, 2, Hill, Steps, <<>>)>>),
     Only(<<Numerical(3, <<2, 2>>, 2, Reciprocal, Steps, <<>>)>>),
     Only(<<Numerical(2, <<3, 4, 3>>, 2, Ramp, Coarse, <<>>)>>),
     Only(<<Numerical(2, <<5, 3>>, 1, Bent, Coarse, <<>>)>>),
     Only(<<Numerical(2, <<4, 4>>, 2, Line, Coarse, Diff(2, 1))>>),
     Only(<<Numerical(2, <<3, 3, 3>>, 2, Ramp, Steps, Diff(1, 0))>>),
     Only(<<Numerical(2, <<4, 3>>, 2, Bent, Steps, Diff(2, 0))>>),
     Only(<<Numerical(2, <<3, 4, 4>>, 2, Ramp, Coarse, Diff(2, 1))>>),
     Only(<<Numerical(2, <<4, 4, 4>>, 3, Line, Coarse, Diff(2, 1))>>),
     Only(<<Numerical(2, <<3, 4, 3>>, 3, Ramp, Coarse, Diff(2, 1))>>),
     Only(<<Numerical(2, <<5, 4>>, 2, Line, Coarse, Diff(3, 1))>>),
     Only(<<Numerical(2, <<5, 5>>, 2, Waves, Coarse, Diff(3, 2))>>),
     Only(<<Enum(3, 2, <<0, 2000, 4000>>)>>),
     Only(<<Enum(2, 1, <<500, 2000, 3500>>)>>),
     Only(<<Enum(2, 2, <<500, 2000, 3500>>),
            Numerical(2, <<3, 3>>, 2, Ramp, Coarse, <<>>)>>),
     Only(<<Numerical(2, <<3>>, 1, <<Polynomial(<<At(0, 0), At(7, 5000)>>)>>,
                      Coarse, <<>>)>>),
     Only(<<[Enum(2, 1, <<500, 2000, 3500>>) EXCEPT !.payouts[3].offer = 3600]>>),
     Only(<<Numerical(2, <<3>>, 1, <<Polynomial(<<At(0, 900), At(7, 900)>>)>>,
                      Coarse, <<>>)>>),
     Only(<<Numerical(2, <<3>>, 1, Bent, <<Interval(1, 500)>>, <<>>)>>),
     Only(<<Numerical(2, <<3, 3>>, 2, Bent, Coarse, Diff(1, 1))>>),
     Small}
    \cup {[infos |-> <<Simple>>, funding |-> f] : f \in Fundings}

MCSettlePayouts == {0, 700, 2000, 4000}
=============================================================================
