----------------------------- MODULE MCBigIntIO -----------------------------
(* BigIntIO with limbs of 7 bits, so that a base up to 64 is less than a limb, *)
(* an arena that asks for two words where the calls mean bytes, and chunks of  *)
(* two characters.                                                             *)
EXTENDS BigIntIO

Line(ws, sign, prefix, base, digits) ==
  [ws |-> ws, sign |-> sign, prefix |-> prefix, base |-> base, digits |-> digits]

Fronts == {<< <<>>, 10>>, << <<"0", "x">>, 16>>, << <<"0", "B">>, 2>>, << <<"0", ",">>, 64>>,
             << <<"0", "{", "3", "}">>, 3>>}
Broken   == {<<"0">>, <<"0", "{">>, <<"0", "{", "}">>, <<"0", "{", "3">>, <<"0", "{", "3", "?">>,
             <<"0", "{", "9", "9", "9", "}">>, <<"0", "?">>}

MCDigits == UNION {[1 .. k -> {"0", "1", "9", "F"}] : k \in 1 .. 2}
            \cup {<<"0", "0", "1">>, <<"1", "0", "0">>, <<"2", "5", "5">>, <<"a", "z">>, <<"g">>}

MCLines ==
  {Line(<<>>, sign, p[1], p[2], d) : sign \in {<<>>, <<"-">>}, p \in Fronts, d \in MCDigits}
  \cup {Line(<<" ">>, sign, p[1], p[2], d) : sign \in {<<>>, <<"+">>}, p \in Fronts, d \in {<<"7">>, <<"1", "0">>, <<>>}}
  \cup {Line(<<>>, sign, p, 0, d) : sign \in {<<>>, <<"-">>}, p \in Broken, d \in {<<>>, <<"1", "0">>}}

MCStreams ==
  {l \in MCLines : l.ws = <<>> \/ l.sign = <<>>}
  \cup {Line(<<>>, sign, p[1], p[2], d) : sign \in {<<>>, <<"-">>}, p \in Fronts,
          d \in {<<"9", "9", "9", "9">>, <<"1", "0", "1", "0", "1">>}}
MCTails   == {<<>>, <<NL, "7">>}
MCBases   == {2, 3, 10, 16, 64}

MCObjects  == {Number(0, 0, 0, 0), Number(0, 0, 1, 1), Number(5, 1, 2, -1), Number(300, 2, 2, 1), Number(0, 0, 3, 1)}
MCPrintees == {Number(0, 0, 1, 1), Number(5, 0, 1, -1), Number(0, 1, 1, 1)}
              \cup {Number(v, 1, 1, s) : v \in {1, 9, 12, 64, 127}, s \in {1, -1}}
              \cup {Number(v, 2, 2, s) : v \in {128, 999, 1000, 4096, 16383}, s \in {1, -1}}
              \cup {Number(100000, 3, 3, 1)}
MCArenas   == {[cap |-> 2, held |-> 0, poisoned |-> FALSE]}
MCBufLens  == {0, 1, 2, 4, 12}
=============================================================================
