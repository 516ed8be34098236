----------------------------- MODULE MCCentsWire -----------------------------
EXTENDS CentsWire

\* Amounts at every boundary of the formats: cents, thousands, millions and the
\* ends of a 28-bit integer, of both signs.
Boundary ==
    LET Up == {0, 1, 9, 10, 99, 100, 101, 999, 1000, 99999, 100000, 100001,
               123456, 999999, 99999999, 100000000, 123456789, MaxInt}
    IN  Up \cup {-n : n \in Up} \cup {MinInt}

\* Every text of up to five characters of these.
Keys == {"1", "0", ".", ",", "-"}
ShortTexts == UNION {[1..n -> Keys] : n \in 0..5}

\* A few with the characters that are left, and the first amount of the run's
\* width that does not fit.
OddTexts == {<<"1", "3", "4", "2", "1", "7", "7", ".", "2", "8">>,
             <<" ", "7", ",", "5", " ">>, <<"+", "1">>, <<"1", "x">>, <<"+">>,
             <<" ">>}

AllTexts == ShortTexts \cup OddTexts
=============================================================================
