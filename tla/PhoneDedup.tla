----------------------------- MODULE PhoneDedup -----------------------------
(***************************************************************************)
(* Cards of a board, one per phone line, while messages come from lines    *)
(* written in any way a person or a system writes them.  The board is      *)
(* outside the package; as chave.go says of it, it searches by Variantes   *)
(* and stores ChaveLocal.                                                  *)
(***************************************************************************)
EXTENDS Phonebr

CONSTANTS
    Line,     \* phone lines: [ddd, ass], the number with its ninth digit
    Carrier   \* carrier codes of long-distance calls

\* A landline has 8 digits, a mobile line 9 with the ninth digit in front.
IsLine(l) ==
    /\ l \in [ddd : Seq(0..9), ass : Seq(0..9)]
    /\ dddValido(l.ddd)
    /\ \/ Len(l.ass) = 8 /\ l.ass[1] \in 2..5
       \/ Len(l.ass) = 9 /\ l.ass[1] = 9
IsCarrier(c) == c \in Seq(0..9) /\ Len(c) = 2 /\ c # BR /\ c[1] # 0

ASSUME LineAssumption ==
    (\A l \in Line : IsLine(l)) /\ (\A c \in Carrier : IsCarrier(c))

VARIABLES
    cards,   \* the cards: stored key and the lines whose messages are on it
    recent   \* the texts of the two last messages

vars == <<cards, recent>>

\* The ways to write a number: a classic mobile number also without the 9.
Numbers(l) ==
    {l.ddd \o l.ass} \cup
    (IF Len(l.ass) = 9 /\ l.ass[2] >= 6 THEN {l.ddd \o From(l.ass, 2)} ELSE {})

\* ... alone, with the country code, with trunk zeros and carriers, and with
\* characters in between.
Writings(l) ==
    (UNION {{n, BR \o n, <<0>> \o n, BR \o <<0>> \o n,
             <<Other>> \o BR \o <<Other>> \o n} : n \in Numbers(l)})
    \cup {<<0>> \o c \o n : c \in Carrier, n \in Numbers(l)}

\* A message without area code, and one with a wrong last digit.
Bare(l) == l.ass
Mistyped(l) ==
    LET n == l.ddd \o l.ass
    IN  [n EXCEPT ![Len(n)] = (@ + 1) % 10]

Init ==
    /\ cards = {}
    /\ recent = <<<<>>, <<>>>>

Heard(w) == recent' = <<recent[2], w>>

\* A message of line l, written w: to the cards found, or to a new one.
Message(l, w) ==
    LET found == {c \in cards : c.key \in Variantes(w)}
    IN  /\ Heard(w)
        /\ cards' =
             IF found = {} THEN cards \cup {[key |-> ChaveLocal(w), lines |-> {l}]}
             ELSE (cards \ found) \cup
                  {[c EXCEPT !.lines = @ \cup {l}] : c \in found}

\* A text that is only compared, to warn of a possible duplicate.
Compare(w) == Heard(w) /\ UNCHANGED cards

Next ==
    \E l \in Line :
        \/ \E w \in Writings(l) : Message(l, w)
        \/ Compare(Bare(l))
        \/ Compare(Mistyped(l))

Spec == Init /\ [][Next]_vars

-----------------------------------------------------------------------------
\* The messages of a line, however it writes itself, gather on one card.
OneCardPerLine ==
    \A c, d \in cards : c.lines \cap d.lines # {} => c = d

\* Two lines never share a card.
LinesKeptApart ==
    \A c \in cards : \A l, m \in c.lines : l = m

\* Two texts are the same phone the one way and the other, and if both have
\* their area code exactly when a search with one finds what is stored of the
\* other.
MesmoFindsStored ==
    LET a == recent[1]
        b == recent[2]
    IN  /\ Mesmo(a, b) = Mesmo(b, a)
        /\ Chave(a) # <<>> /\ Chave(b) # <<>>
           => (Mesmo(a, b) <=> ChaveLocal(b) \in Variantes(a))

\* A warning is for one digit changed, missing or too many, whichever text
\* comes first.
Edited(a) ==
    {a} \cup {[a EXCEPT ![i] = d] : i \in DOMAIN a, d \in 0..9}
        \cup {SubSeq(a, 1, i - 1) \o From(a, i + 1) : i \in DOMAIN a}
        \cup {SubSeq(a, 1, i) \o <<d>> \o From(a, i + 1) : i \in 0..Len(a), d \in 0..9}
WarnsOfOneDigit ==
    LET p == chavesPar(recent[1], recent[2])
    IN  Parecido(recent[1], recent[2]) <=>
            p[1] # <<>> /\ p[2] # <<>> /\ p[2] \in Edited(p[1])

\* "Normalize(Normalize(x)) == Normalize(x)", and a number to send to is one
\* whose own key names the same line.
SendableIsStable ==
    LET n == Normalize(recent[2])
    IN  n # <<>> => /\ Normalize(n) = n
                    /\ Chave(n) = Chave(recent[2])
=============================================================================
