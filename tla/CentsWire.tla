------------------------------ MODULE CentsWire ------------------------------
(***************************************************************************)
(* An amount on its way through the platform: typed by a user, shown and   *)
(* typed again, sent between services as JSON, stored in a BIGINT column   *)
(* and read back by a database driver.  The users, the column and the      *)
(* drivers are outside the package.                                        *)
(***************************************************************************)
EXTENDS CentsText

Character == Digit \cup {"-", "+", ".", ",", " ", "x", Quote, "null"}

CONSTANTS
    Amounts,  \* what amounts start from
    Typed,    \* what users type
    Driver    \* what a driver hands to Scan for a BIGINT: "int64" or "bytes"

ASSUME WireAssumption ==
    /\ MaxInt >= 99
    /\ Amounts \subseteq Cents
    /\ Typed \subseteq Seq(Character)
    /\ Driver \in {"int64", "bytes"}

VARIABLES
    amount,  \* the amount in the memory of the service that has it
    origin,  \* the amount there was at first
    form,    \* "vazio" before it is typed, "memoria", or what it travels as
    text,    \* the text under way, or last typed
    err      \* the error of the last reading

vars == <<amount, origin, form, text, err>>

Init ==
    /\ \/ form = "vazio" /\ amount = 0
       \/ form = "memoria" /\ amount \in Amounts
    /\ origin = amount
    /\ text = <<>>
    /\ err = "none"

Put(f, s) ==
    /\ form \in {"memoria", "digitado"}
    /\ form' = f
    /\ text' = s
    /\ UNCHANGED <<amount, origin, err>>

\* A reading keeps the amount it had when it fails.
Take(f, v) ==
    /\ form = f
    /\ form' = "memoria"
    /\ err' = v.err
    /\ amount' = IF v.err = "none" THEN v.cents ELSE amount
    /\ UNCHANGED <<origin, text>>

SendJSON    == Put("json", MarshalJSON(amount))
ReceiveJSON == Take("json", UnmarshalJSON(text))

\* As a JSON string, in either convention, and as null for zero.
Quoted(s) == <<Quote>> \o s \o <<Quote>>
SendString ==
    \/ \E s \in {String(amount), FormatBR(amount)} : Put("texto", Quoted(s))
    \/ amount = 0 /\ Put("texto", Null)
ReceiveString == Take("texto", UnmarshalJSON(text))

\* Shown on a screen and typed from there, with a blank that came along.
Show   == Put("tela", FormatBR(amount))
Retype == Take("tela", FromString(Append(text, " ")))

\* Value gives the column an int64; Scan takes it as it is, or as the text of
\* the column.
Store == Put("coluna", <<>>)
Scan ==
    Take("coluna", IF Driver = "int64" THEN Value(amount)
                   ELSE FromString(FmtInt(amount)))

\* A user types s.
Enter(s) ==
    LET v == FromString(s)
    IN  /\ form = "vazio"
        /\ form' = "digitado"
        /\ text' = s
        /\ err' = v.err
        /\ amount' = v.cents
        /\ origin' = v.cents

Next ==
    \/ SendJSON \/ ReceiveJSON
    \/ SendString \/ ReceiveString
    \/ Show \/ Retype
    \/ Store \/ Scan
    \/ \E s \in Typed : Enter(s)

Spec == Init /\ [][Next]_vars

-----------------------------------------------------------------------------
\* The type invariant.
TypeOK ==
    /\ amount \in Cents
    /\ origin \in Cents
    /\ form \in {"memoria", "json", "texto", "tela", "coluna", "digitado",
                "vazio"}
    /\ text \in Seq(Character)
    /\ err \in {"none", "ErrEmptyString", "ErrInvalidFormat", "ErrOverflow",
                "ErrTooManyDecimals"}

\* No trip, in any order and number, changes an amount: what String, FormatBR,
\* MarshalJSON and Value write, their readers read as the same amount.
AmountKept == amount = origin

\* Only the text of MinInt is refused by its own reader.
OnlyMinIntRefused ==
    form = "memoria" /\ err # "none" => amount = MinInt

\* What a text says: its sign, its digits, and as many of them after the comma
\* as follow the last separator, unless that one comes again and so groups.
WrittenDecimals(s) ==
    LET P == {i \in DOMAIN s : s[i] \in {".", ","}}
        p == CHOOSE i \in P : \A j \in P : j <= i
    IN  IF P = {} \/ Count(s, s[p]) > 1 THEN 0 ELSE Len(s) - p
Number(t) ==
    FoldText([n \in Int |-> [d \in Digit |-> n * 10 + digitOf[d]]], 0, t)
WrittenCents(s) ==
    LET d == WrittenDecimals(s)
        n == Number(Keep(s, Digit)) * (CASE d = 0 -> 100 [] d = 1 -> 10 [] OTHER -> 1)
    IN  IF "-" \in ToSet(s) THEN -n ELSE n

\* A typed text is read as it is written or not at all: no separator of the
\* other convention moves the decimal point, and only what does not fit, or
\* would not with cents added, is refused as too large.
ReadsAsWritten ==
    form = "digitado" =>
        LET s == TrimSpace(text)
        IN  /\ err = "none" =>
                  /\ WrittenDecimals(s) <= 2
                  /\ amount = WrittenCents(s)
            /\ err = "ErrOverflow" => magnitude(WrittenCents(s)) > MaxInt
=============================================================================
