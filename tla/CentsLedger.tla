----------------------------- MODULE CentsLedger -----------------------------
(***************************************************************************)
(* An account whose balance goes through any sequence of calls of package  *)
(* moneycents, held against the same calculation on unbounded integers.    *)
(* The account, and the handler that survives a panic with the balance it  *)
(* had, are outside the package.                                           *)
(***************************************************************************)
EXTENDS Moneycents

CONSTANTS
    Arguments,  \* what the calls are made with
    Opening,    \* balances an account may be read with
    Parties     \* how many a balance is divided among, at most

ASSUME ArgumentsAssumption ==
    /\ Arguments \subseteq Cents
    /\ Opening \subseteq Cents
    /\ Parties \in Nat

VARIABLES
    balance,  \* the account's Cents
    call,     \* the last call: operation, receiver and argument
    panicked  \* whether it panicked

vars == <<balance, call, panicked>>

Op == {"Add", "Sub", "MulInt", "DivInt", "MulPercent", "Abs", "Negate"}

Init ==
    /\ balance \in Opening
    /\ call = [op |-> "none", c |-> balance, arg |-> 0]
    /\ panicked = FALSE

Perform(op, arg, result) ==
    /\ call' = [op |-> op, c |-> balance, arg |-> arg]
    /\ panicked' = result.panic
    /\ balance' = IF result.panic THEN balance ELSE result.cents

Deposit(x)    == Perform("Add", x, Add(balance, x))
Withdraw(x)   == Perform("Sub", x, Sub(balance, x))
Installments(n) == Perform("MulInt", n, MulInt(balance, n))
Share(n)      == Perform("DivInt", n, DivInt(balance, n))
Fee(bps)      == Perform("MulPercent", bps, MulPercent(balance, bps))
Size          == Perform("Abs", 0, Abs(balance))
Reverse       == Perform("Negate", 0, Negate(balance))

Next ==
    \/ \E x \in Arguments :
          \/ Deposit(x) \/ Withdraw(x) \/ Installments(x) \/ Share(x) \/ Fee(x)
    \/ Size
    \/ Reverse

Spec == Init /\ [][Next]_vars

-----------------------------------------------------------------------------
\* The last call on unbounded integers.
Ideal ==
    LET c == call.c
        n == call.arg
    IN  CASE call.op = "none" -> c
          [] call.op = "Add" -> c + n
          [] call.op = "Sub" -> c - n
          [] call.op = "MulInt" -> c * n
          [] call.op = "DivInt" -> trunc(c, n)
          [] call.op = "MulPercent" -> trunc(c * n, Full)
          [] call.op = "Abs" -> magnitude(c)
          [] call.op = "Negate" -> -c

\* The type invariant.
TypeOK ==
    /\ balance \in Cents
    /\ call \in [op : Op \cup {"none"}, c : Cents, arg : Cents]
    /\ panicked \in BOOLEAN

\* MinInt is the only amount with which a calculation goes wrong in silence:
\* every call that returns, with other operands, returns the exact result.
ExactAwayFromMin ==
    ~panicked /\ MinInt \notin {call.c, call.arg} => balance = Ideal

\* A panic is never a false alarm: the result, or for a percentage the product
\* it starts from, does not fit.
PanicMeansOverflow ==
    panicked =>
        \/ call.op = "DivInt" /\ call.arg = 0
        \/ call.op \in {"Add", "Sub", "MulInt"} /\ Ideal \notin Cents
        \/ call.op = "MulPercent" /\ call.c * call.arg \notin Cents

\* A balance divided among n parties is not lost: n quotients and the remainder
\* make it up, and the remainder is less than a cent for each, of its sign.
ShareConserves ==
    \A n \in 1..Parties :
        LET r == Remainder(balance, n)
        IN  /\ Quotient(balance, n) * n + r = balance
            /\ magnitude(r) < n
            /\ r # 0 => (r < 0) = (balance < 0)

\* A balance split in two complementary percentages may lose one cent to the
\* truncation and never gains any.
PercentSplit ==
    \A bps \in 0..Full :
        LET a == MulPercent(balance, bps)
            b == MulPercent(balance, Full - bps)
            lost == magnitude(balance) - magnitude(a.cents + b.cents)
        IN  a.panic \/ b.panic \/ lost \in {0, 1}

\* "Em caso de overflow int64, dispara panic", of Add, Sub and MulInt.
OverflowPanics ==
    call.op \in {"Add", "Sub", "MulInt"} /\ Ideal \notin Cents => panicked
=============================================================================
