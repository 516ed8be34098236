---------------------------- MODULE MCPhoneDedup ----------------------------
EXTENDS PhoneDedup

\* A mobile number, a landline that it is when it loses its 9, and two lines of
\* the area code that is also the country code: a classic mobile number, and a
\* landline that starts with the code.
Lines ==
    {[ddd |-> <<1, 1>>, ass |-> <<9, 4, 0, 0, 5, 2, 3, 0, 0>>],
     [ddd |-> <<1, 1>>, ass |-> <<4, 0, 0, 5, 2, 3, 0, 0>>],
     [ddd |-> <<5, 5>>, ass |-> <<9, 9, 2, 2, 5, 5, 8, 0, 1>>],
     [ddd |-> <<5, 5>>, ass |-> <<5, 5, 1, 1, 5, 5, 0, 0>>]}

Carriers == {<<1, 5>>}
=============================================================================
