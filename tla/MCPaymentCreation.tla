------------------------- MODULE MCPaymentCreation -------------------------
\* PaymentCreation for TLC.  The first two amounts are the same sum.
EXTENDS PaymentCreation

SomeAmounts == {<<1, 0>>, <<10, 1>>, <<1, 1>>}
=============================================================================
