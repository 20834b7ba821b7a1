-------------------------- MODULE MCCardListPanel --------------------------
\* Three ids, so that a deleted row may have one above and one below it; cards
\* that are equal in one column and may differ in the other, so that sorts
\* compose, a filter hides some of them and a set can be renamed.
EXTENDS CardListPanel

TwoPrints == {<<1, 1>>, <<1, 2>>}
=============================================================================
