-------------------------- MODULE MCCardCollection --------------------------
\* Set texts are numbers: 7 is one that is no record's id, 1 is one that is.
EXTENDS CardCollection

TwoTitles == {<<7, 9>>, <<1, 9>>}
=============================================================================
