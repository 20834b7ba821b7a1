------------------------ MODULE MCSelectedCardPanel ------------------------
\* Two cards, each of which may be edited between two sets of coordinates.
EXTENDS SelectedCardPanel
=============================================================================
