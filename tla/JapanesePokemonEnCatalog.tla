-------------------------- MODULE JapanesePokemonEnCatalog --------------------------
(* The bundled catalogue of Japanese prints: English names and product images    *)
(* for prints TCGdex knows badly or not at all.                                 *)
EXTENDS CollectorNumber, SequencesExt

CONSTANTS CatalogPrints,   \* the entries: [set, no, en, ja, url], url = "" for none
          Titles           \* <<title, word>>: the word is a whole token of the title

Entries == ToSet(CatalogPrints)
FindPrint(set, no) == KeepIn(CatalogPrints, {p \in Entries : p.set = set /\ p.no = no})

PrintsForSet(set) == KeepIn(CatalogPrints, {p \in Entries : p.set = set})
HasPrintsForSet(set) == PrintsForSet(set) # <<>>

ContainsWholeAsciiToken(title, word) == <<title, word>> \in Titles

FindPrintsByName(set, name) ==
  KeepIn(PrintsForSet(set), {p \in Entries :
    /\ name # ""
    /\ \/ p.en = name \/ p.ja = name
       \/ ContainsWholeAsciiToken(p.en, name) \/ ContainsWholeAsciiToken(p.ja, name)})
====
