---------------------------------- MODULE MCGameTabs ----------------------------------
EXTENDS GameTabs

N(v) == Number("", v)
Set(id, name, date) == [id |-> id, name |-> name, date |-> date]
Row(no, name) == [no |-> no, name |-> name, rarity |-> ""]
MCLegacyAliases == [old |-> "base1"]

\* Asia: PM1 is catalogued, Exp is a product TCGdex lacks, "old" is an id of its own
\* that happens to be a former western one.
MCCatalogSets == [PM1 |-> [name |-> "Jungle", date |-> 2], Exp |-> [name |-> "Sheet", date |-> 3],
                  old |-> [name |-> "", date |-> 0]]
MCCatalogPrints == <<[set |-> "PM1", no |-> N(2), en |-> "B", ja |-> "b", url |-> ""],
                     [set |-> "Exp", no |-> N(1), en |-> "", ja |-> "c", url |-> ""]>>
MCMissingClassicProducts == {Set("Exp", "Sheet", 3)}
MCNameOverrides == [PM1 |-> "ja"]
MCMissingReprints == {Set("LOB25", "Reprint", 5)}
MCSetCodes == [LOB |-> [abbrev |-> "LOB", infix |-> ""], LOBEN |-> [abbrev |-> "LOB", infix |-> "EN"],
               LOBE |-> [abbrev |-> "LOB", infix |-> "E"]]
MCSetManifest == {[id |-> "ban1", name |-> "1st", date |-> 1, page |-> "gallery", prefix |-> ""],
                  [id |-> "promo", name |-> "Jump", date |-> 2, page |-> "promos", prefix |-> "J"]}
MCSlugs == [Starter |-> "starter", Dots |-> ""]
MCPackDates == [Starter |-> 1, Dots |-> 0]
MCUpperCase == [st |-> "ST"]
MCLower == [Elf |-> "elf", ELF |-> "elf", Owl |-> "owl"]
MCPrintedNames == [ElfM21 |-> "Elf"]

Gone == [list |-> Down, details |-> <<>>, dump |-> Down]
Detail(date, rows) == [date |-> date, rows |-> rows]
West(name, rows) ==
  [list |-> <<Set("base1", name, 0), Set("", "none", 0)>>, details |-> [base1 |-> rows]]
Asia(pm1) ==
  [list |-> <<Set("PM1", "x", 0), Set("old", "ja", 0), Set("CS1", "y", 0)>>,
   details |-> [PM1 |-> pm1, old |-> Detail(4, <<Row(N(1), "a")>>), Exp |-> Down]]
Printing(pre, name, set) == [no |-> Padded(Number(pre, 1)), name |-> name, rarity |-> "", set |-> set]
MCReplies ==
  [Magic |-> {Gone, [list |-> <<[id |-> "M", name |-> "Core", date |-> 1, digital |-> FALSE],
                               [id |-> "D", name |-> "Online", date |-> 2, digital |-> TRUE]>>]},
   West |-> {Gone, West("Base", Detail(1, <<Row(WithTotal(N(4)), "Z"), Row(N(4), "z"), Row(NoNumber, "?")>>))},
   Asia |-> {Gone, Asia(Detail(9, <<Row(N(1), "ja"), Row(N(2), "ja")>>))},
   YuGiOh |-> {Gone, [list |-> <<Set("LOB", "Legend", 1)>>,
                      dump |-> <<Printing("LOB", "D", "Legend"), Printing("LOBEN", "D", "Legend"),
                                 Printing("LOBE", "D", "Legend"), Printing("", "D", "Legend")>>],
               [list |-> <<Set("LOB", "Legend!", 1)>>, dump |-> <<Printing("LOBEN", "D", "Other")>>]},
   Bandai |-> {[pages |-> [gallery |-> <<Row(Padded(N(1)), "K"), Row(N(1), "k")>>,
                           promos |-> <<Row(Number("J", 1), "L"), Row(Number("TA", 1), "M")>>]],
               [pages |-> [gallery |-> <<Row(N(1), "K")>>, promos |-> Bad]]},
   Digi |-> {Gone, [list |-> <<[no |-> Number("st", 1), name |-> "G", rarity |-> "", packs |-> {"Starter", "Dots"}],
                               [no |-> Number("ST", 1), name |-> "G", rarity |-> "", packs |-> {"Starter"}]>>]}]

Draft(no, lang) == [no |-> no, lang |-> lang]
LOB(pre) == Padded(Number(pre, 1))
MCDrafts ==
  [Magic |-> {[name |-> "Elf", amount |-> 1], [name |-> "ELF", amount |-> 2]},
   West |-> {Draft(WithTotal(N(4)), "de")}, Asia |-> {Draft(N(1), "ja")},
   YuGiOh |-> {Draft(LOB("LOBEN"), "en"), Draft(LOB("LOB"), "en"), Draft(LOB("LOB"), "de"), Draft(N(1), "en")},
   Bandai |-> {Draft(N(1), "en"), Draft(Padded(N(1)), "de"), Draft(Number("J", 1), "en")},
   Digi |-> {Draft(Number("ST", 1), "en"), Draft(Number("st", 1), "de")}]

Line(qty, name) == [qty |-> qty, name |-> name]
MCTexts == {<<Line(0, "Elf")>>, <<Line(2, "Elf"), Line(0, "Owl"), Line(1, "ELF")>>,
            <<Line(1, "ElfM21"), Line(3, "Owl")>>, <<Line(1, "Elf"), Line(1, "ElfM21")>>}

\* Records and set lists of former versions: a former western id, a Japanese set name.
Folder(parts, cards, legacy) ==
  [cards |-> cards, sets |-> [p \in parts |-> Missing], packs |-> [p \in parts |-> Missing],
   legacy |-> [p \in parts |-> IF p \in DOMAIN legacy THEN legacy[p] ELSE Missing]]
Empty(parts) == Folder(parts, {}, <<>>)
Card(p, set, name, no) ==
  [region |-> p, set |-> set, name |-> name, date |-> 0, no |-> no, lang |-> "en"]
MCContents ==
  [Magic |-> {Empty({"Magic"})},
   Pokemon |-> {Folder({"West", "Asia"}, {Card("West", "old", "Older", N(4)), Card("Asia", "old", "ja", N(1))},
                       [Asia |-> {Set("PM1", "ja", 0)}])},
   YuGiOh |-> {Empty({"YuGiOh"})}, Bandai |-> {Empty({"Bandai"})}, Digi |-> {Empty({"Digi"})}]

\* The data folder moves in two of the games; the handler is the same in all.
MCMaxCards == [g \in DOMAIN MCContents |-> IF g \in {"Digi", "Pokemon"} THEN 1 ELSE 2]
MCMaxFaults == [g \in DOMAIN MCContents |-> 1]
MCMaxMoves == [g \in DOMAIN MCContents |-> IF g \in {"Magic", "Digi"} THEN 1 ELSE 0]

\* The tables: three cards per game, of which each column has two that are
\* equal, and of which the older set comes last by name.  A rarity is known by
\* its short code or, when it has none, shows nothing.
Text(n) == [low |-> n, caps |-> FALSE]
Sample(name, set, rarity, on) ==
    [name |-> Text(name), set |-> Text(set), date |-> 9 - set, no |-> Text(10 + name),
     region |-> Text(20), rarity |-> Text(rarity), amount |-> Text(33 - name),
     condition |-> Text(40 + set), language |-> Text(51 - name), note |-> Text(60 + rarity),
     holo |-> on, foil |-> on, first |-> ~ on, signed |-> on, altered |-> on]
MCRarityShortCode ==
    [r \in {Text(1), Text(2), Text(3)} |-> Text(IF r.low = 3 THEN 0 ELSE 75 - r.low)]
MCSampleCards ==
    [g \in DOMAIN MCContents |->
        {Sample(1, 1, 3, TRUE), Sample(1, 2, 1, FALSE), Sample(2, 1, 2, FALSE)}]
====
