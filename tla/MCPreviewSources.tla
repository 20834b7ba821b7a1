------------------------------- MODULE MCPreviewSources -------------------------------
EXTENDS PreviewSources

N(v) == Number("", v)
Row(name, no, set, rarity, img) ==
  [name |-> name, no |-> no, set |-> set, rarity |-> rarity, img |-> img]
WithSuffix(r, suffix) ==
  [name |-> r.name, no |-> r.no, set |-> r.set, rarity |-> r.rarity, img |-> r.img,
   suffix |-> suffix]

MCLegacyAliases == [old |-> "S"]
MCReissues == [Sre |-> "S"]
MCTitles == {<<"A Strikes", "A">>}
MCRarityCodes == [Ultra |-> "u"]
MCFiles == {[rarity |-> "u", edition |-> "UE"], [rarity |-> "", edition |-> "1E"]}

\* Set "S" is catalogued: 1 has an image, 2 has none, 3 and 5 are titles with A in
\* them and share a picture, 4 was seeded with another card's Japanese name.
Entry(no, en, ja, url) == [set |-> "S", no |-> no, en |-> en, ja |-> ja, url |-> url]
MCCatalogPrints ==
  <<Entry(N(1), "A", "a", "u1"), Entry(N(2), "A", "", ""), Entry(N(3), "A Strikes", "", "u3"),
    Entry(N(4), "B", "x", "u4"), Entry(N(5), "A Strikes", "", "u3")>>

YgoRow1 == Row("A", Number("EN", 1), "S", "c", TRUE)
YgoRow2 == Row("B", Number("EN", 1), "S", "c", FALSE)
MCYgoCatalogs == {Nothing, <<YgoRow1>>, <<YgoRow2, YgoRow1>>}

MCRowsOf ==
  [magic |-> {Row("A", N(1), "S", "c", b) : b \in BOOLEAN},
   pokemon |-> {Row("A", N(1), "S", "c", TRUE), Row("A", Padded(N(1)), "S", "c", FALSE),
                Row("A", N(1), "S", "u", FALSE), Row("A", N(11), "T", "c", TRUE),
                Row("B", N(11), "S", "c", TRUE), Row("", NoNumber, "S", "c", FALSE)},
   japanese |-> {Row("a", N(1), "S", "c", TRUE), Row("a", Padded(N(1)), "S", "c", FALSE),
                 Row("a", N(2), "S", "c", TRUE), Row("b", N(4), "S", "c", FALSE),
                 Row("", N(3), "S", "u", FALSE)},
   yugioh |-> {YgoRow1, YgoRow2, [YgoRow1 EXCEPT !.rarity = "u"],
               Row("A", Number("E", 1), "S", "c", TRUE), Row("A", Number("EN", 11), "S", "c", FALSE),
               Row("B", Number("EN", 1), "T", "c", TRUE)},
   bandai |-> {WithSuffix(Row("A", N(1), "", "c", TRUE), "bandai"),
               WithSuffix(Row("A", Padded(N(1)), "", "c", TRUE), "sealdass"),
               WithSuffix(Row("A", N(118), "", "c", TRUE), "english"),
               WithSuffix(Row("B", N(45), "", "u", TRUE), "bandai"),
               WithSuffix(Row("B", Number("J", 1), "", "u", TRUE), ""),
               WithSuffix(Row("A", Number("TA", 1), "", "u", TRUE), "")},
   digi |-> {Row("A", Number("ST", 1), {"S"}, "", TRUE), Row("A", Number("ST", 11), {"S", "T"}, "", TRUE),
             Row("B", Padded(Number("ST", 1)), {"T"}, "", TRUE), Row("A", NoNumber, {"S"}, "", TRUE)}]

Call3(names, sets, nos) ==
  [op : {"image", "byName", "byNumber"}, name : names, set : sets, no : nos,
   rarity : {""}, first : {FALSE}]
MCAsksOf ==
  [magic |-> {a \in Call3({"A"}, {"S"}, {NoNumber}) : a.op = "image"},
   pokemon |-> Call3({"", "A"}, {"", "old", "S"}, {NoNumber, N(1), WithTotal(Padded(N(1)))}),
   japanese |-> Call3({"", "A", "a"}, {"", "S", "T"},
                      {NoNumber, N(1), N(2), N(4), WithTotal(Padded(N(1)))}),
   yugioh |-> Call3({"", "A"}, {"", "S", "Sre"}, {NoNumber, Number("", 1), Number("EN", 1)})
              \cup {[op |-> "image", name |-> "A", set |-> "S", no |-> Number("EN", 1),
                     rarity |-> q, first |-> b] : q \in {"Ultra", "Odd"}, b \in BOOLEAN},
   bandai |-> Call3({"", "A"}, {"", "ban1", "bansealdass", "banpromo-j"},
                    {NoNumber, Padded(N(1)), N(118), Number("J", 1), Number("TA", 1)}),
   digi |-> Call3({"", "A"}, {"", "S"}, {NoNumber, N(1), Padded(Number("ST", 1))})]
====
