----------------------------------- MODULE CardTables -----------------------------------
(* What the tables of the five games show, sort by and find by. Each of the three is   *)
(* written down for each game on its own: the cells and icons in its list panel, the    *)
(* sort keys in CardSorter, the fields in CardFilter. A text is [low, caps]: its lower-  *)
(* case form, a number in the order of such forms, and whether it has capitals. Amounts  *)
(* are texts as well; what is typed into the filter is a whole field.                   *)
EXTENDS Naturals, SequencesExt

CONSTANTS RarityShortCode, \* rarity -> its short code, of Yu-Gi-Oh!
          SampleCards      \* game -> some cards

IsText(t) == t = [low |-> t.low, caps |-> t.caps] /\ t.low \in Nat

ASSUME SamplesAssumption ==
  \A g \in DOMAIN SampleCards :
    /\ IsFiniteSet(SampleCards[g])
    /\ \A c \in SampleCards[g] :
         /\ c.date \in Nat
         /\ \A t \in {c.name, c.set, c.no, c.region, c.rarity, c.amount, c.condition, c.language,
                      c.note} : IsText(t)
         /\ g = "YuGiOh" => IsText(RarityShortCode[c.rarity])

LowerCase(t) == t.low
Flag(b) == IF b THEN 1 ELSE 0

------------------------------------------------------------------------------------
(* A row: the text of its columns, the icons that are set.                          *)

MagicCells(c) ==
  [name |-> c.name, set |-> c.set, amount |-> c.amount, condition |-> c.condition,
   language |-> c.language, note |-> c.note]
PokemonCells(c) ==
  [name |-> c.name, set |-> c.set, amount |-> c.amount, condition |-> c.condition,
   language |-> c.language, note |-> c.note]
YuGiOhCells(c) ==
  [name |-> c.name, set |-> c.set, amount |-> c.amount, rarity |-> RarityShortCode[c.rarity],
   condition |-> c.condition, language |-> c.language, note |-> c.note]
BandaiCells(c) ==
  [name |-> c.name, set |-> c.set, no |-> c.no, rarity |-> c.rarity, amount |-> c.amount,
   condition |-> c.condition, language |-> c.language, note |-> c.note]
DigiCells(c) ==
  [name |-> c.name, set |-> c.set, amount |-> c.amount, condition |-> c.condition,
   language |-> c.language, note |-> c.note]

Cells(g, c) ==
  CASE g = "Magic" -> MagicCells(c) [] g = "Pokemon" -> PokemonCells(c) [] g = "YuGiOh" -> YuGiOhCells(c)
    [] g = "Bandai" -> BandaiCells(c) [] g = "Digi" -> DigiCells(c)

Icons(g) ==
  CASE g = "Magic" -> {"foil", "signed", "altered"} [] g = "YuGiOh" -> {"first", "signed", "altered"}
    [] g = "Bandai" -> {"holo", "signed", "altered"}
    [] OTHER -> {"holo", "first", "signed", "altered"}

------------------------------------------------------------------------------------
(* Sorting: the key of each column. The set's is its release date.                  *)

MagicSortKeys(c) ==
  [name |-> LowerCase(c.name), set |-> c.date, language |-> LowerCase(c.language),
   condition |-> LowerCase(c.condition), amount |-> LowerCase(c.amount), foil |-> Flag(c.foil),
   signed |-> Flag(c.signed), altered |-> Flag(c.altered), note |-> LowerCase(c.note)]
PokemonSortKeys(c) ==
  [name |-> LowerCase(c.name), set |-> c.date, language |-> LowerCase(c.language),
   condition |-> LowerCase(c.condition), amount |-> LowerCase(c.amount), holo |-> Flag(c.holo),
   first |-> Flag(c.first), signed |-> Flag(c.signed), altered |-> Flag(c.altered),
   note |-> LowerCase(c.note)]
YuGiOhSortKeys(c) ==
  [name |-> LowerCase(c.name), set |-> c.date, language |-> LowerCase(c.language),
   condition |-> LowerCase(c.condition), amount |-> LowerCase(c.amount),
   rarity |-> LowerCase(RarityShortCode[c.rarity]), first |-> Flag(c.first),
   signed |-> Flag(c.signed), altered |-> Flag(c.altered), note |-> LowerCase(c.note)]
BandaiSortKeys(c) ==
  [name |-> LowerCase(c.name), set |-> c.date, no |-> LowerCase(c.no), rarity |-> LowerCase(c.rarity),
   language |-> LowerCase(c.language), condition |-> LowerCase(c.condition), amount |-> LowerCase(c.amount),
   holo |-> Flag(c.holo), signed |-> Flag(c.signed), altered |-> Flag(c.altered), note |-> LowerCase(c.note)]
DigiSortKeys(c) ==
  [name |-> LowerCase(c.name), set |-> c.date, language |-> LowerCase(c.language),
   condition |-> LowerCase(c.condition), amount |-> LowerCase(c.amount), holo |-> Flag(c.holo),
   first |-> Flag(c.first), signed |-> Flag(c.signed), altered |-> Flag(c.altered),
   note |-> LowerCase(c.note)]

SortKeys(g, c) ==
  CASE g = "Magic" -> MagicSortKeys(c) [] g = "Pokemon" -> PokemonSortKeys(c) [] g = "YuGiOh" -> YuGiOhSortKeys(c)
    [] g = "Bandai" -> BandaiSortKeys(c) [] g = "Digi" -> DigiSortKeys(c)

Directional(a, b, ascending) == IF ascending THEN a < b ELSE b < a

\* std::stable_sort: a row goes after all that it does not precede.
InsertRow(g, sorted, c, column, ascending) ==
  InsertAt(sorted,
           1 + Cardinality({i \in DOMAIN sorted :
                  ~Directional(SortKeys(g, c)[column], SortKeys(g, sorted[i])[column], ascending)}),
           c)

SortCards(g, s, column, ascending) ==
  LET sorted[n \in 0 .. Len(s)] ==
        IF n = 0 THEN <<>> ELSE InsertRow(g, sorted[n - 1], s[n], column, ascending)
  IN  sorted[Len(s)]

------------------------------------------------------------------------------------
(* Finding: the fields that may contain what is typed.                              *)

MagicFields(c) == {c.name, c.set, c.language, c.condition, c.amount, c.note}
PokemonFields(c) == {c.name, c.set, c.no, c.language, c.condition, c.amount, c.note, c.region}
\* As YuGiOhFields, by the rarity in full only.
YuGiOhFieldsInFull(c) ==
  {c.name, c.set, c.no, c.rarity, c.language, c.condition, c.amount, c.note}
YuGiOhFields(c) ==
  {c.name, c.set, c.no, c.rarity, RarityShortCode[c.rarity], c.language, c.condition,
   c.amount, c.note}
BandaiFields(c) == {c.name, c.set, c.no, c.rarity, c.language, c.condition, c.amount, c.note}
DigiFields(c) == {c.name, c.set, c.no, c.language, c.condition, c.amount, c.note}

Fields(g, c) ==
  CASE g = "Magic" -> MagicFields(c) [] g = "Pokemon" -> PokemonFields(c) [] g = "YuGiOh" -> YuGiOhFields(c)
    [] g = "Bandai" -> BandaiFields(c) [] g = "Digi" -> DigiFields(c)

Finds(g, c, typed) == LowerCase(typed) \in {LowerCase(t) : t \in Fields(g, c)}

------------------------------------------------------------------------------------

\* The cells of the column that was clicked are in order, sets by release date; rows that
\* are equal in it stay as the click before left them, in either direction.
SortsByWhatIsShown(g) ==
  \A s \in SetToSeqs(SampleCards[g]) :
    \A c1, c2 \in DOMAIN SortKeys(g, s[1]), up1, up2 \in BOOLEAN :
      LET first == SortCards(g, s, c1, up1)
          second == SortCards(g, first, c2, up2)
          Shown(c) == CASE c2 = "set" -> c.date [] c2 \in Icons(g) -> Flag(c[c2])
                        [] OTHER -> LowerCase(Cells(g, c)[c2])
          Place(c) == CHOOSE i \in DOMAIN first : first[i] = c
      IN  \A j \in DOMAIN second : \A i \in 1 .. j - 1 :
            LET a == second[i]
                b == second[j]
            IN  \/ IF up2 THEN Shown(a) < Shown(b) ELSE Shown(b) < Shown(a)
                \/ Shown(a) = Shown(b) /\ Place(a) < Place(b)

\* Whatever a row shows in its text columns finds it, typed in capitals or not.
FindsWhatIsShown(g) ==
  \A c \in SampleCards[g] : \A column \in DOMAIN Cells(g, c), caps \in BOOLEAN :
    Finds(g, c, [Cells(g, c)[column] EXCEPT !.caps = caps])

TablesThatAgree ==
  {g \in DOMAIN SampleCards : SortsByWhatIsShown(g) /\ FindsWhatIsShown(g)}
====
