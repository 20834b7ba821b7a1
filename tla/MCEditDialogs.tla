--------------------------- MODULE MCEditDialogs ----------------------------
EXTENDS EditDialogs

West == "west"
TwoRegions == {"west", "asia"}
SmallSetsOf == [r \in TwoRegions |-> IF r = "west" THEN {"base", "jungle"} ELSE {"promo"}]
SmallFirst  == [r \in TwoRegions |-> IF r = "west" THEN "base" ELSE "promo"]

P(n, m, r) == [name |-> n, number |-> m, rarity |-> r]

\* The same card in two sets: two numbers, one of them in two rarities; both numbers
\* in the other order, behind a print without a number. None of it in a third.
SmallListing ==
    [base   |-> <<P("Pikachu", 1, "common"), P("Pikachu", 1, "rare"), P("Pikachu", 2, "common")>>,
     jungle |-> <<>>,
     promo  |-> <<P("Pikachu", 0, "rare"), P("Pikachu", 2, "rare"), P("Pikachu", 1, "rare")>>]

\* Yu-Gi-Oh!: a number in two rarities whose first print is European, another number,
\* and a set whose id ends in a digit.
Code(s, r, n) == [set |-> s, region |-> r, no |-> <<n>>]
Print3(s, r, n, y) == [code |-> Code(s, r, n), rarity |-> y, name |-> "Pikachu"]
SmallDigits == [s \in {"LOB", "RA04", "none"} |-> IF s = "RA04" THEN <<4>> ELSE <<>>]
SmallNumbers == {<<>>, <<3>>, <<5>>, <<1>>}
SmallPrintings ==
    [s \in {"LOB", "RA04"} |->
       IF s = "LOB" THEN <<Print3(s, "E", 3, "rare"), Print3(s, "EN", 5, "common"),
                           Print3(s, "EN", 5, "rare"), Print3(s, "EN", 3, "")>>
       ELSE <<Print3(s, "EN", 1, "rare"), Print3(s, "EN", 2, "rare")>>]

\* Bandai: the prints of a name in different sets. One has no rarity and is of a set that
\* is not in the list; another has no number, as promotional cards by name.
Upper(s) == IF s = "b1" THEN "B1" ELSE s
SmallNormal == [s \in {"", "b1", "B1", "B2"} |-> Upper(s)]
BPrint(m, r, l, s) == [name |-> "Pikachu", number |-> m, rarity |-> r, language |-> l, set |-> s]
SmallBandaiPrints ==
    LET one == BPrint("B1", "Common", "Japanese", "first")
        two == BPrint("B2", "", "Japanese", "gone")
        promo == BPrint("", "Common", "Japanese", "none")
    IN  [s \in {"first", "second", "none"} |->
           IF s = "second" THEN <<promo, two, one>> ELSE <<one, promo, two>>]

\* Digi-Battle: two numbers of a name in one set, in the other one of them.
DPrint(m, s) == [name |-> "Pikachu", number |-> m, set |-> s]
SmallDigiPrints == <<DPrint("B1", "first"), DPrint("B2", "first"), DPrint("B2", "second")>>
=============================================================================
