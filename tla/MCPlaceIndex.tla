---- MODULE MCPlaceIndex ----
EXTENDS PlaceIndex
MCKinds == {"district", "mandal", "beach"}
Kakinada == <<<<"kaki", "nada">>>>
Visakha == <<<<"visakha">>>>
Vizag == <<<<"vizag">>>>
RkBeach == <<<<"rk">>, <<"beach">>>>
KakinadaBeach == Kakinada \o <<<<"beach">>>>
Coast == <<
    Place(Kakinada, "district", Unset, "AP", <<>>),
    Place(Visakha, "district", Unset, "AP", <<Vizag>>),
    Place(RkBeach, "beach", Visakha, "AP", <<<<<<"sands">>>>>>),
    Place(KakinadaBeach, "beach", Kakinada, "AP", <<>>)>>
Inland == <<
    Place(Kakinada, "district", Unset, "AP", <<>>),
    Place(Vizag, "district", Unset, "TS", <<>>),
    Place(Kakinada, "mandal", Kakinada, "AP", <<Vizag>>)>>
MCCorpora == <<Coast, Inland>>
MCFragments == {<<>>, Kakinada, Vizag, RkBeach, KakinadaBeach, <<<<"sands">>>>,
    <<<<"near">>>> \o KakinadaBeach, <<<<"near">>, <<"kaki", "naba">>>>,
    <<<<"near">>>>}
MCPriors == {NoPrior, [district |-> Kakinada, state |-> "AP"],
             [district |-> Visakha, state |-> NoState], [district |-> Unset, state |-> "TS"]}
Sound(piece) == IF piece = "naba" THEN "nada" ELSE piece
Sounds(t) == IF t = <<"beach">> THEN <<t, <<"rk", "beach">>>>
             ELSE <<[i \in DOMAIN t |-> Sound(t[i])]>>
Ratio(a, b) == IF a = b THEN 100
               ELSE IF IsInfix(a, b) \/ IsInfix(b, a) THEN 90
               ELSE IF ToSet(a) \cap ToSet(b) # {} THEN 75 ELSE 40
====
