------------------------------ MODULE Gazetteer ------------------------------
(***************************************************************************)
(* The district and mandal lists that turn the words of a caller into a    *)
(* canonical place (enrichment/geocoders/json_gazetteer.py).               *)
(*                                                                         *)
(* A form (a name or a variant) and a caller's words are sequences of      *)
(* words. An entry is a record [name, state, district, forms]; district is *)
(* None for a district and the parent's name for a mandal. Similarity of   *)
(* spelling is given: Score(f, raw) stands for rapidfuzz's WRatio. The     *)
(* length of a form is its number of words.                                *)
(***************************************************************************)
EXTENDS Naturals, Sequences

CONSTANTS
    Districts,    \* the entries of the district file, in file order
    Mandals,      \* the entries of the mandal file, in file order
    MinScore,     \* below this a spelling does not count (80 in the code)
    Score(_, _)   \* how alike a form and a caller's words are spelt, 0 .. 100

LOCAL S == INSTANCE SequencesExt

None == "none"
NoEntry == [name |-> None, state |-> None, district |-> None, forms |-> <<>>]

IsMandal(e) == e.district # None

\* What __post_init__ registers, in order: mandals first, so that a district of
\* the same name overwrites them.
Registered ==
    LET all == Mandals \o Districts
    IN  S!FlattenSeq([i \in 1 .. Len(all) |->
            [j \in 1 .. Len(all[i].forms) |-> <<all[i].forms[j], all[i]>>]])

Forms == {Registered[i][1] : i \in 1 .. Len(Registered)} \ {<<>>}

FirstAt(f) == CHOOSE i \in 1 .. Len(Registered) :
    Registered[i][1] = f /\ \A j \in 1 .. i - 1 : Registered[j][1] # f

\* _exact_by_form and _form_to_entry: the last registration of a form wins.
EntryOf(f) ==
    LET at == CHOOSE i \in 1 .. Len(Registered) :
                 /\ Registered[i][1] = f
                 /\ \A j \in i + 1 .. Len(Registered) : Registered[j][1] # f
    IN  Registered[at][2]

\* f occurs in raw as whole words.
OccursIn(f, raw) ==
    \E i \in 0 .. Len(raw) - Len(f) : SubSeq(raw, i + 1, i + Len(f)) = f

\* The order in which _substring_match tries forms: longest first, and forms of
\* one length in the order in which they were first registered.
Preferred(f, g) ==
    Len(f) > Len(g) \/ (Len(f) = Len(g) /\ FirstAt(f) < FirstAt(g))

\* The form that the whole words of raw name, of those that occur in it.
SubstringForm(raw) ==
    LET hits == {f \in Forms : OccursIn(f, raw)}
    IN  CHOOSE f \in hits : \A g \in hits \ {f} : Preferred(f, g)

\* The forms spelt closely enough.
Close(raw) == {f \in Forms : Score(f, raw) >= MinScore}

\* The best of them; the first registered of equals.
FuzzyForm(raw) ==
    CHOOSE f \in Close(raw) : \A g \in Close(raw) \ {f} :
        \/ Score(f, raw) > Score(g, raw)
        \/ Score(f, raw) = Score(g, raw) /\ FirstAt(f) < FirstAt(g)

\* The entry that raw resolves to, or NoEntry.
Resolve(raw) ==
    IF raw = <<>> THEN NoEntry
    ELSE IF raw \in Forms THEN EntryOf(raw)
    ELSE IF \E f \in Forms : OccursIn(f, raw) THEN EntryOf(SubstringForm(raw))
    ELSE IF Close(raw) # {} THEN EntryOf(FuzzyForm(raw))
    ELSE NoEntry

\* The canonical string: "District, State" or "Mandal, District, State".
Resolved(e) ==
    IF e = NoEntry THEN <<>>
    ELSE IF IsMandal(e) THEN <<e.name, e.district, e.state>> ELSE <<e.name, e.state>>
=============================================================================
