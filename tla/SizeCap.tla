------------------------------ MODULE SizeCap --------------------------------
(***************************************************************************)
(* How a report is brought within a size cap, packages/markdown-projection *)
(* /src/diff/size-cap.ts: section by section, in the order of importance,  *)
(* each shown whole, as names only, or omitted. A note that names what was *)
(* shortened and omitted is part of what is measured.                      *)
(*                                                                         *)
(* A section is what it takes whole and as names only, in bytes, None for  *)
(* one that has no such form, and what naming it in the note takes. A page *)
(* is the sections, most important first, the heading's bytes, those of a  *)
(* claim of the note besides the names, and the cap.                       *)
(***************************************************************************)
EXTENDS Integers, Sequences, FiniteSets, SequencesExt

None == 0

\* plainSection offers names only where that is smaller.
Section(whole, names, title) ==
    [whole |-> whole, short |-> IF names < whole THEN names ELSE None, title |-> title]

HasShort(section) == section.short # None

Indexes(page) == DOMAIN page.sections
Forms == {"full", "short", "omitted"}
BytesOf(section, form) ==
    CASE form = "full" -> section.whole
      [] form = "short" -> section.short
      [] form = "omitted" -> 0

\* omissionNote: a claim for the sections that are short and one for those omitted, and their names.
NoteBytes(page, forms) ==
    LET named == {i \in Indexes(page) : forms[i] # "full"}
    IN  page.note * Cardinality({forms[i] : i \in named})
            + MapThenSumSet(LAMBDA i : page.sections[i].title, named)

Size(page, forms) ==
    page.heading + NoteBytes(page, forms)
        + MapThenSumSet(LAMBDA i : BytesOf(page.sections[i], forms[i]), Indexes(page))

Fits(page, forms) == Size(page, forms) <= page.cap

All(page, form) == [i \in Indexes(page) |-> form]

-----------------------------------------------------------------------------
(* place: the form a section takes *)

FormsOf(section) == IF HasShort(section) THEN <<"full", "short">> ELSE <<"full">>

\* A list that is whole below one of names only, though names only would be smaller.
OutOfOrder(page, forms, i) ==
    /\ HasShort(page.sections[i]) /\ forms[i] = "full"
    /\ \E j \in 1..(i - 1) : forms[j] = "short"
    /\ Size(page, [forms EXCEPT ![i] = "short"]) < Size(page, forms)

OutOfOrderIn(page, forms) == {i \in Indexes(page) : OutOfOrder(page, forms, i)}

Refused == <<"refused">>

\* orderBelow: a list below the placed section gives way, one above it is not touched.
OrderBelow(page, forms, index) ==
    LET below[f \in [Indexes(page) -> Forms]] ==
            LET disordered == OutOfOrderIn(page, f)
            IN  IF disordered = {} THEN f
                ELSE IF Min(disordered) <= index THEN Refused
                ELSE below[[f EXCEPT ![Min(disordered)] = "short"]]
    IN  below[forms]

\* Mutant of Ordered: the lists below a section placed late stay as they were.
OrderedNot(page, forms, index) == forms
Ordered(page, forms, index) == OrderBelow(page, forms, index)

\* The smaller form that leaves the page in order and within the cap; whole on a tie.
Smaller(page, best, bytes, ordered) ==
    IF /\ best.forms = Refused \/ bytes < best.bytes
       /\ ordered # Refused
       /\ Fits(page, ordered)
    THEN [forms |-> ordered, bytes |-> bytes] ELSE best

Unless(refused, forms) == IF forms = Refused THEN refused ELSE forms

Place(page, forms, index) ==
    LET Better(best, form) ==
            LET shown == [forms EXCEPT ![index] = form]
            IN  Smaller(page, best, Size(page, shown), Ordered(page, shown, index))
    IN  Unless(forms, FoldLeft(Better, [forms |-> Refused, bytes |-> 0],
                               FormsOf(page.sections[index])).forms)

-----------------------------------------------------------------------------
(* arrangeWithin *)

PlaceEach(page, forms, S) ==
    FoldLeft(LAMBDA f, i : IF f[i] = "omitted" THEN Place(page, f, i) ELSE f,
             forms, SetToSortSeq(S, <))

\* wholeFromTop: the lists are made whole again until one does not fit.
WholeFromTop(page, forms) ==
    LET whole[f \in [Indexes(page) -> Forms]] ==
            LET shorts == {i \in Indexes(page) : f[i] = "short"}
                next == [f EXCEPT ![Min(shorts)] = "full"]
            IN  IF shorts # {} /\ Fits(page, next) THEN whole[next] ELSE f
    IN  whole[forms]

\* Mutant of PutBack: the sections the first pass left out are not tried again.
PutBackOnce(page, forms) == WholeFromTop(page, forms)

\* Until no section still omitted is put back.
PutBack(page, forms) ==
    LET put[whole \in [Indexes(page) -> Forms]] ==
            LET placed == PlaceEach(page, whole, Indexes(page))
            IN  IF placed = whole THEN whole ELSE put[WholeFromTop(page, placed)]
    IN  put[WholeFromTop(page, forms)]

ArrangeWithin(page) ==
    PutBack(page, PlaceEach(page, All(page, "omitted"), Indexes(page)))

\* assemble: whole if it fits, else arranged, and all omitted where nothing can be kept.
KeptOrOmitted(page, arranged) == IF Fits(page, arranged) THEN arranged ELSE All(page, "omitted")
Assemble(page) ==
    IF Fits(page, All(page, "full")) THEN All(page, "full")
    ELSE KeptOrOmitted(page, ArrangeWithin(page))

-----------------------------------------------------------------------------
(* What is promised of an arrangement *)

\* Over the cap only where nothing at all could be kept.
WithinCap(page, forms) == Fits(page, forms) \/ forms = All(page, "omitted")

\* No omitted section would fit back in either form, not even with lists below it made short that
\* would be smaller so.
NothingFitsBack(page, forms) ==
    \A i \in Indexes(page) : forms[i] = "omitted" =>
        \A form \in ToSet(FormsOf(page.sections[i])) :
            LET below == {j \in Indexes(page) : j > i /\ forms[j] = "full" /\ HasShort(page.sections[j])}
                back == [forms EXCEPT ![i] = form]
            IN  \A given \in SUBSET below :
                    ~Fits(page, [j \in Indexes(page) |-> IF j \in given THEN "short" ELSE back[j]])

\* Above the first list that is short each is whole or omitted; below it one is whole only where
\* names only would be no smaller.
InOrder(page, forms) == OutOfOrderIn(page, forms) = {}
=============================================================================
