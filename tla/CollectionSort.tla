--------------------------- MODULE CollectionSort ---------------------------
(***************************************************************************)
(* Comparing items and sorting collections (collection/collection_cmp.c).  *)
(* cols is a function from names of collections to collections; an item of *)
(* type REF names in sub the collection it refers to.                      *)
(***************************************************************************)
EXTENDS CollectionTyped

\* strncasecmp() or strncmp() over n characters: negative, 0 or positive.  A
\* string that ends goes before one that goes on.
Compared(a, b, n) ==
    LET At(s, i) == IF i <= Len(s) THEN s[i] ELSE 0
        differ == {i \in 1 .. n : At(a, i) # At(b, i)}
    IN  IF differ = {} THEN 0 ELSE At(a, Min(differ)) - At(b, Min(differ))

\* Bounded by a dot or by the end of the name, from position i for n characters.
DotBefore(name, i) == i = 1 \/ name[i - 1] = DOT
DotAfter(name, i, n) == i + n > Len(name) \/ name[i + n] = DOT

\* strcasestr(): where the first occurrence begins; 0 if there is none.
Occurrence(name, part) ==
    LET at == {i \in 1 .. Len(name) - Len(part) + 1 : SubSeq(name, i, i + Len(part) - 1) = part}
    IN  IF at = {} THEN 0 ELSE Min(at)

\* A comparison is the criteria by which two items differ and those by which the
\* second is found greater.
Comparison(differ, flag, less) == [differ |-> differ, out |-> IF less THEN {flag} ELSE {}]

\* The ways to compare names; only the first says which one is greater.
CompareProps(a, b, mode, dot) ==
    LET n == Len(b)
        found == Occurrence(a, b)
    IN  CASE mode = "PROP_EQU" ->
                Comparison(a # b, "PROP_STR", Compared(a, b, n) < 0)
          [] mode = "PROP_BEG" ->
                Comparison(~(/\ Len(a) >= n /\ Compared(a, b, n) = 0
                             /\ dot => DotAfter(a, 1, n)), "", FALSE)
          [] mode = "PROP_MID" ->
                Comparison(~(/\ Len(a) >= n /\ found # 0
                             /\ dot => DotBefore(a, found) /\ DotAfter(a, found, n)), "", FALSE)
          [] mode = "PROP_END" ->
                Comparison(~(/\ Len(a) >= n /\ SubSeq(a, Len(a) - n + 1, Len(a)) = b
                             /\ dot => DotBefore(a, Len(a) - n + 1)), "", FALSE)

\* Data of the same type: strings only of the same length, binary data without
\* an order; a collection is never the same as another.
CompareData(a, b) ==
    CASE a.type # b.type -> Comparison(TRUE, "", FALSE)
      [] a.type = b.type /\ a.type = "STRING" ->
            IF a.length # b.length THEN Comparison(TRUE, "", FALSE)
            ELSE Comparison(Compared(a.data, b.data, a.length) # 0, "DATA",
                            Compared(a.data, b.data, a.length) < 0)
      [] a.type = b.type /\ a.type = "BINARY" ->
            Comparison(a.length # b.length \/ a.data # b.data, "", FALSE)
      [] a.type = b.type /\ a.type \in DOMAIN SizeOf ->
            Comparison(a.data # b.data, "DATA", a.data[1] < b.data[1])
      [] OTHER -> Comparison(TRUE, "", FALSE)

Modes == {"PROP_EQU", "PROP_BEG", "PROP_MID", "PROP_END"}

col_compare_items(a, b, in) ==
    LET parts ==
            {CompareProps(a.prop, b.prop, m, "PROP_DOT" \in in) : m \in in \cap Modes}
            \cup (IF "PROP_LEN" \notin in THEN {} ELSE
                  {Comparison(Len(a.prop) # Len(b.prop), "PROP_LEN", Len(a.prop) < Len(b.prop))})
            \cup (IF "TYPE" \notin in THEN {} ELSE {Comparison(a.type # b.type, "", FALSE)})
            \cup (IF "DATA_LEN" \notin in THEN {} ELSE
                  {Comparison(a.length # b.length, "DATA_LEN", a.length < b.length)})
            \cup (IF "DATA" \notin in THEN {} ELSE {CompareData(a, b)})
    IN  [differ |-> \E r \in parts : r.differ, out |-> UNION {r.out : r \in parts}]

\* They are swapped if they differ and the second is greater in no way.
Swapped(a, b, in) ==
    LET r == col_compare_items(a, b, in) IN r.differ /\ r.out = {}

\* The item at j + 1 goes up as long as it is swapped with the one before it:
\* to behind the last one, k, that it is not swapped with.
Bubble(s, j, in) ==
    LET k == Max({0} \cup {i \in 1 .. j : ~Swapped(s[i], s[j + 1], in)})
    IN  SubSeq(s, 1, k) \o <<s[j + 1]>> \o SubSeq(s, k + 1, j) \o SubSeq(s, j + 2, Len(s))

\* The loop over the array, from the front to the end.
Ordered(s, in) ==
    LET The(S) == CHOOSE x \in S : TRUE
    IN  FoldLeftDomain(LAMBDA t, i : The({IF i = Len(s) THEN u ELSE Bubble(u, i, in) : u \in {t}}), s, s)

\* Mutant: the last item of a collection sorted downwards is not set.
Chained_last(c, items, sort) ==
    [c EXCEPT !.list = <<Head(@)>> \o (IF "DESC" \in sort THEN Reverse(items) ELSE items),
              !.last = Last(items).id]

\* The chain is built back, in this or the other direction.
Chained(c, items, sort) ==
    LET chain == IF "DESC" \in sort THEN Reverse(items) ELSE items
    IN  [c EXCEPT !.list = <<Head(@)>> \o chain, !.last = Last(chain).id]

\* The collections a call comes to: those it is told to leave alone are not
\* looked into either.
RECURSIVE Sorted(_, _, _)
Sorted(cols, name, sort) ==
    IF {"SUB", "MYSUB"} \subseteq sort /\ cols[name].refs > 1 THEN {}
    ELSE {name} \cup (IF "SUB" \notin sort THEN {}
                      ELSE UNION {Sorted(cols, it.sub, sort) :
                                     it \in {x \in Range(Tail(cols[name].list)) : x.type = REF}})

\* Every one of them is sorted for itself.
col_sort_collection(cols, name, in, sort) ==
    LET sorted == Sorted(cols, name, sort)
    IN  [n \in DOMAIN cols |->
            IF n \notin sorted THEN cols[n]
            ELSE Chained(cols[n], Ordered(Tail(cols[n].list), in), sort)]

\* A collection without items has no first and no last one to chain: what is
\* before and in an array of no elements is written to and read.
SortsEmpty(cols, name, sort) == \E n \in Sorted(cols, name, sort) : Len(cols[n].list) = 1
=============================================================================
