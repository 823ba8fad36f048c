--------------------------- MODULE IniValueProofs ---------------------------
(***************************************************************************)
(* Proofs about IniValue: a comment has one owner, the value that points   *)
(* to it or the caller, whatever values are made, copied, merged and       *)
(* destroyed and whichever allocations fail; and folding a text of any     *)
(* length loses nothing of it and keeps to the boundary, from an invariant *)
(* of the loop of value_fold and a bound on its turns.                     *)
(***************************************************************************)
EXTENDS IniValue, ProofBasics

(* The inductive invariant: the owners of OneOwner, after errors too, and  *)
(* what kind of thing they own.                                            *)

Typed(v) == "ic" \in DOMAIN v /\ v.ic \in CommentIds \cup {NULL}

Kinds ==
    /\ \A s \in Live : s \in Slots /\ Typed(values[s])
    /\ DOMAIN comments \subseteq CommentIds
    /\ held \subseteq CommentIds

Apart == \A s, t \in Slots : s # t => Owned(s) \cap Owned(t) = {}
Allocated == \A s \in Slots : Owned(s) \subseteq DOMAIN comments \ held
NoneLost == DOMAIN comments \subseteq held \cup UNION {Owned(s) : s \in Slots}

OwnersOK == Kinds /\ Apart /\ Allocated /\ NoneLost

-----------------------------------------------------------------------------
(* Partial functions *)

\* What With does to a function.
LEMMA WithIs ==
    ASSUME NEW f, NEW x, NEW v
    PROVE  /\ DOMAIN With(f, x, v) = DOMAIN f \cup {x}
           /\ With(f, x, v)[x] = v
           /\ \A y \in DOMAIN f : y # x => With(f, x, v)[y] = f[y]
  BY DEF With

\* What Without does to a function.
LEMMA WithoutIs ==
    ASSUME NEW f, NEW x
    PROVE  /\ DOMAIN Without(f, x) = DOMAIN f \ {x}
           /\ \A y \in DOMAIN f : y # x => Without(f, x)[y] = f[y]
  BY DEF Without

\* A value that is folded anew, or that could not be, keeps its comment.
LEMMA FoldedTyped ==
    ASSUME NEW text, NEW keylen, NEW boundary, NEW ic \in CommentIds \cup {NULL}
    PROVE  /\ Typed(Folded(text, keylen, boundary, ic))
           /\ Folded(text, keylen, boundary, ic).ic = ic
  BY DEF Typed, Folded

\* A value whose folding failed has its fields, and its comment.
LEMMA BrokenTyped ==
    ASSUME NEW v, Typed(v), NEW text, NEW keylen, NEW boundary,
           NEW w \in Broken(v, text, keylen, boundary)
    PROVE  Typed(w) /\ w.ic = v.ic
  <1>1. PICK p : w = [v EXCEPT !.text = text, !.keylen = keylen, !.boundary = boundary,
                               !.lines = p, !.whole = FALSE]
    BY DEF Broken
  <1> QED
    BY <1>1 DEF Typed

\* The comment a value owns is the one in its field.
LEMMA OwnedIs ==
    ASSUME NEW s
    PROVE  /\ s \notin Live => Owned(s) = {}
           /\ s \in Live /\ values[s].ic = NULL => Owned(s) = {}
           /\ s \in Live /\ values[s].ic # NULL => Owned(s) = {values[s].ic}
  BY DEF Owned

-----------------------------------------------------------------------------
(* A step that leaves every owner alone.                                   *)

\* The slots in use are the same, and each has the comment it had.
LEMMA OwnedKept ==
    ASSUME Live' = Live, \A s \in Live : values'[s].ic = values[s].ic
    PROVE  \A s \in Slots : Owned(s)' = Owned(s)
  BY DEF Owned, Live

\* Changes inside the values keep the kinds.
LEMMA KindsKept ==
    ASSUME Kinds, Live' = Live, \A s \in Live : Typed(values'[s]),
           DOMAIN comments' \subseteq CommentIds, held' \subseteq CommentIds
    PROVE  Kinds'
  BY DEF Kinds, Live

\* Nobody's comment comes or goes: only lines and texts change.
LEMMA OwnersKept ==
    ASSUME OwnersOK, Live' = Live,
           \A s \in Live : Typed(values'[s]) /\ values'[s].ic = values[s].ic,
           DOMAIN comments' = DOMAIN comments, held' = held
    PROVE  OwnersOK'
  <1>1. \A s \in Slots : Owned(s)' = Owned(s)
    BY OwnedKept
  <1>2. Kinds'
    BY KindsKept DEF OwnersOK, Kinds
  <1> QED
    BY <1>1, <1>2 DEF OwnersOK, Apart, Allocated, NoneLost

\* The owner of one slot changes: what it has now is allocated, nobody else has
\* it, and what it had was freed or is the caller's.
LEMMA OneSlotChanges ==
    ASSUME OwnersOK, Kinds', NEW s \in Slots,
           \A t \in Slots : t # s => Owned(t)' = Owned(t),
           Owned(s)' \subseteq DOMAIN comments' \ held',
           \A t \in Slots : t # s => Owned(s)' \cap Owned(t) = {},
           \A t \in Slots : t # s => Owned(t) \subseteq DOMAIN comments' \ held',
           \A id \in DOMAIN comments' :
              \/ id \in held' \cup Owned(s)'
              \/ id \in DOMAIN comments \ (held \cup Owned(s))
    PROVE  OwnersOK'
  <1>1. Apart'
    BY DEF OwnersOK, Apart
  <1>2. Allocated'
    BY DEF Allocated
  <1>3. NoneLost'
    <2> SUFFICES ASSUME NEW id \in DOMAIN comments', id \notin held'
                 PROVE  \E t \in Slots : id \in Owned(t)'
      BY DEF NoneLost
    <2>1. CASE id \in Owned(s)'
      BY <2>1
    <2>2. CASE id \in DOMAIN comments \ (held \cup Owned(s))
      <3>1. PICK t \in Slots : id \in Owned(t)
        BY <2>2 DEF OwnersOK, NoneLost
      <3> QED
        BY <3>1, <2>2
    <2> QED
      BY <2>1, <2>2
  <1> QED
    BY <1>1, <1>2, <1>3 DEF OwnersOK

-----------------------------------------------------------------------------
(* Comments                                                                *)

\* ini_comment_modify changes lines, not owners.
LEMMA ModifyOwners ==
    ASSUME OwnersOK, NEW id, NEW mode, NEW idx, NEW line, ini_comment_modify(id, mode, idx, line)
    PROVE  OwnersOK'
  <1>1. values' = values /\ held' = held
    BY DEF ini_comment_modify
  <1>2. DOMAIN comments' = DOMAIN comments
    BY DEF ini_comment_modify
  <1> QED
    BY <1>1, <1>2, OwnersKept DEF OwnersOK, Kinds, Live

\* ini_comment_reset changes lines, not owners.
LEMMA ResetOwners ==
    ASSUME OwnersOK, NEW id, ini_comment_reset(id)
    PROVE  OwnersOK'
  <1>1. values' = values /\ held' = held /\ DOMAIN comments' = DOMAIN comments
    BY DEF ini_comment_reset
  <1> QED
    BY <1>1, OwnersKept DEF OwnersOK, Kinds, Live

\* ini_comment_swap changes lines, not owners.
LEMMA SwapOwners ==
    ASSUME OwnersOK, NEW id, NEW i, NEW j, ini_comment_swap(id, i, j)
    PROVE  OwnersOK'
  <1>1. values' = values /\ held' = held /\ DOMAIN comments' = DOMAIN comments
    BY DEF ini_comment_swap
  <1> QED
    BY <1>1, OwnersKept DEF OwnersOK, Kinds, Live

\* A new comment is the caller's.
LEMMA ConstructOwners ==
    ASSUME OwnersOK, NEW id \in CommentIds, NEW lines, ini_comment_construct(id, lines)
    PROVE  OwnersOK'
  <1>1. values' = values /\ held' = held \cup {id} /\ id \notin DOMAIN comments
    BY DEF ini_comment_construct
  <1>2. DOMAIN comments' = DOMAIN comments \cup {id}
    BY WithIs DEF ini_comment_construct
  <1>3. \A s \in Slots : Owned(s)' = Owned(s)
    BY <1>1, OwnedKept DEF Live
  <1>4. Kinds'
    BY <1>1, <1>2 DEF OwnersOK, Kinds, Live
  <1> QED
    BY <1>1, <1>2, <1>3, <1>4 DEF OwnersOK, Apart, Allocated, NoneLost

\* Only a comment the caller owns is destroyed.
LEMMA DestroyCommentOwners ==
    ASSUME OwnersOK, NEW id, ini_comment_destroy(id)
    PROVE  OwnersOK'
  <1>1. values' = values /\ held' = held \ {id} /\ id \in held
    BY DEF ini_comment_destroy
  <1>2. DOMAIN comments' = DOMAIN comments \ {id}
    BY WithoutIs DEF ini_comment_destroy
  <1>3. \A s \in Slots : Owned(s)' = Owned(s)
    BY <1>1, OwnedKept DEF Live
  <1>4. Kinds'
    BY <1>1, <1>2 DEF OwnersOK, Kinds, Live
  <1> QED
    BY <1>1, <1>2, <1>3, <1>4 DEF OwnersOK, Apart, Allocated, NoneLost

-----------------------------------------------------------------------------
(* Values                                                                  *)

\* A value is made with a comment that the caller passes on, or with none.
LEMMA MadeOwners ==
    ASSUME OwnersOK, NEW s \in Slots, s \notin Live, NEW ic \in Passed, NEW v,
           Typed(v), v.ic = ic,
           values' = With(values, s, v), held' = held \ {ic}, comments' = comments
    PROVE  OwnersOK'
  <1>1. /\ Live' = Live \cup {s} /\ values'[s] = v
        /\ \A t \in Live : t # s => values'[t] = values[t]
    BY DEF Live, With
  <1>2. Kinds'
    BY <1>1 DEF OwnersOK, Kinds, Live
  <1>3. \A t \in Slots : t # s => Owned(t)' = Owned(t)
    BY <1>1 DEF Owned, Live
  <1>4. Owned(s)' = {ic} \ {NULL} /\ Owned(s) = {}
    BY <1>1 DEF Owned, Live
  <1>5. ic # NULL => ic \in held \cap DOMAIN comments
    BY DEF Passed
  <1>6. \A t \in Slots : Owned(t) \subseteq DOMAIN comments \ held
    BY DEF OwnersOK, Allocated
  <1>7. \A t \in Slots : Owned(t) \subseteq DOMAIN comments' \ held'
    BY <1>6
  <1>8. Owned(s)' \subseteq DOMAIN comments' \ held'
    BY <1>4, <1>5
  <1>9. \A t \in Slots : Owned(s)' \cap Owned(t) = {}
    BY <1>4, <1>5, <1>6
  <1>10. \A id \in DOMAIN comments' : \/ id \in held' \cup Owned(s)'
                                      \/ id \in DOMAIN comments \ (held \cup Owned(s))
    <2> SUFFICES ASSUME NEW id \in DOMAIN comments, id \in held, id \notin held'
                 PROVE  id \in Owned(s)'
      BY <1>4
    <2>1. id = ic
      OBVIOUS
    <2>2. id # NULL
      BY ValueAssumption DEF OwnersOK, Kinds
    <2> QED
      BY <1>4, <2>1, <2>2
  <1> QED
    BY <1>2, <1>3, <1>7, <1>8, <1>9, <1>10, OneSlotChanges

\* value_create_from_refarray takes the comment, or fails and leaves it.
LEMMA CreateFromRefarrayOwners ==
    ASSUME OwnersOK, NEW s \in Slots, NEW lines, NEW keylen, NEW boundary, NEW ic \in Passed,
           value_create_from_refarray(s, lines, keylen, boundary, ic)
    PROVE  OwnersOK'
  <1>1. CASE values' = values /\ held' = held
    BY <1>1, OwnersKept DEF OwnersOK, Kinds, Live, value_create_from_refarray
  <1>2. CASE values' # values \/ held' # held
    <2>1. PICK v : /\ Typed(v) /\ v.ic = ic
                   /\ values' = With(values, s, v) /\ held' = held \ {ic}
      <3>1. ic \in CommentIds \cup {NULL}
        BY DEF Passed, OwnersOK, Kinds
      <3> DEFINE v == [text |-> Unfold(TrimLast(lines)), lines |-> TrimLast(lines),
                       keylen |-> keylen, boundary |-> boundary, ic |-> ic, whole |-> TRUE]
      <3>2. Typed(v) /\ v.ic = ic
        BY <3>1 DEF Typed
      <3>3. values' = With(values, s, v) /\ held' = held \ {ic}
        BY <1>2 DEF value_create_from_refarray
      <3> QED
        BY <3>2, <3>3
    <2> QED
      BY <2>1, MadeOwners DEF value_create_from_refarray
  <1> QED
    BY <1>1, <1>2

\* value_create_new takes the comment, or fails and leaves it.
LEMMA CreateNewOwners ==
    ASSUME OwnersOK, NEW s \in Slots, NEW text, NEW keylen, NEW boundary, NEW ic \in Passed,
           value_create_new(s, text, keylen, boundary, ic)
    PROVE  OwnersOK'
  <1>1. CASE values' = With(values, s, Folded(text, keylen, boundary, ic)) /\ held' = held \ {ic}
             /\ comments' = comments
    <2>1. ic \in CommentIds \cup {NULL}
      BY DEF Passed, OwnersOK, Kinds
    <2> QED
      BY <1>1, <2>1, FoldedTyped, MadeOwners DEF value_create_new
  <1>2. CASE comments' = Without(comments, ic) /\ values' = values /\ held' = held
    <2>1. DOMAIN comments' = DOMAIN comments \ {ic}
      BY <1>2, WithoutIs
    <2>2. ic # NULL => ic \in held
      BY DEF Passed
    <2>3. \A t \in Slots : Owned(t)' = Owned(t)
      BY <1>2, OwnedKept DEF Live
    <2>4. Kinds'
      BY <1>2, <2>1 DEF OwnersOK, Kinds, Live
    <2>5. NULL \notin DOMAIN comments
      BY ValueAssumption DEF OwnersOK, Kinds
    <2> QED
      BY <1>2, <2>1, <2>2, <2>3, <2>4, <2>5 DEF OwnersOK, Apart, Allocated, NoneLost
  <1> QED
    BY <1>1, <1>2 DEF value_create_new

\* The copy has a comment of its own.
LEMMA CopyOwners ==
    ASSUME OwnersOK, NEW from \in Slots, NEW to \in Slots, value_copy(from, to)
    PROVE  OwnersOK'
  <1>1. held' = held /\ from \in Live /\ to \notin Live
    BY DEF value_copy
  <1>2. PICK c \in Copied(values[from], CommentIds \ (DOMAIN comments \cup held)) :
           values' = With(values, to, c.value) /\ comments' = c.comments
    BY DEF value_copy
  <1>3. /\ Live' = Live \cup {to} /\ values'[to] = c.value
        /\ \A t \in Live : t # to => values'[t] = values[t]
    BY <1>2 DEF Live, With
  <1>4. \A t \in Slots : t # to => Owned(t)' = Owned(t)
    BY <1>3 DEF Owned, Live
  <1>5. \A t \in Slots : Owned(t) \subseteq DOMAIN comments \ held
    BY DEF OwnersOK, Allocated
  <1>6. Owned(to) = {}
    BY <1>1 DEF Owned
  <1>7. CASE values[from].ic = NULL
    <2>1. Typed(c.value) /\ c.value.ic = NULL /\ comments' = comments
      BY <1>2, <1>7, FoldedTyped DEF Copied
    <2>2. Kinds'
      BY <1>1, <1>3, <2>1 DEF OwnersOK, Kinds, Live
    <2>3. Owned(to)' = {}
      BY <1>3, <2>1 DEF Owned, Live
    <2> QED
      BY <1>1, <1>4, <1>5, <1>6, <2>1, <2>2, <2>3, OneSlotChanges
  <1>8. CASE values[from].ic # NULL
    <2>1. PICK id \in CommentIds \ (DOMAIN comments \cup held) :
             /\ c.value = Folded(values[from].text, values[from].keylen, values[from].boundary, id)
             /\ comments' = With(comments, id, comments[values[from].ic])
      BY <1>2, <1>8 DEF Copied
    <2>2. Typed(c.value) /\ c.value.ic = id /\ id # NULL
      BY <2>1, FoldedTyped, ValueAssumption
    <2>3. DOMAIN comments' = DOMAIN comments \cup {id}
      BY <2>1, WithIs
    <2>4. Kinds'
      BY <1>1, <1>3, <2>2, <2>3 DEF OwnersOK, Kinds, Live
    <2>5. Owned(to)' = {id}
      BY <1>3, <2>2 DEF Owned, Live
    <2> QED
      BY <1>1, <1>4, <1>5, <1>6, <2>3, <2>4, <2>5, OneSlotChanges
  <1> QED
    BY <1>7, <1>8

\* Folding a value anew, which may break it, leaves its comment alone.
LEMMA RefoldOwners ==
    ASSUME OwnersOK, NEW s \in Live, NEW text, NEW keylen, NEW boundary,
           Refolded(s, text, keylen, boundary), UNCHANGED <<comments, held>>
    PROVE  OwnersOK'
  <1>1. PICK w : values' = [values EXCEPT ![s] = w] /\ Typed(w) /\ w.ic = values[s].ic
    <2>1. Typed(values[s])
      BY DEF OwnersOK, Kinds
    <2>2. CASE values' = [values EXCEPT ![s] = Folded(text, keylen, boundary, @.ic)]
      <3>1. PICK ic \in CommentIds \cup {NULL} : ic = values[s].ic
        BY <2>1 DEF Typed
      <3>2. Typed(Folded(text, keylen, boundary, ic)) /\ Folded(text, keylen, boundary, ic).ic = ic
        BY FoldedTyped
      <3> QED
        BY <2>2, <3>1, <3>2
    <2>3. CASE \E v \in Broken(values[s], text, keylen, boundary) : values' = [values EXCEPT ![s] = v]
      <3>1. PICK old : old = values[s]
        OBVIOUS
      <3>2. PICK v \in Broken(old, text, keylen, boundary) : values' = [values EXCEPT ![s] = v]
        BY <2>3, <3>1
      <3>3. Typed(v) /\ v.ic = old.ic
        BY <2>1, <3>1, BrokenTyped
      <3> QED
        BY <3>1, <3>2, <3>3
    <2> QED
      BY <2>2, <2>3 DEF Refolded
  <1>2. Live' = Live
    BY <1>1 DEF Live
  <1>3. \A t \in Live : Typed(values'[t]) /\ values'[t].ic = values[t].ic
    BY <1>1 DEF OwnersOK, Kinds, Live
  <1> QED
    BY <1>2, <1>3, OwnersKept

\* The slot s has the comment ic instead of the one it had.
LEMMA ReownedIs ==
    ASSUME OwnersOK, NEW s \in Live, NEW ic \in CommentIds \cup {NULL},
           values' = [values EXCEPT ![s].ic = ic]
    PROVE  /\ Live' = Live
           /\ \A t \in Live' : t \in Slots /\ Typed(values'[t])
           /\ \A t \in Slots : t # s => Owned(t)' = Owned(t)
           /\ Owned(s)' = {ic} \ {NULL}
  <1>1. Live' = Live
    BY DEF Live
  <1>2. Typed(values[s])
    BY DEF OwnersOK, Kinds
  <1>3. Typed(values'[s]) /\ values'[s].ic = ic
    BY <1>2 DEF Typed, Live
  <1>4. \A t \in Live : t # s => values'[t] = values[t]
    BY DEF Live
  <1>5. \A t \in Live' : t \in Slots /\ Typed(values'[t])
    BY <1>1, <1>3, <1>4 DEF OwnersOK, Kinds
  <1>6. \A t \in Slots : t # s => Owned(t)' = Owned(t)
    BY <1>1, <1>4 DEF Owned
  <1>7. Owned(s)' = {ic} \ {NULL}
    BY <1>1, <1>3 DEF Owned
  <1> QED
    BY <1>1, <1>5, <1>6, <1>7

\* value_extract_comment hands the comment to the caller.
LEMMA ExtractOwners ==
    ASSUME OwnersOK, NEW s \in Slots, value_extract_comment(s)
    PROVE  OwnersOK'
  <1>1. /\ s \in Live /\ values[s].ic # NULL /\ comments' = comments
        /\ values' = [values EXCEPT ![s].ic = NULL]
    BY DEF value_extract_comment
  <1>2. held' = held \cup {values[s].ic} /\ Owned(s) = {values[s].ic}
    BY <1>1 DEF value_extract_comment, Owned
  <1>3. /\ Live' = Live
        /\ \A t \in Live' : t \in Slots /\ Typed(values'[t])
        /\ \A t \in Slots : t # s => Owned(t)' = Owned(t)
        /\ Owned(s)' = {}
    BY <1>1, ReownedIs
  <1>4. values[s].ic \in CommentIds
    BY <1>1 DEF OwnersOK, Kinds, Typed
  <1>5. Kinds'
    BY <1>1, <1>2, <1>3, <1>4 DEF OwnersOK, Kinds
  <1>6. \A t \in Slots : t # s => Owned(t) \subseteq DOMAIN comments' \ held'
    BY <1>1, <1>2 DEF OwnersOK, Allocated, Apart
  <1> QED
    BY <1>1, <1>2, <1>3, <1>5, <1>6, OneSlotChanges

\* value_put_comment destroys the old comment and takes the new one.
LEMMA PutOwners ==
    ASSUME OwnersOK, NEW s \in Slots, NEW ic \in Passed, value_put_comment(s, ic)
    PROVE  OwnersOK'
  <1>1. /\ s \in Live /\ held' = held \ {ic}
        /\ values' = [values EXCEPT ![s].ic = ic]
    BY DEF value_put_comment
  <1>2. ic \in CommentIds \cup {NULL} /\ (ic # NULL => ic \in held \cap DOMAIN comments)
    BY DEF Passed, OwnersOK, Kinds
  <1>3. /\ Live' = Live
        /\ \A t \in Live' : t \in Slots /\ Typed(values'[t])
        /\ \A t \in Slots : t # s => Owned(t)' = Owned(t)
        /\ Owned(s)' = {ic} \ {NULL}
    BY <1>1, <1>2, ReownedIs
  <1>4. DOMAIN comments' = DOMAIN comments \ {values[s].ic}
    BY DEF value_put_comment, Without
  <1>5. NULL \notin DOMAIN comments \cup held
    BY ValueAssumption DEF OwnersOK, Kinds
  <1>6. DOMAIN comments' = DOMAIN comments \ Owned(s)
    BY <1>1, <1>4, <1>5 DEF Owned
  <1>7. Kinds'
    BY <1>1, <1>3, <1>4 DEF OwnersOK, Kinds
  <1>8. \A t \in Slots : Owned(t) \subseteq DOMAIN comments \ held
    BY DEF OwnersOK, Allocated
  <1>9. \A t \in Slots : t # s => Owned(t) \subseteq DOMAIN comments' \ held'
    BY <1>1, <1>6, <1>8 DEF OwnersOK, Apart
  <1>10. Owned(s)' \subseteq DOMAIN comments' \ held'
    BY <1>1, <1>2, <1>3, <1>6, <1>8
  <1>11. \A t \in Slots : t # s => Owned(s)' \cap Owned(t) = {}
    BY <1>2, <1>3, <1>8
  <1>12. \A id \in DOMAIN comments' : \/ id \in held' \cup Owned(s)'
                                      \/ id \in DOMAIN comments \ (held \cup Owned(s))
    BY <1>1, <1>3, <1>5, <1>6
  <1> QED
    BY <1>3, <1>7, <1>9, <1>10, <1>11, <1>12, OneSlotChanges

\* value_merge_comment leaves the donor's comment to the donor.
LEMMA MergeOwners ==
    ASSUME OwnersOK, NEW donor \in Slots, NEW s \in Slots, value_merge_comment(donor, s)
    PROVE  OwnersOK'
  <1>1. s \in Live /\ held' = held
    BY DEF value_merge_comment
  <1>2. CASE values[s].ic # NULL
    <2>1. values' = values /\ DOMAIN comments' = DOMAIN comments
      BY <1>2 DEF value_merge_comment
    <2> QED
      BY <1>1, <2>1, OwnersKept DEF OwnersOK, Kinds, Live
  <1>3. CASE values[s].ic = NULL
    <2>1. PICK id \in CommentIds \ (DOMAIN comments \cup held) :
             /\ comments' = With(comments, id, comments[values[donor].ic])
             /\ values' = [values EXCEPT ![s].ic = id]
      BY <1>3 DEF value_merge_comment
    <2>2. DOMAIN comments' = DOMAIN comments \cup {id}
      BY <2>1 DEF With
    <2>3. /\ Live' = Live
          /\ \A t \in Live' : t \in Slots /\ Typed(values'[t])
          /\ \A t \in Slots : t # s => Owned(t)' = Owned(t)
          /\ Owned(s)' = {id} \ {NULL}
      BY <1>1, <2>1, ReownedIs
    <2>4. Owned(s) = {} /\ id # NULL
      BY <1>3, ValueAssumption DEF Owned
    <2>5. Kinds'
      BY <1>1, <2>2, <2>3 DEF OwnersOK, Kinds
    <2>6. \A t \in Slots : Owned(t) \subseteq DOMAIN comments \ held
      BY DEF OwnersOK, Allocated
    <2> QED
      BY <1>1, <2>2, <2>3, <2>4, <2>5, <2>6, OneSlotChanges
  <1> QED
    BY <1>2, <1>3

\* value_destroy destroys the value's comment with it.
LEMMA DestroyOwners ==
    ASSUME OwnersOK, NEW s \in Slots, value_destroy(s)
    PROVE  OwnersOK'
  <1>1. s \in Live /\ held' = held /\ values' = Without(values, s)
    BY DEF value_destroy
  <1>2. DOMAIN comments' = DOMAIN comments \ {values[s].ic}
    BY DEF value_destroy, Without
  <1>3. NULL \notin DOMAIN comments
    BY ValueAssumption DEF OwnersOK, Kinds
  <1>4. DOMAIN comments' = DOMAIN comments \ Owned(s)
    BY <1>1, <1>2, <1>3 DEF Owned
  <1>5. /\ Live' = Live \ {s}
        /\ \A t \in Live : t # s => values'[t] = values[t]
    BY <1>1 DEF Live, Without
  <1>6. Kinds'
    BY <1>1, <1>4, <1>5 DEF OwnersOK, Kinds
  <1>7. (\A t \in Slots : t # s => Owned(t)' = Owned(t)) /\ Owned(s)' = {}
    BY <1>5 DEF Owned
  <1>8. \A t \in Slots : t # s => Owned(t) \subseteq DOMAIN comments' \ held'
    BY <1>1, <1>4 DEF OwnersOK, Allocated, Apart
  <1> QED
    BY <1>1, <1>4, <1>6, <1>7, <1>8, OneSlotChanges

-----------------------------------------------------------------------------
(* The theorem                                                             *)

\* The invariant holds when there are no values.
LEMMA OwnersInit == Init => OwnersOK
  BY DEF Init, OwnersOK, Kinds, Apart, Allocated, NoneLost, Owned, Live

\* Every step keeps the invariant.
LEMMA OwnersNext == OwnersOK /\ [Next]_vars => OwnersOK'
  <1> SUFFICES ASSUME OwnersOK, [Next]_vars PROVE OwnersOK'
    OBVIOUS
  <1>1. ASSUME NEW id \in CommentIds, NEW l, ini_comment_construct(id, l) PROVE OwnersOK'
    BY <1>1, ConstructOwners
  <1>2. ASSUME NEW id \in CommentIds, ini_comment_destroy(id) \/ ini_comment_reset(id)
        PROVE  OwnersOK'
    BY <1>2, DestroyCommentOwners, ResetOwners
  <1>3. ASSUME NEW id \in CommentIds, NEW l, NEW idx,
               \/ ini_comment_build(id, l) \/ ini_comment_append(id, l)
               \/ ini_comment_insert(id, idx, l) \/ ini_comment_replace(id, idx, l)
               \/ ini_comment_remove(id, idx) \/ ini_comment_clear(id, idx)
        PROVE  OwnersOK'
    BY <1>3, ModifyOwners
       DEF ini_comment_build, ini_comment_append, ini_comment_insert, ini_comment_replace,
           ini_comment_remove, ini_comment_clear
  <1>4. ASSUME NEW id \in CommentIds, ini_comment_swap(id, 0, 1) PROVE OwnersOK'
    BY <1>4, SwapOwners
  <1>5. ASSUME NEW s \in Slots, NEW k, NEW b, NEW ic \in Passed, NEW t,
               value_create_new(s, t, k, b, ic) \/ value_create_from_refarray(s, t, k, b, ic)
        PROVE  OwnersOK'
    BY <1>5, CreateNewOwners, CreateFromRefarrayOwners
  <1>6. ASSUME NEW s \in Slots, NEW t \in Slots, value_copy(s, t) \/ value_merge_comment(s, t)
        PROVE  OwnersOK'
    BY <1>6, CopyOwners, MergeOwners
  <1>7. ASSUME NEW s \in Slots, NEW x, NEW t,
               value_set_keylen(s, x) \/ value_set_boundary(s, x) \/ value_update(s, t, x)
        PROVE  OwnersOK'
    <2>1. PICK text, k, b : Refolded(s, text, k, b)
      BY <1>7 DEF value_set_keylen, value_set_boundary, value_update
    <2>2. s \in Live /\ UNCHANGED <<comments, held>>
      BY <1>7 DEF value_set_keylen, value_set_boundary, value_update
    <2> QED
      BY <2>1, <2>2, RefoldOwners
  <1>8. ASSUME NEW s \in Slots, value_extract_comment(s) \/ value_destroy(s) PROVE OwnersOK'
    BY <1>8, ExtractOwners, DestroyOwners
  <1>9. ASSUME NEW s \in Slots, NEW ic \in Passed, value_put_comment(s, ic) PROVE OwnersOK'
    BY <1>9, PutOwners
  <1>10. CASE UNCHANGED vars
    BY <1>10, OwnersKept DEF vars, OwnersOK, Kinds, Live
  <1> QED
    BY <1>1, <1>2, <1>3, <1>4, <1>5, <1>6, <1>7, <1>8, <1>9, <1>10 DEF Next

\* A comment belongs to one value or to the caller, and none is lost, whatever
\* is made, copied, merged, moved and destroyed, and whichever allocations fail.
THEOREM OwnersCorrect == Spec => []OneOwner
  <1>1. OwnersOK => OneOwner
    BY DEF OwnersOK, OneOwner, Apart, Allocated, NoneLost
  <1> QED
    BY <1>1, OwnersInit, OwnersNext, PTL DEF Spec

-----------------------------------------------------------------------------
(* Folding, for every text: the loop of value_fold, turn by turn.          *)

Chars(text) == ToSet(text) \cup {Space}

\* A line keeps to the boundary, or has no place to fold at.
Fits(line, n, keylen, bound) ==
    \/ Len(line) + (IF n = 1 THEN keylen + INI_FOLDING_OVERHEAD ELSE 0) <= bound
    \/ \A i \in 2..Len(line) : line[i] \notin Blank

\* The lines hold the text up to a place.
Kept(text, lines, end) ==
    Unfold(lines) = IF Added(text, lines) /\ end > 0 THEN <<Space>> \o Cut(text, 0, end) ELSE Cut(text, 0, end)

LinesOK(text, keylen, bound, lines, end) ==
    /\ Kept(text, lines, end)
    /\ \A n \in 2..Len(lines) : Starts(lines[n], Blank)
    /\ \A n \in 1..Len(lines) : Fits(lines[n], n, keylen, bound)

\* A part of the text, character by character.
LEMMA CutIs ==
    ASSUME NEW C, NEW text \in Seq(C), NEW from \in 0..Len(text), NEW len \in 0..(Len(text) - from)
    PROVE  /\ Cut(text, from, len) \in Seq(C) /\ Len(Cut(text, from, len)) = len
           /\ \A j \in 1..len : Cut(text, from, len)[j] = text[from + j]
  <1> DEFINE p == SubSeq(text, from + 1, from + len)
  <1>1. Len(text) \in Nat /\ \A j \in 1..Len(text) : text[j] \in C
    BY LenProperties, ElementOfSeq
  <1>2. from + 1 \in Int /\ from + len \in Int /\ \A j \in (from + 1)..(from + len) : text[j] \in C
    BY <1>1
  <1>3. /\ p \in Seq(C)
        /\ Len(p) = IF from + 1 <= from + len THEN (from + len) - (from + 1) + 1 ELSE 0
        /\ \A j \in 1..((from + len) - (from + 1) + 1) : p[j] = text[(from + 1) + j - 1]
    BY <1>1, <1>2, SubSeqProperties
  <1> HIDE DEF p
  <1>4. Len(p) = len
    BY <1>1, <1>3
  <1>5. ASSUME NEW j \in 1..len PROVE p[j] = text[from + j]
    <2>1. j \in 1..((from + len) - (from + 1) + 1) /\ (from + 1) + j - 1 = from + j
      BY <1>1
    <2> QED
      BY <1>3, <2>1
  <1> QED
    BY <1>3, <1>4, <1>5 DEF p, Cut

\* Sequences that agree in length and in every element.
LEMMA SeqsAgree ==
    ASSUME NEW C, NEW s \in Seq(C), NEW t \in Seq(C), Len(s) = Len(t), \A j \in 1..Len(s) : s[j] = t[j]
    PROVE  s = t
  <1>1. s \in [1..Len(s) -> C] /\ t \in [1..Len(s) -> C]
    BY LenProperties
  <1> QED
    BY <1>1

\* Two parts that follow each other.
LEMMA CutJoins ==
    ASSUME NEW C, NEW text \in Seq(C), NEW from \in 0..Len(text), NEW end \in from..Len(text)
    PROVE  Cut(text, 0, from) \o Cut(text, from, end - from) = Cut(text, 0, end)
  <1> DEFINE a == Cut(text, 0, from)
             b == Cut(text, from, end - from)
             c == Cut(text, 0, end)
             d == a \o b
  <1>1. Len(text) \in Nat
    BY LenProperties
  <1>2. a \in Seq(C) /\ Len(a) = from /\ \A j \in 1..from : a[j] = text[j]
    <2>1. 0 \in 0..Len(text) /\ from \in 0..(Len(text) - 0)
      BY <1>1
    <2>2. a \in Seq(C) /\ Len(a) = from /\ \A j \in 1..from : a[j] = text[0 + j]
      BY <2>1, CutIs
    <2> QED
      BY <2>2
  <1>3. b \in Seq(C) /\ Len(b) = end - from /\ \A j \in 1..(end - from) : b[j] = text[from + j]
    <2>1. end - from \in 0..(Len(text) - from)
      BY <1>1
    <2> QED
      BY <2>1, CutIs
  <1>4. c \in Seq(C) /\ Len(c) = end /\ \A j \in 1..end : c[j] = text[j]
    <2>1. 0 \in 0..Len(text) /\ end \in 0..(Len(text) - 0)
      BY <1>1
    <2>2. c \in Seq(C) /\ Len(c) = end /\ \A j \in 1..end : c[j] = text[0 + j]
      BY <2>1, CutIs
    <2> QED
      BY <2>2
  <1> HIDE DEF a, b, c
  <1>5. /\ d \in Seq(C) /\ Len(d) = Len(a) + Len(b)
        /\ \A j \in 1..(Len(a) + Len(b)) : d[j] = IF j <= Len(a) THEN a[j] ELSE b[j - Len(a)]
    BY <1>2, <1>3, ConcatProperties
  <1> HIDE DEF d
  <1>6. Len(d) = end
    BY <1>1, <1>2, <1>3, <1>5
  <1>7. ASSUME NEW j \in 1..end PROVE d[j] = c[j]
    <2>1. d[j] = IF j <= from THEN a[j] ELSE b[j - from]
      BY <1>1, <1>2, <1>3, <1>5
    <2>2. CASE j <= from
      BY <1>2, <1>4, <2>1, <2>2
    <2>3. CASE ~(j <= from)
      <3>1. j - from \in 1..(end - from) /\ from + (j - from) = j
        BY <1>1, <2>3
      <3>2. b[j - from] = text[from + (j - from)]
        BY <1>3, <3>1
      <3> QED
        BY <1>4, <2>1, <2>3, <3>1, <3>2
    <2> QED
      BY <2>2, <2>3
  <1>8. d = c
    BY <1>4, <1>5, <1>6, <1>7, SeqsAgree
  <1> QED
    BY <1>8 DEF a, b, c, d

\* The same behind something else.
LEMMA CutJoinsAfter ==
    ASSUME NEW C, NEW text \in Seq(C), NEW from \in 0..Len(text), NEW end \in from..Len(text),
           NEW b \in Seq(C)
    PROVE  (b \o Cut(text, 0, from)) \o Cut(text, from, end - from) = b \o Cut(text, 0, end)
  <1> DEFINE s == Cut(text, 0, from)
             t == Cut(text, from, end - from)
  <1>1. s \in Seq(C) /\ t \in Seq(C)
    <2>1. /\ 0 \in 0..Len(text) /\ from \in 0..(Len(text) - 0)
          /\ end - from \in 0..(Len(text) - from)
      BY LenProperties
    <2> QED
      BY <2>1, CutIs
  <1>2. s \o t = Cut(text, 0, end)
    BY CutJoins
  <1> HIDE DEF s, t
  <1>3. (b \o s) \o t = b \o (s \o t)
    BY <1>1, ConcatAssociative
  <1> QED
    BY <1>2, <1>3 DEF s, t

\* What save_portion puts in front of a part of the text.
Portion(lines, p) == IF p = <<>> \/ Starts(p, Blank) \/ lines = <<>> THEN p ELSE <<Space>> \o p

\* The room that a line has besides the part of the text.
Extra(text, lines, start, keylen) ==
    IF lines = <<>> THEN keylen + INI_FOLDING_OVERHEAD ELSE IF At(text, start) \in Blank THEN 0 ELSE 1

\* The part p of the text, and the line it makes.
IsPortion(text, lines, start, end, p) ==
    /\ p \in Seq(Chars(text)) /\ Len(p) = end - start
    /\ p = <<>> <=> start = end
    /\ start < end => (Starts(p, Blank) <=> At(text, start) \in Blank)
    /\ \A i \in 1..(end - start) : p[i] = At(text, start + i - 1)
    /\ Portion(lines, p) \in Seq(Chars(text))
    /\ lines = <<>> => Portion(lines, p) = p
    /\ lines # <<>> /\ At(text, start) \in Blank => Portion(lines, p) = p
    /\ lines # <<>> /\ At(text, start) \notin Blank =>
          /\ Portion(lines, p) = <<Space>> \o p /\ Len(Portion(lines, p)) = end - start + 1
          /\ \A i \in 2..(end - start + 1) : Portion(lines, p)[i] = At(text, start + i - 2)
    /\ lines # <<>> => Starts(Portion(lines, p), Blank)

\* What save_portion does with the part of the text from one place to another.
LEMMA PortionIs ==
    ASSUME NEW text, text \in Seq(Chars(text)), NEW lines, NEW start \in 0..Len(text),
           NEW end \in start..Len(text), lines # <<>> => start < end, NEW p, p = Cut(text, start, end - start)
    PROVE  IsPortion(text, lines, start, end, p)
  <1> DEFINE C == Chars(text)
             q == <<Space>> \o p
  <1>1. Len(text) \in Nat /\ start \in Nat /\ end \in Nat /\ start <= end
    BY LenProperties
  <1>2. p \in Seq(C) /\ Len(p) = end - start /\ \A j \in 1..(end - start) : p[j] = text[start + j]
    <2>1. end - start \in 0..(Len(text) - start)
      BY <1>1
    <2> QED
      BY <2>1, CutIs
  <1>3. p = <<>> <=> start = end
    BY <1>1, <1>2, EmptySeq
  <1>4. ASSUME NEW i \in 1..(end - start) PROVE p[i] = At(text, start + i - 1)
    <2>1. (start + i - 1) + 1 = start + i
      BY <1>1
    <2> QED
      BY <1>2, <2>1 DEF At
  <1>5. start < end => (Starts(p, Blank) <=> At(text, start) \in Blank)
    <2> HAVE start < end
    <2>1. 1 \in 1..(end - start) /\ start + 1 - 1 = start
      BY <1>1
    <2>2. p # <<>> /\ p[1] = At(text, start)
      BY <1>3, <1>4, <2>1
    <2>3. Head(p) = p[1]
      BY <1>2, <2>2, HeadTailProperties
    <2> QED
      BY <2>2, <2>3 DEF Starts
  <1>6. /\ q \in Seq(C) /\ Len(q) = end - start + 1 /\ q[1] = Space
        /\ \A i \in 2..(end - start + 1) : q[i] = At(text, start + i - 2)
    <2> DEFINE b == <<Space>>
    <2>0. Space \in C
      BY DEF Chars
    <2> HIDE DEF C
    <2>1. b \in Seq(C) /\ Len(b) = 1 /\ b[1] = Space
      BY <2>0
    <2> HIDE DEF b
    <2>2. /\ b \o p \in Seq(C) /\ Len(b \o p) = Len(b) + Len(p)
          /\ \A j \in 1..(Len(b) + Len(p)) : (b \o p)[j] = IF j <= Len(b) THEN b[j] ELSE p[j - Len(b)]
      BY <1>2, <2>1, ConcatProperties
    <2>3. q = b \o p
      BY DEF b
    <2> HIDE DEF q
    <2>4. q \in Seq(C) /\ Len(q) = end - start + 1
      <3>1. Len(q) = 1 + (end - start)
        BY <1>2, <2>1, <2>2, <2>3
      <3> QED
        BY <1>1, <2>2, <2>3, <3>1
    <2>5. \A j \in 1..(end - start + 1) : q[j] = IF j <= 1 THEN b[j] ELSE p[j - 1]
      BY <1>1, <1>2, <2>1, <2>2, <2>3
    <2>6. q[1] = Space
      <3>1. 1 \in 1..(end - start + 1)
        BY <1>1
      <3> QED
        BY <2>1, <2>5, <3>1
    <2>7. ASSUME NEW i \in 2..(end - start + 1) PROVE q[i] = At(text, start + i - 2)
      <3>1. i \in 1..(end - start + 1) /\ ~(i <= 1) /\ i - 1 \in 1..(end - start)
        BY <1>1
      <3>2. q[i] = p[i - 1]
        BY <2>5, <3>1
      <3>3. p[i - 1] = At(text, start + (i - 1) - 1) /\ start + (i - 1) - 1 = start + i - 2
        BY <1>1, <1>4, <3>1
      <3> QED
        BY <3>2, <3>3
    <2> QED
      BY <2>4, <2>6, <2>7
  <1>7. Starts(q, Blank)
    <2> HIDE DEF q
    <2>1. q # <<>> /\ Head(q) = q[1]
      BY <1>1, <1>6, EmptySeq, HeadTailProperties
    <2> QED
      BY <1>6, <2>1 DEF Starts, Blank
  <1>8. Portion(lines, p) = IF p = <<>> \/ Starts(p, Blank) \/ lines = <<>> THEN p ELSE q
    BY DEF Portion
  <1> HIDE DEF q
  <1>9. Portion(lines, p) \in Seq(C)
    BY <1>2, <1>6, <1>8
  <1>10. lines = <<>> => Portion(lines, p) = p
    BY <1>8
  <1>11. lines # <<>> /\ At(text, start) \in Blank => Portion(lines, p) = p /\ Starts(Portion(lines, p), Blank)
    BY <1>5, <1>8
  <1>12. lines # <<>> /\ At(text, start) \notin Blank => Portion(lines, p) = q
    BY <1>1, <1>3, <1>5, <1>8
  <1>13. lines # <<>> /\ At(text, start) \notin Blank =>
            /\ Portion(lines, p) = <<Space>> \o p /\ Len(Portion(lines, p)) = end - start + 1
            /\ \A i \in 2..(end - start + 1) : Portion(lines, p)[i] = At(text, start + i - 2)
    BY <1>6, <1>12 DEF q
  <1>14. lines # <<>> => Starts(Portion(lines, p), Blank)
    BY <1>7, <1>11, <1>12
  <1> QED
    BY <1>2, <1>3, <1>4, <1>5, <1>9, <1>10, <1>11, <1>13, <1>14 DEF IsPortion

\* When the text from start to end may be the next line: the lines end where it
\* starts, at a blank or at the front, and it ends in time or at the first place.
MayFollow(text, keylen, bound, lines, start, end) ==
    /\ text \in Seq(Chars(text)) /\ text # <<>> /\ lines \in Seq(Seq(Chars(text)))
    /\ start \in 0..Len(text) /\ end \in start..Len(text)
    /\ LinesOK(text, keylen, bound, lines, start)
    /\ lines = <<>> => start = 0
    /\ lines # <<>> => start < end
    /\ start # 0 => At(text, start) \in Blank
    /\ start = 0 /\ lines # <<>> => lines = << <<>> >>
    /\ \/ end - start + Extra(text, lines, start, keylen) <= bound
       \/ \A i \in (start + 1)..(end - 1) : At(text, i) \notin Blank

WithLine(text, lines, start, end) == SavePortion(lines, Cut(text, start, end - start))

\* One more line keeps what the lines mean.
LEMMA PortionKeeps ==
    ASSUME NEW text, NEW keylen \in Nat, NEW bound \in Nat, NEW lines, NEW start, NEW end,
           MayFollow(text, keylen, bound, lines, start, end),
           NEW new, new = WithLine(text, lines, start, end)
    PROVE  /\ new \in Seq(Seq(Chars(text))) /\ new # <<>>
           /\ LinesOK(text, keylen, bound, new, end)
           /\ end = 0 => new = << <<>> >>
  <1>0. /\ text \in Seq(Chars(text)) /\ text # <<>> /\ lines \in Seq(Seq(Chars(text)))
        /\ start \in 0..Len(text) /\ end \in start..Len(text)
        /\ LinesOK(text, keylen, bound, lines, start)
        /\ lines = <<>> => start = 0
        /\ lines # <<>> => start < end
        /\ start # 0 => At(text, start) \in Blank
        /\ start = 0 /\ lines # <<>> => lines = << <<>> >>
        /\ \/ end - start + Extra(text, lines, start, keylen) <= bound
           \/ \A i \in (start + 1)..(end - 1) : At(text, i) \notin Blank
        /\ new = SavePortion(lines, Cut(text, start, end - start))
    BY DEF MayFollow, WithLine
  <1> USE <1>0
  <1> DEFINE C == Chars(text)
             m == Len(lines)
             p == Cut(text, start, end - start)
             line == Portion(lines, p)
  <1>1. Len(text) \in Nat /\ Len(text) # 0 /\ start \in Nat /\ end \in Nat /\ start <= end /\ m \in Nat
    BY LenProperties, EmptySeq
  <1>2. /\ p \in Seq(C) /\ Len(p) = end - start
        /\ p = <<>> <=> start = end
        /\ start < end => (Starts(p, Blank) <=> At(text, start) \in Blank)
        /\ \A i \in 1..(end - start) : p[i] = At(text, start + i - 1)
        /\ line \in Seq(C)
        /\ lines = <<>> => line = p
        /\ lines # <<>> /\ At(text, start) \in Blank => line = p
        /\ lines # <<>> /\ At(text, start) \notin Blank =>
              /\ line = <<Space>> \o p /\ Len(line) = end - start + 1
              /\ \A i \in 2..(end - start + 1) : line[i] = At(text, start + i - 2)
        /\ lines # <<>> => Starts(line, Blank)
    <2> HIDE DEF p
    <2>1. p = Cut(text, start, end - start)
      BY DEF p
    <2>2. IsPortion(text, lines, start, end, p)
      BY <2>1, PortionIs
    <2> QED
      BY <2>2 DEF IsPortion, line
  <1>3. new = Append(lines, line)
    BY DEF SavePortion, Portion
  <1> HIDE DEF line, m
  <1>4. /\ new \in Seq(Seq(C)) /\ Len(new) = m + 1 /\ new[m + 1] = line
        /\ \A j \in 1..m : new[j] = lines[j]
    <2> DEFINE D == Seq(C)
    <2>1. line \in D /\ lines \in Seq(D)
      BY <1>2
    <2> HIDE DEF D
    <2>2. /\ Append(lines, line) \in Seq(D) /\ Len(Append(lines, line)) = m + 1
          /\ Append(lines, line)[m + 1] = line
          /\ \A j \in 1..m : Append(lines, line)[j] = lines[j]
      BY <2>1, AppendProperties DEF m
    <2> QED
      BY <1>3, <2>2 DEF D
  <1>5. new # <<>>
    BY <1>1, <1>4, EmptySeq
  <1>6. lines = <<>> <=> m = 0
    BY EmptySeq DEF m
  <1>7. Unfold(lines) \in Seq(C) /\ Unfold(new) = Unfold(lines) \o line
    BY <1>2, <1>3, FlattenAppend DEF Unfold
  <1>8. Cut(text, 0, start) \in Seq(C) /\ Cut(text, 0, start) \o p = Cut(text, 0, end)
    <2>1. start \in 0..(Len(text) - 0) /\ 0 \in 0..Len(text)
      BY <1>1
    <2> QED
      BY <2>1, CutIs, CutJoins
  <1>9. start = 0 => Cut(text, 0, start) = <<>> /\ p = Cut(text, 0, end)
    <2> HAVE start = 0
    <2>1. Len(Cut(text, 0, 0)) = 0 /\ Cut(text, 0, 0) \in Seq(C)
      <3>1. 0 \in 0..Len(text) /\ 0 \in 0..(Len(text) - 0)
        BY <1>1
      <3> QED
        BY <3>1, CutIs
    <2>2. Cut(text, 0, 0) = <<>>
      BY <2>1, EmptySeq
    <2>3. p = Cut(text, 0, end)
      BY <1>1
    <2> QED
      BY <2>2, <2>3
  <1>10. Unfold(lines) = IF Added(text, lines) /\ start > 0 THEN <<Space>> \o Cut(text, 0, start)
                         ELSE Cut(text, 0, start)
    BY DEF LinesOK, Kept
  <1> HIDE DEF p
  <1>11. Kept(text, new, end)
    <2>1. CASE lines = <<>>
      <3>1. start = 0 /\ line = p /\ new[1] = p
        BY <1>1, <1>2, <1>4, <1>6, <2>1
      <3>2. Unfold(lines) = <<>>
        BY <1>1, <1>9, <1>10, <3>1
      <3>3. Unfold(new) = p
        BY <1>2, <1>7, <3>1, <3>2, ConcatEmptySeq
      <3>4. ~(Added(text, new) /\ end > 0)
        BY <1>1, <1>2, <3>1 DEF Added
      <3> QED
        BY <1>9, <3>1, <3>3, <3>4 DEF Kept
    <2>2. CASE lines # <<>> /\ start # 0
      <3>1. line = p
        BY <1>2, <2>2
      <3>2. new[1] = lines[1]
        BY <1>1, <1>4, <1>6, <2>2
      <3>3. Added(text, new) <=> Added(text, lines)
        BY <1>5, <2>2, <3>2 DEF Added
      <3>4. start > 0 /\ end > 0
        BY <1>1, <2>2
      <3>5. CASE Added(text, lines)
        <4>1. Unfold(lines) = <<Space>> \o Cut(text, 0, start)
          BY <1>10, <3>4, <3>5
        <4>2. <<Space>> \in Seq(C)
          <5>1. Space \in C
            BY DEF Chars
          <5> HIDE DEF C
          <5> QED
            BY <5>1
        <4>3. (<<Space>> \o Cut(text, 0, start)) \o p = <<Space>> \o Cut(text, 0, end)
          BY <4>2, CutJoinsAfter DEF p
        <4>4. Unfold(new) = <<Space>> \o Cut(text, 0, end)
          BY <1>7, <3>1, <4>1, <4>3
        <4> QED
          BY <3>3, <3>4, <3>5, <4>4 DEF Kept
      <3>6. CASE ~Added(text, lines)
        <4>1. Unfold(new) = Cut(text, 0, end)
          BY <1>7, <1>8, <1>10, <3>1, <3>6
        <4> QED
          BY <3>3, <3>6, <4>1 DEF Kept
      <3> QED
        BY <3>5, <3>6
    <2>3. CASE lines # <<>> /\ start = 0
      <3>1. lines = << <<>> >> /\ start < end
        BY <2>3
      <3>2. m = 1 /\ new[1] = <<>>
        <4>1. m = 1 /\ lines[1] = <<>>
          BY <3>1 DEF m
        <4> QED
          BY <1>4, <4>1
      <3>3. Unfold(lines) = <<>>
        BY <1>1, <1>9, <1>10, <2>3
      <3>4. Unfold(new) = line
        BY <1>2, <1>7, <3>3, ConcatEmptySeq
      <3>5. Starts(text, Blank) <=> At(text, 0) \in Blank
        <4>1. Head(text) = text[1] /\ 0 + 1 = 1
          BY HeadTailProperties
        <4> QED
          BY <4>1 DEF Starts, At
      <3>6. Added(text, new) <=> At(text, start) \notin Blank
        BY <1>5, <2>3, <3>2, <3>5 DEF Added
      <3>7. end > 0
        BY <1>1, <2>3, <3>1
      <3> QED
        BY <1>2, <1>9, <2>3, <3>4, <3>6, <3>7 DEF Kept
    <2> QED
      BY <2>1, <2>2, <2>3
  <1>12. ASSUME NEW n \in 2..Len(new) PROVE Starts(new[n], Blank)
    <2>1. CASE n <= m
      <3>1. n \in 2..m /\ n \in 1..m
        BY <1>1, <1>4, <2>1
      <3> QED
        BY <1>4, <3>1 DEF LinesOK, m
    <2>2. CASE ~(n <= m)
      <3>1. n = m + 1 /\ m # 0
        BY <1>1, <1>4, <2>2
      <3> QED
        BY <1>2, <1>4, <1>6, <3>1
    <2> QED
      BY <2>1, <2>2
  <1>13. ASSUME NEW n \in 1..Len(new) PROVE Fits(new[n], n, keylen, bound)
    <2>1. CASE n <= m
      <3>1. n \in 1..m
        BY <1>1, <1>4, <2>1
      <3> QED
        BY <1>4, <3>1 DEF LinesOK, m
    <2>2. CASE ~(n <= m)
      <3>1. n = m + 1
        BY <1>1, <1>4, <2>2
      <3>2. Fits(line, m + 1, keylen, bound)
        <4>1. CASE lines = <<>>
          <5>1. m + 1 = 1 /\ line = p /\ Len(p) = end - start
            BY <1>2, <1>6, <4>1
          <5>2. CASE end - start + Extra(text, lines, start, keylen) <= bound
            BY <4>1, <5>1, <5>2 DEF Fits, Extra
          <5>3. CASE \A i \in (start + 1)..(end - 1) : At(text, i) \notin Blank
            <6>1. ASSUME NEW i \in 2..(end - start) PROVE p[i] \notin Blank
              <7>1. i \in 1..(end - start) /\ start + i - 1 \in (start + 1)..(end - 1)
                BY <1>1
              <7> QED
                BY <1>2, <5>3, <7>1
            <6> QED
              BY <5>1, <6>1 DEF Fits
          <5> QED
            BY <5>2, <5>3
        <4>2. CASE lines # <<>> /\ At(text, start) \in Blank
          <5>1. m + 1 # 1 /\ line = p /\ Len(p) = end - start
            BY <1>1, <1>2, <1>6, <4>2
          <5>2. CASE end - start + Extra(text, lines, start, keylen) <= bound
            <6>1. end - start <= bound
              BY <1>1, <4>2, <5>2 DEF Extra
            <6> QED
              BY <1>1, <5>1, <6>1 DEF Fits
          <5>3. CASE \A i \in (start + 1)..(end - 1) : At(text, i) \notin Blank
            <6>1. ASSUME NEW i \in 2..(end - start) PROVE p[i] \notin Blank
              <7>1. i \in 1..(end - start) /\ start + i - 1 \in (start + 1)..(end - 1)
                BY <1>1
              <7> QED
                BY <1>2, <5>3, <7>1
            <6> QED
              BY <5>1, <6>1 DEF Fits
          <5> QED
            BY <5>2, <5>3
        <4>3. CASE lines # <<>> /\ At(text, start) \notin Blank
          <5>1. /\ m + 1 # 1 /\ Len(line) = end - start + 1
                /\ \A i \in 2..(end - start + 1) : line[i] = At(text, start + i - 2)
            BY <1>1, <1>2, <1>6, <4>3
          <5>2. CASE end - start + Extra(text, lines, start, keylen) <= bound
            <6>1. end - start + 1 <= bound
              BY <1>1, <4>3, <5>2 DEF Extra
            <6> QED
              BY <1>1, <5>1, <6>1 DEF Fits
          <5>3. CASE \A i \in (start + 1)..(end - 1) : At(text, i) \notin Blank
            <6>1. ASSUME NEW i \in 2..(end - start + 1) PROVE line[i] \notin Blank
              <7>1. start + i - 2 = start \/ start + i - 2 \in (start + 1)..(end - 1)
                BY <1>1
              <7>2. line[i] = At(text, start + i - 2)
                BY <5>1
              <7> QED
                BY <4>3, <5>3, <7>1, <7>2
            <6> QED
              BY <5>1, <6>1 DEF Fits
          <5> QED
            BY <5>2, <5>3
        <4> QED
          BY <4>1, <4>2, <4>3
      <3> QED
        BY <1>4, <3>1, <3>2
    <2> QED
      BY <2>1, <2>2
  <1>14. end = 0 => new = << <<>> >>
    <2> HAVE end = 0
    <2>1. start = 0 /\ lines = <<>> /\ p = <<>>
      BY <1>1, <1>2
    <2> QED
      BY <1>2, <1>3, <2>1
  <1> QED
    BY <1>4, <1>5, <1>11, <1>12, <1>13, <1>14 DEF LinesOK

-----------------------------------------------------------------------------
(* The turns of the loop *)

\* Before the text is folded: the lines hold it up to start, which is at a blank,
\* or they hold nothing; there is no place to fold at between start and resume.
Unfinished(text, keylen, bound, start, resume, lines) ==
    /\ text # <<>> /\ LinesOK(text, keylen, bound, lines, start)
    /\ start <= resume /\ start < Len(text)
    /\ lines = <<>> => start = 0 /\ resume = 0
    /\ lines # <<>> => resume # 0
    /\ start = 0 /\ lines # <<>> => lines = << <<>> >>
    /\ start # 0 => At(text, start) \in Blank
    /\ \A i \in (start + 1)..(resume - 1) : At(text, i) \notin Blank

FoldStates(text) ==
    [start : 0..Len(text), resume : 0..Len(text), done : BOOLEAN, lines : Seq(Seq(Chars(text)))]

FoldOK(text, keylen, bound, f) ==
    /\ f \in FoldStates(text)
    /\ f.done = TRUE => LinesOK(text, keylen, bound, f.lines, Len(text))
    /\ f.done = FALSE => Unfinished(text, keylen, bound, f.start, f.resume, f.lines)

\* When a turn may be taken.
Folding(text, keylen, bound, f) ==
    /\ text \in Seq(Chars(text)) /\ keylen \in Nat /\ bound \in Nat /\ bound # 0
    /\ f \in FoldStates(text) /\ Unfinished(text, keylen, bound, f.start, f.resume, f.lines)

\* A line that ends at or before the best place keeps to the boundary.
LEMMA BestIs ==
    ASSUME NEW text, NEW keylen \in Nat, NEW bound \in Nat, bound # 0, NEW f,
           f.start \in Nat, f.start < Len(text), f.lines = <<>> => f.start = 0,
           NEW best, best = BestPlace(text, f, keylen, bound)
    PROVE  /\ best \in Nat /\ f.start <= best
           /\ \A e \in Nat : e <= best /\ e # 0 =>
                 e - f.start + Extra(text, f.lines, f.start, keylen) <= bound
  <1> DEFINE start == f.start
             lines == f.lines
  <1>1. INI_FOLDING_OVERHEAD = 3
    BY DEF INI_FOLDING_OVERHEAD
  <1>2. CASE lines = <<>>
    <2>1. start = 0 /\ Extra(text, lines, start, keylen) = keylen + 3
      BY <1>1, <1>2 DEF Extra
    <2>2. best = 0 + IF bound > keylen + 3 THEN bound - keylen - 3 ELSE 0
      BY <1>1, <1>2, <2>1 DEF BestPlace
    <2> QED
      BY <2>1, <2>2
  <1>3. CASE lines # <<>> /\ At(text, start) \in Blank
    <2>1. Extra(text, lines, start, keylen) = 0 /\ best = start + bound
      BY <1>3 DEF Extra, BestPlace
    <2> QED
      BY <2>1
  <1>4. CASE lines # <<>> /\ At(text, start) \notin Blank
    <2>1. Extra(text, lines, start, keylen) = 1 /\ best = start + (bound - 1)
      BY <1>4 DEF Extra, BestPlace
    <2> QED
      BY <2>1
  <1> QED
    BY <1>2, <1>3, <1>4

\* The places beyond the best one, and those before another.
Beyond(places, best) == {i \in places : i > best \/ i = 0}
Before(places, next) == {i \in places : i < next}

\* The places that the inner loop may stop at.
LEMMA PlacesAre ==
    ASSUME NEW text, Len(text) \in Nat, Len(text) # 0, NEW f, f.resume \in 0..Len(text), NEW best
    PROVE  /\ Places(text, f, best) \subseteq f.resume..Len(text)
           /\ Len(text) \in Places(text, f, best)
           /\ \A i \in Places(text, f, best) : i # 0 /\ i < Len(text) => At(text, i) \in Blank
           /\ \A i \in f.resume..Len(text) :
                 i # 0 /\ i < Len(text) /\ At(text, i) \in Blank => i \in Places(text, f, best)
  <1> DEFINE S == Places(text, f, best)
  <1>1. S = {i \in f.resume..Len(text) :
                \/ i = Len(text)
                \/ i < Len(text) /\ At(text, i) \in Blank /\ ~(best > 0 /\ f.lines = <<>> /\ i = 0)
                \/ best = 0 /\ i = 0}
    BY DEF Places
  <1> HIDE DEF S
  <1>2. S \subseteq f.resume..Len(text) /\ Len(text) \in S
    BY <1>1
  <1>3. \A i \in S : i # 0 /\ i < Len(text) => At(text, i) \in Blank
    BY <1>1
  <1>4. \A i \in f.resume..Len(text) : i # 0 /\ i < Len(text) /\ At(text, i) \in Blank => i \in S
    BY <1>1
  <1> QED
    BY <1>2, <1>3, <1>4 DEF S

\* No place is beyond the best one: the rest of the text is the last line.
LEMMA LastLine ==
    ASSUME NEW text, NEW keylen, NEW bound, NEW f, Folding(text, keylen, bound, f),
           NEW best, best = BestPlace(text, f, keylen, bound), NEW t, t = FoldOnce(text, f, best),
           NEW S, S = Places(text, f, best), NEW beyond, beyond = Beyond(S, best), beyond = {}
    PROVE  FoldOK(text, keylen, bound, t) /\ t.done = TRUE
  <1>0. /\ text \in Seq(Chars(text)) /\ keylen \in Nat /\ bound \in Nat /\ bound # 0
        /\ f \in FoldStates(text) /\ Unfinished(text, keylen, bound, f.start, f.resume, f.lines)
    BY DEF Folding
  <1> USE <1>0
  <1> DEFINE N == Len(text)
             start == f.start
             lines == f.lines
             new == SavePortion(lines, Cut(text, start, N - start))
  <1>1. N \in Nat /\ N # 0 /\ start \in 0..N /\ start < N /\ N \in start..N /\ f.resume \in 0..N
    BY LenProperties, EmptySeq DEF FoldStates, Unfinished
  <1>2. N <= best /\ best \in Nat
    <2>1. best \in Nat
      BY <1>1, BestIs DEF Unfinished
    <2>2. N \in Places(text, f, best)
      BY <1>1, PlacesAre
    <2> QED
      BY <1>1, <2>1, <2>2 DEF Beyond
  <1>3. N - start + Extra(text, lines, start, keylen) <= bound
    BY <1>1, <1>2, BestIs DEF Unfinished
  <1>4. /\ LinesOK(text, keylen, bound, lines, start) /\ text # <<>>
        /\ lines = <<>> => start = 0
        /\ lines # <<>> => start < N
        /\ start # 0 => At(text, start) \in Blank
        /\ start = 0 /\ lines # <<>> => lines = << <<>> >>
    BY <1>1 DEF Unfinished
  <1>5. lines \in Seq(Seq(Chars(text)))
    BY DEF FoldStates
  <1>6. t = [f EXCEPT !.start = N, !.done = TRUE, !.lines = new]
    BY <1>1 DEF FoldOnce, Beyond
  <1> HIDE DEF N, start, lines, new
  <1>7. new = WithLine(text, lines, start, N) /\ MayFollow(text, keylen, bound, lines, start, N)
    BY <1>1, <1>3, <1>4, <1>5 DEF new, WithLine, MayFollow, N
  <1>8. new \in Seq(Seq(Chars(text))) /\ LinesOK(text, keylen, bound, new, N)
    BY <1>7, PortionKeeps
  <1>9. t.start = N /\ t.done = TRUE /\ t.lines = new /\ t \in FoldStates(text)
    <2> DEFINE L == Seq(Seq(Chars(text)))
    <2>1. f \in [start : 0..N, resume : 0..N, done : BOOLEAN, lines : L]
      BY DEF FoldStates, N
    <2>2. N \in 0..N /\ new \in L
      BY <1>1, <1>8
    <2> HIDE DEF L
    <2>3. /\ t.start = N /\ t.done = TRUE /\ t.lines = new
          /\ t \in [start : 0..N, resume : 0..N, done : BOOLEAN, lines : L]
      BY <1>6, <2>1, <2>2
    <2> QED
      BY <2>3 DEF FoldStates, N, L
  <1> QED
    BY <1>8, <1>9 DEF FoldOK, N

\* A state of the loop from its parts.
State(start, resume, done, lines) == [start |-> start, resume |-> resume, done |-> done, lines |-> lines]

\* Its parts are those it was made from.
LEMMA StateIs ==
    ASSUME NEW text, NEW start \in 0..Len(text), NEW resume \in 0..Len(text), NEW done \in BOOLEAN,
           NEW lines \in Seq(Seq(Chars(text))), NEW t,
           t = State(start, resume, done, lines)
    PROVE  /\ t \in FoldStates(text)
           /\ t.start = start /\ t.resume = resume /\ t.done = done /\ t.lines = lines
  <1> DEFINE L == Seq(Seq(Chars(text)))
             M == 0..Len(text)
  <1>1. start \in M /\ resume \in M /\ lines \in L
    OBVIOUS
  <1> HIDE DEF L, M
  <1>2. /\ t \in [start : M, resume : M, done : BOOLEAN, lines : L]
        /\ t.start = start /\ t.resume = resume /\ t.done = done /\ t.lines = lines
    BY <1>1 DEF State
  <1> QED
    BY <1>2 DEF FoldStates, L, M

\* The first place beyond the best one.
LEMMA NextIs ==
    ASSUME NEW text, Len(text) \in Nat, Len(text) # 0, NEW f, f.resume \in 0..Len(text), NEW best \in Nat,
           NEW S, S = Places(text, f, best),
           NEW beyond, beyond = Beyond(S, best), beyond # {}, NEW next, next = Min(beyond)
    PROVE  /\ next \in S /\ next \in f.resume..Len(text) /\ (next > best \/ next = 0)
           /\ \A i \in S : i < next => i <= best /\ i # 0
  <1>1. S \subseteq f.resume..Len(text) /\ S \in SUBSET Nat
    <2>1. S \subseteq f.resume..Len(text)
      BY PlacesAre
    <2> QED
      BY <2>1
  <1>2. beyond = {i \in S : i > best \/ i = 0}
    BY DEF Beyond
  <1>3. beyond \in SUBSET Nat
    BY <1>1, <1>2
  <1>4. next \in beyond /\ \A x \in beyond : next <= x
    BY <1>3, MinIs
  <1>5. next \in S /\ (next > best \/ next = 0) /\ next \in f.resume..Len(text)
    BY <1>1, <1>2, <1>4
  <1>6. ASSUME NEW i \in S, i < next PROVE i <= best /\ i # 0
    <2>1. i \in Nat /\ next \in Nat
      BY <1>1, <1>5
    <2>2. i \notin beyond
      BY <1>4, <1>6, <2>1
    <2> QED
      BY <1>2, <2>1, <2>2
  <1> QED
    BY <1>5, <1>6

\* The length of a line that starts before the next place beyond the best one.
Measured(n, S, start, next, before, len) ==
    /\ n \in Nat /\ S \in SUBSET (0..n) /\ start \in 0..n /\ \A i \in S : start <= i
    /\ next \in 0..n /\ start < next /\ before = Before(S, next) /\ len = FoldLength(start, before, next)

\* It ends at the last place before that one, or there if there is none.
LEMMA PlaceIs ==
    ASSUME NEW n, NEW S, NEW start, NEW next, NEW before, NEW len, Measured(n, S, start, next, before, len)
    PROVE  \/ len = next - start /\ \A i \in S : i <= start \/ next <= i
           \/ \E place \in S : /\ start < place /\ place < next /\ len = place - start
                               /\ \A i \in S : i <= place \/ next <= i
  <1>0. /\ n \in Nat /\ S \in SUBSET (0..n) /\ start \in 0..n /\ \A i \in S : start <= i
        /\ next \in 0..n /\ start < next /\ before = Before(S, next) /\ len = FoldLength(start, before, next)
    BY DEF Measured
  <1> USE <1>0
  <1> DEFINE T == {start} \cup before
             place == Max(T)
  <1>1. T \in SUBSET (0..n) /\ T # {}
    BY DEF Before
  <1>2. \A x \in T : x = start \/ (x \in S /\ x < next /\ start <= x)
    BY DEF Before
  <1>3. \A i \in S : i < next => i \in T
    BY DEF Before
  <1>4. start \in T
    BY DEF Before
  <1> HIDE DEF T
  <1>5. place \in T /\ \A x \in T : x <= place
    BY <1>1, MaxIs
  <1>6. len = IF place = start /\ next # 0 THEN next - start ELSE place - start
    BY DEF FoldLength, T
  <1> HIDE DEF place
  <1>7. place \in Nat /\ start \in Nat /\ next \in Nat /\ start <= place /\ next # 0
    BY <1>1, <1>4, <1>5
  <1>8. \A i \in S : i <= place \/ next <= i
    <2> SUFFICES ASSUME NEW i \in S, i < next PROVE i <= place
      BY <1>7
    <2> QED
      BY <1>3, <1>5
  <1>9. CASE place = start
    BY <1>6, <1>7, <1>8, <1>9
  <1>10. CASE place # start
    <2>1. place \in S /\ place < next /\ start < place
      BY <1>2, <1>5, <1>7, <1>10
    <2>2. len = place - start
      BY <1>6, <1>10
    <2> QED
      BY <1>8, <2>1, <2>2
  <1> QED
    BY <1>9, <1>10

\* The first line holds nothing: the key leaves no room on it.
BareLine(text, keylen, bound, f, z, new, done, t) ==
    /\ Folding(text, keylen, bound, f)
    /\ f.resume = 0 /\ z = 0 /\ new = WithLine(text, f.lines, z, z)
    /\ done \in BOOLEAN /\ done = FALSE /\ t = State(z, 1, done, new)

\* Such a line keeps what the lines mean.
LEMMA BareLineKeeps ==
    ASSUME NEW text, NEW keylen, NEW bound, NEW f, NEW z, NEW new, NEW done, NEW t,
           BareLine(text, keylen, bound, f, z, new, done, t)
    PROVE  f.lines = <<>> /\ FoldOK(text, keylen, bound, t) /\ t.lines # <<>>
  <1>0. /\ text \in Seq(Chars(text)) /\ keylen \in Nat /\ bound \in Nat /\ bound # 0
        /\ f \in FoldStates(text) /\ Unfinished(text, keylen, bound, f.start, f.resume, f.lines)
        /\ f.resume = 0 /\ z = 0 /\ new = WithLine(text, f.lines, z, z)
        /\ done \in BOOLEAN /\ done = FALSE /\ t = State(z, 1, done, new)
    BY DEF BareLine, Folding
  <1> USE <1>0
  <1> DEFINE lines == f.lines
  <1>1. Len(text) \in Nat /\ Len(text) # 0 /\ text # <<>>
    BY LenProperties, EmptySeq DEF Unfinished
  <1>2. f.start = 0 /\ lines = <<>> /\ lines \in Seq(Seq(Chars(text)))
    BY DEF Unfinished, FoldStates
  <1>3. MayFollow(text, keylen, bound, lines, z, z)
    <2>1. LinesOK(text, keylen, bound, lines, z)
      BY <1>2 DEF Unfinished
    <2>2. z \in 0..Len(text) /\ z \in z..Len(text) /\ \A i \in (z + 1)..(z - 1) : At(text, i) \notin Blank
      BY <1>1
    <2> QED
      BY <1>1, <1>2, <2>1, <2>2 DEF MayFollow
  <1>4. new = WithLine(text, lines, z, z)
    OBVIOUS
  <1> HIDE DEF lines
  <1>5. /\ new \in Seq(Seq(Chars(text))) /\ new # <<>> /\ LinesOK(text, keylen, bound, new, z)
        /\ z = 0 => new = << <<>> >>
    BY <1>3, <1>4, PortionKeeps
  <1>6. z \in 0..Len(text) /\ 1 \in 0..Len(text)
    BY <1>1
  <1>7. t \in FoldStates(text) /\ t.start = z /\ t.resume = 1 /\ t.done = done /\ t.lines = new
    BY <1>5, <1>6, StateIs
  <1>8. Unfinished(text, keylen, bound, z, 1, new)
    BY <1>1, <1>5 DEF Unfinished
  <1> QED
    BY <1>2, <1>5, <1>7, <1>8 DEF FoldOK, lines

\* A line ends at the first place after its start.
LongLine(text, keylen, bound, f, next, new, done, t) ==
    /\ Folding(text, keylen, bound, f)
    /\ next \in 0..Len(text) /\ f.start < next
    /\ next < Len(text) => At(text, next) \in Blank
    /\ \A i \in (f.start + 1)..(next - 1) : At(text, i) \notin Blank
    /\ new = WithLine(text, f.lines, f.start, next)
    /\ done \in BOOLEAN
    /\ done = TRUE => next = Len(text)
    /\ done = FALSE => next # Len(text)
    /\ t = State(next, next, done, new)

\* Such a line keeps what the lines mean.
LEMMA LongLineKeeps ==
    ASSUME NEW text, NEW keylen, NEW bound, NEW f, NEW next, NEW new, NEW done, NEW t,
           LongLine(text, keylen, bound, f, next, new, done, t)
    PROVE  FoldOK(text, keylen, bound, t) /\ t.lines # <<>> /\ t.start = next
  <1>0. /\ text \in Seq(Chars(text)) /\ keylen \in Nat /\ bound \in Nat /\ bound # 0
        /\ f \in FoldStates(text) /\ Unfinished(text, keylen, bound, f.start, f.resume, f.lines)
        /\ next \in 0..Len(text) /\ f.start < next
        /\ next < Len(text) => At(text, next) \in Blank
        /\ \A i \in (f.start + 1)..(next - 1) : At(text, i) \notin Blank
        /\ new = WithLine(text, f.lines, f.start, next)
        /\ done \in BOOLEAN
        /\ done = TRUE => next = Len(text)
        /\ done = FALSE => next # Len(text)
        /\ t = State(next, next, done, new)
    BY DEF LongLine, Folding
  <1> USE <1>0
  <1> DEFINE lines == f.lines
             start == f.start
  <1>1. /\ Len(text) \in Nat /\ Len(text) # 0 /\ text # <<>> /\ start \in 0..Len(text)
        /\ next \in start..Len(text) /\ lines \in Seq(Seq(Chars(text))) /\ next # 0
    BY LenProperties, EmptySeq DEF Unfinished, FoldStates
  <1>2. /\ LinesOK(text, keylen, bound, lines, start)
        /\ lines = <<>> => start = 0
        /\ lines # <<>> => start < next
        /\ start # 0 => At(text, start) \in Blank
        /\ start = 0 /\ lines # <<>> => lines = << <<>> >>
    BY DEF Unfinished
  <1>3. new = WithLine(text, lines, start, next)
    OBVIOUS
  <1>4. MayFollow(text, keylen, bound, lines, start, next)
    BY <1>1, <1>2 DEF MayFollow
  <1> HIDE DEF lines, start
  <1>5. new \in Seq(Seq(Chars(text))) /\ new # <<>> /\ LinesOK(text, keylen, bound, new, next)
    BY <1>3, <1>4, PortionKeeps
  <1>7. t \in FoldStates(text) /\ t.start = next /\ t.resume = next /\ t.done = done /\ t.lines = new
    BY <1>5, StateIs
  <1>8. done = FALSE => Unfinished(text, keylen, bound, next, next, new)
    <2> HAVE done = FALSE
    <2>1. next < Len(text) /\ next <= next
      BY <1>1
    <2>2. \A i \in (next + 1)..(next - 1) : At(text, i) \notin Blank
      BY <1>1
    <2> QED
      BY <1>1, <1>5, <2>1, <2>2 DEF Unfinished
  <1> QED
    BY <1>5, <1>7, <1>8 DEF FoldOK

\* A line ends at a place that is not beyond the best one.  When the next place is
\* the end of the text, what is left is a line.
ShortLine(text, keylen, bound, f, next, place, new, done, last, t) ==
    /\ Folding(text, keylen, bound, f)
    /\ next \in 0..Len(text) /\ place \in 0..Len(text) /\ f.start < place /\ place < next
    /\ At(text, place) \in Blank /\ place <= BestPlace(text, f, keylen, bound)
    /\ \A i \in (place + 1)..(next - 1) : At(text, i) \notin Blank
    /\ new = WithLine(text, f.lines, f.start, place)
    /\ done \in BOOLEAN
    /\ done = TRUE => next = Len(text) /\ last = WithLine(text, new, place, Len(text))
    /\ done = FALSE => next # Len(text) /\ last = new
    /\ t = State(place, next, done, last)

\* Such a line keeps what the lines mean.
LEMMA ShortLineKeeps ==
    ASSUME NEW text, NEW keylen, NEW bound, NEW f, NEW next, NEW place, NEW new, NEW done, NEW last, NEW t,
           ShortLine(text, keylen, bound, f, next, place, new, done, last, t)
    PROVE  FoldOK(text, keylen, bound, t) /\ t.lines # <<>> /\ t.start = place
  <1>0. /\ text \in Seq(Chars(text)) /\ keylen \in Nat /\ bound \in Nat /\ bound # 0
        /\ f \in FoldStates(text) /\ Unfinished(text, keylen, bound, f.start, f.resume, f.lines)
        /\ next \in 0..Len(text) /\ place \in 0..Len(text) /\ f.start < place /\ place < next
        /\ At(text, place) \in Blank /\ place <= BestPlace(text, f, keylen, bound)
        /\ \A i \in (place + 1)..(next - 1) : At(text, i) \notin Blank
        /\ new = WithLine(text, f.lines, f.start, place)
        /\ done \in BOOLEAN
        /\ done = TRUE => next = Len(text) /\ last = WithLine(text, new, place, Len(text))
        /\ done = FALSE => next # Len(text) /\ last = new
        /\ t = State(place, next, done, last)
    BY DEF ShortLine, Folding
  <1> USE <1>0
  <1> DEFINE lines == f.lines
             start == f.start
             N == Len(text)
  <1>1. /\ N \in Nat /\ N # 0 /\ text # <<>> /\ start \in 0..N
        /\ place \in start..N /\ lines \in Seq(Seq(Chars(text))) /\ place # 0 /\ place \in Nat
        /\ place < N /\ N \in place..N /\ next \in Nat
    BY LenProperties, EmptySeq DEF Unfinished, FoldStates
  <1>2. /\ LinesOK(text, keylen, bound, lines, start)
        /\ lines = <<>> => start = 0
        /\ lines # <<>> => start < place
        /\ start # 0 => At(text, start) \in Blank
        /\ start = 0 /\ lines # <<>> => lines = << <<>> >>
    BY DEF Unfinished
  <1>3. new = WithLine(text, lines, start, place)
    OBVIOUS
  <1>4. place - start + Extra(text, lines, start, keylen) <= bound
    <2>1. f.start \in Nat /\ f.start < Len(text) /\ (f.lines = <<>> => f.start = 0)
      BY <1>1 DEF Unfinished
    <2> QED
      BY <1>1, <2>1, BestIs
  <1>6. MayFollow(text, keylen, bound, lines, start, place)
    BY <1>1, <1>2, <1>4 DEF MayFollow
  <1> HIDE DEF lines, start
  <1>5. new \in Seq(Seq(Chars(text))) /\ new # <<>> /\ LinesOK(text, keylen, bound, new, place)
    BY <1>3, <1>6, PortionKeeps
  <1>7. CASE done = TRUE
    <2>1. last = WithLine(text, new, place, N)
      BY <1>7
    <2>2. \A i \in (place + 1)..(N - 1) : At(text, i) \notin Blank
      BY <1>7
    <2>3. last \in Seq(Seq(Chars(text))) /\ last # <<>> /\ LinesOK(text, keylen, bound, last, N)
      <3>1. /\ new = <<>> => place = 0
            /\ new # <<>> => place < N
            /\ place # 0 => At(text, place) \in Blank
            /\ place = 0 /\ new # <<>> => new = << <<>> >>
        BY <1>1, <1>5
      <3>2. MayFollow(text, keylen, bound, new, place, N)
        BY <1>1, <1>5, <2>2, <3>1 DEF MayFollow
      <3> QED
        BY <2>1, <3>2, PortionKeeps
    <2>4. t \in FoldStates(text) /\ t.start = place /\ t.done = done /\ t.lines = last
      BY <2>3, StateIs
    <2> QED
      BY <1>7, <2>3, <2>4 DEF FoldOK
  <1>8. CASE done = FALSE
    <2>1. last = new
      BY <1>8
    <2>2. t \in FoldStates(text) /\ t.start = place /\ t.resume = next /\ t.done = done /\ t.lines = last
      BY <1>5, <2>1, StateIs
    <2>3. Unfinished(text, keylen, bound, place, next, new)
      BY <1>1, <1>5 DEF Unfinished
    <2> QED
      BY <1>5, <1>8, <2>1, <2>2, <2>3 DEF FoldOK
  <1> QED
    BY <1>7, <1>8

\* The values that a turn computes when there is a place beyond the best one.
Found(text, f, best, places, beyond, next, before, len) ==
    /\ places = Places(text, f, best)
    /\ beyond = Beyond(places, best) /\ beyond # {}
    /\ next = Min(beyond) /\ before = Before(places, next)
    /\ len = FoldLength(f.start, before, next)

\* The state that it leaves.
Left(text, f, next, len, start, resume, lines, done, last) ==
    /\ start = f.start + len /\ lines = SavePortion(f.lines, Cut(text, f.start, len))
    /\ resume = IF len = 0 THEN next + 1 ELSE next
    /\ done = (next = Len(text))
    /\ last = IF next = Len(text) /\ start < Len(text)
              THEN SavePortion(lines, Cut(text, start, Len(text) - start)) ELSE lines

\* A turn that finds a place beyond the best one leaves that state.
LEMMA FoldOnceIs ==
    ASSUME NEW text, NEW f, NEW best, NEW places, NEW beyond, NEW next, NEW before, NEW len,
           Found(text, f, best, places, beyond, next, before, len),
           NEW start, NEW resume, NEW lines, NEW done, NEW last,
           Left(text, f, next, len, start, resume, lines, done, last)
    PROVE  FoldOnce(text, f, best) = State(start, resume, done, last)
  BY DEF FoldOnce, State, Found, Left, Beyond, Before

\* The state after such a turn is right, and further in the text unless the line
\* made is the empty first one.
LEMMA FoundKeeps ==
    ASSUME NEW text, NEW keylen, NEW bound, NEW f, Folding(text, keylen, bound, f),
           NEW best, best = BestPlace(text, f, keylen, bound),
           NEW places, NEW beyond, NEW next, NEW before, NEW len,
           Found(text, f, best, places, beyond, next, before, len),
           NEW start, NEW resume, NEW lines, NEW done, NEW last,
           Left(text, f, next, len, start, resume, lines, done, last),
           NEW t, t = State(start, resume, done, last)
    PROVE  /\ FoldOK(text, keylen, bound, t) /\ t.lines # <<>>
           /\ f.lines # <<>> => f.start < t.start
  <1> DEFINE N == Len(text)
             s == f.start
  <1>1. /\ N \in Nat /\ N # 0 /\ s \in Nat /\ s < N /\ f.resume \in 0..N /\ s <= f.resume
        /\ f.lines = <<>> => s = 0
        /\ \A i \in (s + 1)..(f.resume - 1) : At(text, i) \notin Blank
    <2>1. f.start \in 0..Len(text) /\ f.resume \in 0..Len(text)
      BY DEF Folding, FoldStates
    <2>2. /\ f.start < Len(text) /\ f.start <= f.resume /\ text # <<>>
          /\ f.lines = <<>> => f.start = 0
          /\ \A i \in (f.start + 1)..(f.resume - 1) : At(text, i) \notin Blank
      BY DEF Folding, Unfinished
    <2>3. N \in Nat /\ N # 0
      BY <2>2, LenProperties, EmptySeq DEF Folding
    <2> QED
      BY <2>1, <2>2, <2>3
  <1>2. best \in Nat /\ s <= best
    BY <1>1, BestIs DEF Folding
  <1>3. places = Places(text, f, best) /\ before = Before(places, next) /\ len = FoldLength(s, before, next)
    BY DEF Found
  <1>4. /\ places \subseteq f.resume..N
        /\ \A i \in places : i # 0 /\ i < N => At(text, i) \in Blank
        /\ \A i \in f.resume..N : i # 0 /\ i < N /\ At(text, i) \in Blank => i \in places
    BY <1>1, <1>3, PlacesAre
  <1>5. /\ next \in places /\ next \in f.resume..N /\ (next > best \/ next = 0)
        /\ \A i \in places : i < next => i <= best /\ i # 0
    <2>1. next = Min(beyond) /\ beyond # {} /\ beyond = Beyond(places, best)
      BY DEF Found
    <2> QED
      BY <1>1, <1>2, <1>3, <2>1, NextIs
  <1>6. done \in BOOLEAN /\ (done = TRUE => next = N) /\ (done = FALSE => next # N)
    BY DEF Left
  <1>7. /\ start = s + len /\ lines = SavePortion(f.lines, Cut(text, s, len))
        /\ len = 0 => resume = next + 1
        /\ len # 0 => resume = next
        /\ next = N /\ start < N => last = SavePortion(lines, Cut(text, start, N - start))
        /\ next # N \/ ~(start < N) => last = lines
    BY DEF Left
  <1> HIDE DEF N, s
  <1>8. CASE next = 0
    <2>1. f.resume = 0 /\ s = 0
      BY <1>1, <1>5, <1>8
    <2>2. before = {}
      <3>1. \A i \in places : ~(i < next)
        BY <1>1, <1>4, <1>8
      <3> QED
        BY <1>3, <3>1 DEF Before
    <2>3. len = 0
      <3> DEFINE S == {s} \cup before
      <3>1. S \in SUBSET Int /\ s \in S /\ \A y \in S : y <= s
        BY <1>1, <2>2
      <3>2. len = IF Max(S) = s /\ next # 0 THEN next - s ELSE Max(S) - s
        BY <1>3 DEF FoldLength
      <3> HIDE DEF S
      <3>3. Max(S) = s
        BY <3>1, IsMax
      <3> QED
        BY <1>1, <1>8, <3>2, <3>3
    <2>4. start = 0 /\ resume = 1 /\ done = FALSE /\ last = lines
      BY <1>1, <1>6, <1>7, <1>8, <2>1, <2>3
    <2>5. lines = WithLine(text, f.lines, start, start)
      BY <1>7, <2>1, <2>3, <2>4 DEF WithLine
    <2>6. t = State(start, 1, done, lines)
      BY <2>4
    <2>7. BareLine(text, keylen, bound, f, start, lines, done, t)
      BY <1>6, <2>1, <2>4, <2>5, <2>6 DEF BareLine
    <2> QED
      BY <2>7, BareLineKeeps
  <1>9. CASE next # 0
    <2>1. next \in 0..N /\ s < next /\ s \in 0..N /\ next \in Nat
      BY <1>1, <1>2, <1>5, <1>9
    <2>2. places \in SUBSET (0..N) /\ \A i \in places : s <= i
      BY <1>1, <1>4
    <2>3. \/ len = next - s /\ \A i \in places : i <= s \/ next <= i
          \/ \E place \in places :
                /\ s < place /\ place < next /\ len = place - s
                /\ \A i \in places : i <= place \/ next <= i
      <3>1. Measured(N, places, s, next, before, len)
        BY <1>1, <1>3, <2>1, <2>2 DEF Measured
      <3> QED
        BY <3>1, PlaceIs
    <2>4. CASE len = next - s /\ \A i \in places : i <= s \/ next <= i
      <3>1. start = next /\ resume = next /\ last = lines
        BY <1>1, <1>7, <2>1, <2>4
      <3>2. lines = WithLine(text, f.lines, s, next)
        BY <1>7, <2>4 DEF WithLine
      <3>3. \A i \in (s + 1)..(next - 1) : At(text, i) \notin Blank
        <4> SUFFICES ASSUME NEW i \in (s + 1)..(next - 1), At(text, i) \in Blank PROVE FALSE
          OBVIOUS
        <4>1. i \in Nat /\ s < i /\ i < next /\ i # 0 /\ i < N
          BY <1>1, <2>1
        <4>2. ~(i < f.resume)
          <5>1. i < f.resume => i \in (s + 1)..(f.resume - 1)
            BY <1>1, <4>1
          <5> QED
            BY <1>1, <5>1
        <4>3. i \in f.resume..N
          BY <1>1, <4>1, <4>2
        <4>4. i \in places
          BY <1>4, <4>1, <4>3
        <4> QED
          BY <1>1, <2>1, <2>4, <4>1, <4>4
      <3>4. next < N => At(text, next) \in Blank
        BY <1>4, <1>5, <1>9
      <3>5. t = State(next, next, done, lines)
        BY <3>1
      <3>6. LongLine(text, keylen, bound, f, next, lines, done, t)
        BY <1>6, <2>1, <3>2, <3>3, <3>4, <3>5 DEF LongLine, N, s
      <3>7. FoldOK(text, keylen, bound, t) /\ t.lines # <<>> /\ t.start = next
        BY <3>6, LongLineKeeps
      <3> QED
        BY <2>1, <3>7 DEF s
    <2>5. CASE \E place \in places :
                  /\ s < place /\ place < next /\ len = place - s
                  /\ \A i \in places : i <= place \/ next <= i
      <3>1. PICK place \in places : /\ s < place /\ place < next /\ len = place - s
                                    /\ \A i \in places : i <= place \/ next <= i
        BY <2>5
      <3>2. /\ place \in 0..N /\ place # 0 /\ place <= best /\ place < N /\ place \in Nat
            /\ f.resume <= place
        BY <1>1, <1>4, <1>5, <2>1, <2>2, <3>1
      <3>3. start = place /\ resume = next
        BY <1>1, <1>7, <3>1, <3>2
      <3>4. lines = WithLine(text, f.lines, s, place)
        BY <1>7, <3>1 DEF WithLine
      <3>5. \A i \in (place + 1)..(next - 1) : At(text, i) \notin Blank
        <4> SUFFICES ASSUME NEW i \in (place + 1)..(next - 1), At(text, i) \in Blank PROVE FALSE
          OBVIOUS
        <4>1. i \in Nat /\ place < i /\ i < next /\ i # 0 /\ i < N /\ i \in f.resume..N
          BY <1>1, <2>1, <3>2
        <4>2. i \in places
          BY <1>4, <4>1
        <4> QED
          BY <2>1, <3>1, <3>2, <4>1, <4>2
      <3>6. At(text, place) \in Blank
        BY <1>4, <3>1, <3>2
      <3>7. /\ done = TRUE => next = N /\ last = WithLine(text, lines, place, N)
            /\ done = FALSE => next # N /\ last = lines
        BY <1>6, <1>7, <3>2, <3>3 DEF WithLine
      <3>8. t = State(place, next, done, last)
        BY <3>3
      <3>9. place <= BestPlace(text, f, keylen, bound)
        BY <3>2
      <3>10. ShortLine(text, keylen, bound, f, next, place, lines, done, last, t)
        BY <1>6, <2>1, <3>1, <3>2, <3>4, <3>5, <3>6, <3>7, <3>8, <3>9 DEF ShortLine, N, s
      <3>11. FoldOK(text, keylen, bound, t) /\ t.lines # <<>> /\ t.start = place
        BY <3>10, ShortLineKeeps
      <3> QED
        BY <3>1, <3>11 DEF s
    <2> QED
      BY <2>3, <2>4, <2>5
  <1> QED
    BY <1>8, <1>9

\* A turn keeps what the lines mean; the first makes a line, each of the others
\* gets further in the text.
LEMMA TurnKeeps ==
    ASSUME NEW text, NEW keylen, NEW bound, NEW f, Folding(text, keylen, bound, f),
           NEW best, best = BestPlace(text, f, keylen, bound), NEW t, t = FoldOnce(text, f, best)
    PROVE  /\ FoldOK(text, keylen, bound, t)
           /\ t.done = TRUE \/ (t.lines # <<>> /\ (f.lines # <<>> => f.start < t.start))
  <1> DEFINE places == Places(text, f, best)
             beyond == Beyond(places, best)
             next == Min(beyond)
             before == Before(places, next)
             len == FoldLength(f.start, before, next)
             start == f.start + len
             lines == SavePortion(f.lines, Cut(text, f.start, len))
             resume == IF len = 0 THEN next + 1 ELSE next
             done == (next = Len(text))
             last == IF next = Len(text) /\ start < Len(text)
                     THEN SavePortion(lines, Cut(text, start, Len(text) - start)) ELSE lines
  <1>1. CASE beyond = {}
    <2>1. places = Places(text, f, best) /\ beyond = Beyond(places, best) /\ beyond = {}
      BY <1>1
    <2> HIDE DEF places, beyond, next, before, len, start, lines, resume, done, last
    <2>3. FoldOK(text, keylen, bound, t) /\ t.done = TRUE
      BY <2>1, LastLine
    <2> QED
      BY <2>3
  <1>2. CASE beyond # {}
    <2>1. Found(text, f, best, places, beyond, next, before, len)
      BY <1>2 DEF Found
    <2>2. Left(text, f, next, len, start, resume, lines, done, last)
      BY DEF Left
    <2> HIDE DEF places, beyond, next, before, len, start, lines, resume, done, last
    <2>3. t = State(start, resume, done, last)
      BY <2>1, <2>2, FoldOnceIs
    <2> QED
      BY <2>1, <2>2, <2>3, FoundKeeps
  <1> QED
    BY <1>1, <1>2


-----------------------------------------------------------------------------
(* The loop *)

\* What the loop starts from.
FoldStart(text) == [start |-> 0, resume |-> 0, done |-> text = <<>>, lines |-> <<>>]

\* What is asked of the text, the length of the key and the boundary.
Foldable(text, keylen, bound) ==
    text \in Seq(Chars(text)) /\ keylen \in Nat /\ bound \in Nat /\ bound # 0

\* A turn that follows another gets further, if the text is not folded yet.
Further(f, t) == t.done = TRUE \/ (t.lines # <<>> /\ (f.lines # <<>> => f.start < t.start))

\* The loop starts with nothing folded.
LEMMA StartIs ==
    ASSUME NEW text, NEW keylen, NEW bound, Foldable(text, keylen, bound)
    PROVE  FoldOK(text, keylen, bound, FoldStart(text))
  <1> DEFINE z == 0
             none == <<>>
             done == (text = <<>>)
             f == FoldStart(text)
             C == Chars(text)
  <1>1. text \in Seq(C) /\ keylen \in Nat /\ bound \in Nat /\ Len(text) \in Nat
    BY LenProperties DEF Foldable
  <1>2. f = State(z, z, done, none)
    BY DEF FoldStart, State
  <1>3. z \in 0..Len(text) /\ done \in BOOLEAN /\ z = 0
    BY <1>1
  <1>4. none \in Seq(Seq(C)) /\ none = <<>> /\ Len(none) = 0
    OBVIOUS
  <1>5. done = TRUE => text = <<>> /\ Len(text) = 0
    OBVIOUS
  <1>6. done = FALSE => text # <<>> /\ Len(text) > 0
    BY <1>1, EmptySeq
  <1> HIDE DEF f, C, z, none, done
  <1>7. f \in FoldStates(text) /\ f.start = z /\ f.resume = z /\ f.done = done /\ f.lines = none
    <2>1. none \in Seq(Seq(Chars(text)))
      BY <1>4 DEF C
    <2>2. z \in 0..Len(text) /\ done \in BOOLEAN
      BY <1>3
    <2> QED
      BY <1>2, <2>1, <2>2, StateIs
  <1>8. LinesOK(text, keylen, bound, none, z)
    <2>1. Unfold(none) = <<>>
      BY <1>4 DEF Unfold, FlattenSeq
    <2>2. Cut(text, 0, z) = <<>>
      <3>1. 0 \in 0..Len(text) /\ z \in 0..(Len(text) - 0)
        BY <1>1, <1>3
      <3>2. Len(Cut(text, 0, z)) = z /\ Cut(text, 0, z) \in Seq(C)
        BY <1>1, <3>1, CutIs DEF C
      <3> QED
        BY <1>3, <3>2, EmptySeq
    <2>3. Kept(text, none, z)
      BY <1>3, <2>1, <2>2 DEF Kept
    <2>4. 2..Len(none) = {} /\ 1..Len(none) = {}
      BY <1>4
    <2> QED
      BY <2>3, <2>4 DEF LinesOK
  <1>9. done = TRUE => LinesOK(text, keylen, bound, none, Len(text))
    BY <1>3, <1>5, <1>8
  <1>10. done = FALSE => Unfinished(text, keylen, bound, z, z, none)
    <2>1. \A i \in (z + 1)..(z - 1) : At(text, i) \notin Blank
      BY <1>3
    <2> QED
      BY <1>1, <1>3, <1>4, <1>6, <1>8, <2>1 DEF Unfinished
  <1> QED
    BY <1>7, <1>9, <1>10 DEF FoldOK, f

\* A turn keeps what the lines mean.
LEMMA TurnIs ==
    ASSUME NEW text, NEW keylen, NEW bound, Foldable(text, keylen, bound),
           NEW f, FoldOK(text, keylen, bound, f), NEW t, t = Turn(text, f, keylen, bound)
    PROVE  FoldOK(text, keylen, bound, t) /\ Further(f, t)
  <1>1. f.done \in BOOLEAN
    BY DEF FoldOK, FoldStates
  <1>2. CASE f.done = TRUE
    <2>1. t = f
      BY <1>2 DEF Turn
    <2> QED
      BY <1>2, <2>1 DEF Further
  <1>3. CASE f.done = FALSE
    <2> DEFINE best == BestPlace(text, f, keylen, bound)
    <2>1. Folding(text, keylen, bound, f)
      BY <1>3 DEF Folding, Foldable, FoldOK
    <2>2. t = FoldOnce(text, f, best)
      BY <1>3 DEF Turn
    <2>3. best = BestPlace(text, f, keylen, bound)
      OBVIOUS
    <2> HIDE DEF best
    <2> QED
      BY <2>1, <2>2, <2>3, TurnKeeps DEF Further
  <1> QED
    BY <1>1, <1>2, <1>3

\* The turns of the loop, one after the other.
TurnsOf(text, keylen, bound, r) ==
    /\ r[0] = FoldStart(text)
    /\ \A n \in 1..(2 + Len(text)) : r[n] = Turn(text, r[n - 1], keylen, bound)

\* value_fold takes them.
LEMMA FoldIs ==
    ASSUME NEW text, NEW keylen, NEW boundary, NEW bound, bound = IF boundary = 0 THEN 1 ELSE boundary,
           Foldable(text, keylen, bound)
    PROVE  \E r : TurnsOf(text, keylen, bound, r) /\ Fold(text, keylen, boundary) = r[2 + Len(text)].lines
  <1> DEFINE K == 2 + Len(text)
             b == IF boundary = 0 THEN 1 ELSE boundary
             turn[n \in 0..K] == IF n = 0 THEN [start |-> 0, resume |-> 0, done |-> text = <<>>, lines |-> <<>>]
                                 ELSE Turn(text, turn[n - 1], keylen, b)
             X == {f \in FoldStates(text) : FoldOK(text, keylen, bound, f)}
             F == [f \in X |-> Turn(text, f, keylen, bound)]
             x0 == FoldStart(text)
  <1>1. K \in Nat
    BY LenProperties DEF Foldable
  <1>2. Fold(text, keylen, boundary) = turn[K].lines
    BY DEF Fold
  <1>3. turn = CHOOSE r : r = [n \in 0..K |-> IF n = 0 THEN FoldStart(text)
                                              ELSE Turn(text, r[n - 1], keylen, bound)]
    BY DEF turn, FoldStart
  <1>4. x0 \in X
    BY StartIs DEF FoldOK
  <1>5. F \in [X -> X]
    <2> SUFFICES ASSUME NEW f \in X PROVE Turn(text, f, keylen, bound) \in X
      OBVIOUS
    <2>1. FoldOK(text, keylen, bound, Turn(text, f, keylen, bound))
      BY TurnIs
    <2> QED
      BY <2>1 DEF FoldOK
  <1>6. \A f \in X : F[f] = Turn(text, f, keylen, bound)
    OBVIOUS
  <1> HIDE DEF K, turn, X, F, x0, b
  <1>7. PICK g \in [Nat -> X] : Iterates(F, x0, g)
    BY <1>4, <1>5, LoopExists
  <1> DEFINE h == [n \in 0..K |-> g[n]]
  <1>8. ASSUME NEW n \in 0..K
        PROVE  h[n] = IF n = 0 THEN FoldStart(text) ELSE Turn(text, h[n - 1], keylen, bound)
    <2>1. CASE n = 0
      BY <1>7, <2>1 DEF Iterates, x0
    <2>2. CASE n # 0
      <3>1. n - 1 \in Nat /\ (n - 1) + 1 = n /\ n - 1 \in 0..K
        BY <1>1, <2>2
      <3>2. g[n] = F[g[n - 1]] /\ g[n - 1] \in X
        BY <1>7, <3>1 DEF Iterates
      <3>3. h[n] = g[n] /\ h[n - 1] = g[n - 1]
        BY <3>1
      <3> QED
        BY <1>6, <2>2, <3>2, <3>3
    <2> QED
      BY <2>1, <2>2
  <1>9. h = [n \in 0..K |-> IF n = 0 THEN FoldStart(text) ELSE Turn(text, h[n - 1], keylen, bound)]
    <2>1. h = [n \in 0..K |-> h[n]]
      OBVIOUS
    <2> HIDE DEF h
    <2> QED
      BY <1>8, <2>1
  <1> HIDE DEF h
  <1>10. turn = [n \in 0..K |-> IF n = 0 THEN FoldStart(text) ELSE Turn(text, turn[n - 1], keylen, bound)]
    BY <1>3, <1>9
  <1>11. TurnsOf(text, keylen, bound, turn)
    <2>1. turn[0] = FoldStart(text)
      <3>1. 0 \in 0..K
        BY <1>1
      <3> QED
        BY <1>10, <3>1
    <2>2. ASSUME NEW n \in 1..K PROVE turn[n] = Turn(text, turn[n - 1], keylen, bound)
      <3>1. n \in 0..K /\ n # 0
        BY <1>1
      <3> QED
        BY <1>10, <3>1
    <2> QED
      BY <2>1, <2>2 DEF TurnsOf, K
  <1> QED
    BY <1>2, <1>11 DEF K

\* The lines are right after the last turn: the text is folded by then, since each
\* turn but the first gets further in it.
LEMMA TurnsEnd ==
    ASSUME NEW text, NEW keylen, NEW bound, Foldable(text, keylen, bound),
           NEW r, TurnsOf(text, keylen, bound, r)
    PROVE  /\ r[2 + Len(text)].lines \in Seq(Seq(Chars(text)))
           /\ LinesOK(text, keylen, bound, r[2 + Len(text)].lines, Len(text))
  <1> DEFINE N == Len(text)
             K == 2 + N
             Reached(n) == /\ FoldOK(text, keylen, bound, r[n])
                           /\ r[n].done = FALSE /\ n # 0 => r[n].lines # <<>> /\ r[n].start >= n - 1
             S == {n \in 0..K : Reached(n)}
  <1>1. N \in Nat /\ K \in Nat /\ K # 0
    BY LenProperties DEF Foldable
  <1>2. r[0] = FoldStart(text) /\ \A n \in 1..K : r[n] = Turn(text, r[n - 1], keylen, bound)
    BY DEF TurnsOf
  <1>3. \A n : FoldOK(text, keylen, bound, r[n]) => r[n].done \in BOOLEAN /\ r[n].start \in 0..N
    BY DEF FoldOK, FoldStates
  <1> HIDE DEF K, N
  <1>4. 0 \in S
    BY <1>1, <1>2, StartIs
  <1>5. ASSUME NEW n \in 1..K, n - 1 \in S PROVE n \in S
    <2> DEFINE f == r[n - 1]
               t == r[n]
    <2>1. FoldOK(text, keylen, bound, f) /\ n \in 0..K /\ n \in Nat
      BY <1>1, <1>5
    <2>2. FoldOK(text, keylen, bound, t) /\ Further(f, t)
      <3>1. t = Turn(text, f, keylen, bound)
        BY <1>2
      <3> HIDE DEF f, t
      <3> QED
        BY <2>1, <3>1, TurnIs
    <2>3. ASSUME t.done = FALSE PROVE t.lines # <<>> /\ t.start >= n - 1
      <3>1. t.lines # <<>> /\ (f.lines # <<>> => f.start < t.start)
        BY <2>2, <2>3 DEF Further
      <3>2. f.start \in Nat /\ t.start \in Nat
        BY <1>1, <1>3, <2>1, <2>2
      <3>3. f.done = FALSE
        <4>1. f.done \in BOOLEAN
          BY <1>3, <2>1
        <4>2. f.done = TRUE => t = f
          BY <1>2 DEF Turn
        <4> QED
          BY <2>3, <4>1, <4>2
      <3>4. CASE n = 1
        BY <3>1, <3>2, <3>4
      <3>5. CASE n # 1
        <4>1. n - 1 # 0 /\ n - 1 \in Nat
          BY <2>1, <3>5
        <4>2. f.lines # <<>> /\ f.start >= (n - 1) - 1
          BY <1>5, <3>3, <4>1
        <4> QED
          BY <2>1, <3>1, <3>2, <4>2
      <3> QED
        BY <3>4, <3>5
    <2> QED
      BY <2>1, <2>2, <2>3
  <1>6. 0..K \subseteq S
    <2> HIDE DEF S
    <2> QED
      BY <1>1, <1>4, <1>5, SetInduction
  <1>7. Reached(K)
    BY <1>1, <1>6
  <1>8. r[K].done = TRUE
    <2>1. CASE r[K].done = FALSE
      <3>1. r[K].start >= K - 1 /\ r[K].start \in 0..N
        BY <1>1, <1>3, <1>7, <2>1
      <3> QED
        BY <1>1, <3>1 DEF K
    <2> QED
      BY <1>3, <1>7, <2>1
  <1>9. r[K].lines \in Seq(Seq(Chars(text)))
    BY <1>7 DEF FoldOK, FoldStates
  <1> QED
    BY <1>7, <1>8, <1>9 DEF FoldOK, K, N

\* What value_fold makes of a text.
LEMMA FoldLines ==
    ASSUME NEW text, NEW keylen, NEW boundary, NEW bound, bound = IF boundary = 0 THEN 1 ELSE boundary,
           Foldable(text, keylen, bound), NEW lines, lines = Fold(text, keylen, boundary)
    PROVE  lines \in Seq(Seq(Chars(text))) /\ LinesOK(text, keylen, bound, lines, Len(text))
  <1>1. PICK r : TurnsOf(text, keylen, bound, r) /\ Fold(text, keylen, boundary) = r[2 + Len(text)].lines
    BY FoldIs
  <1> QED
    BY <1>1, TurnsEnd

\* Folding a text of the instance keeps it, and keeps to the boundary.
LEMMA FoldsSound ==
    ASSUME NEW t \in FoldTexts, NEW k \in KeyLens, NEW b \in 0..MaxBoundary, NEW lines, lines = Fold(t, k, b)
    PROVE  /\ lines \in Seq(Seq(Chars(t)))
           /\ Unfold(lines) = IF Added(t, lines) THEN <<Space>> \o t ELSE t
           /\ \A n \in 2..Len(lines) : Starts(lines[n], Blank)
           /\ b # 0 => \A n \in 1..Len(lines) : Fits(lines[n], n, k, b)
  <1> DEFINE bound == IF b = 0 THEN 1 ELSE b
             C == Chars(t)
             N == Len(t)
  <1>1. k \in Nat /\ b \in Nat /\ bound \in Nat /\ bound # 0
    BY ValueAssumption
  <1>2. t \in Seq(C)
    <2> DEFINE D == ToSet(t)
    <2>1. t \in Seq(D)
      BY ValueAssumption
    <2>2. D \subseteq C
      BY DEF Chars
    <2> HIDE DEF D, C
    <2> QED
      BY <2>1, <2>2
  <1>3. Foldable(t, k, bound)
    BY <1>1, <1>2 DEF Foldable
  <1>4. bound = IF b = 0 THEN 1 ELSE b
    OBVIOUS
  <1>5. b # 0 => bound = b
    OBVIOUS
  <1> HIDE DEF bound, C
  <1>6. lines \in Seq(Seq(Chars(t))) /\ LinesOK(t, k, bound, lines, N)
    BY <1>3, <1>4, FoldLines
  <1>7. N \in Nat /\ (t # <<>> => N > 0)
    BY <1>2, LenProperties, EmptySeq
  <1>8. Cut(t, 0, N) = t
    <2> DEFINE c == Cut(t, 0, N)
    <2>1. 0 \in 0..N /\ N \in 0..(N - 0)
      BY <1>7
    <2>2. c \in Seq(C) /\ Len(c) = N /\ \A j \in 1..N : c[j] = t[0 + j]
      BY <1>2, <2>1, CutIs
    <2> HIDE DEF c
    <2>3. \A j \in 1..N : c[j] = t[j]
      BY <2>2
    <2>4. c = t
      BY <1>2, <2>2, <2>3, SeqsAgree
    <2> QED
      BY <2>4 DEF c
  <1>9. Unfold(lines) = IF Added(t, lines) THEN <<Space>> \o t ELSE t
    <2>1. Added(t, lines) => N > 0
      BY <1>7 DEF Added
    <2> QED
      BY <1>6, <1>8, <2>1 DEF LinesOK, Kept
  <1> QED
    BY <1>5, <1>6, <1>9 DEF LinesOK


(* value_fold loses nothing of a text, adds one blank at most, begins      *)
(* every line but the first with a blank, and keeps to the boundary where  *)
(* there is a place to fold at: for every text, key and boundary.          *)
THEOREM FoldCorrect == Spec => []FoldSound
  <1>1. FoldMeans
    <2> SUFFICES ASSUME NEW t \in FoldTexts, NEW k \in KeyLens, NEW b \in 0..MaxBoundary
                 PROVE  /\ Unfold(Fold(t, k, b)) = IF Added(t, Fold(t, k, b)) THEN <<Space>> \o t ELSE t
                        /\ \A n \in 2..Len(Fold(t, k, b)) : Starts(Fold(t, k, b)[n], Blank)
      BY DEF FoldMeans
    <2> DEFINE lines == Fold(t, k, b)
    <2>1. lines = Fold(t, k, b)
      OBVIOUS
    <2> HIDE DEF lines
    <2>2. /\ Unfold(lines) = IF Added(t, lines) THEN <<Space>> \o t ELSE t
          /\ \A n \in 2..Len(lines) : Starts(lines[n], Blank)
      BY <2>1, FoldsSound
    <2> QED
      BY <2>2 DEF lines
  <1>2. FoldFits
    <2> SUFFICES ASSUME NEW t \in FoldTexts, NEW k \in KeyLens, NEW b \in 1..MaxBoundary,
                        NEW n \in DOMAIN Fold(t, k, b)
                 PROVE  \/ Len(Fold(t, k, b)[n]) + (IF n = 1 THEN k + INI_FOLDING_OVERHEAD ELSE 0) <= b
                        \/ \A i \in 2..Len(Fold(t, k, b)[n]) : Fold(t, k, b)[n][i] \notin Blank
      BY DEF FoldFits
    <2> DEFINE lines == Fold(t, k, b)
    <2>1. lines = Fold(t, k, b) /\ n \in DOMAIN lines
      OBVIOUS
    <2> HIDE DEF lines
    <2>3. b \in 0..MaxBoundary /\ b # 0
      BY ValueAssumption
    <2>4. lines \in Seq(Seq(Chars(t))) /\ \A m \in 1..Len(lines) : Fits(lines[m], m, k, b)
      BY <2>1, <2>3, FoldsSound
    <2>5. n \in 1..Len(lines)
      BY <2>1, <2>4, LenProperties
    <2>6. Fits(lines[n], n, k, b)
      BY <2>4, <2>5
    <2> QED
      BY <2>6 DEF Fits, lines
  <1>3. FoldSound
    BY <1>1, <1>2 DEF FoldSound
  <1> QED
    BY <1>3, PTL

=============================================================================
