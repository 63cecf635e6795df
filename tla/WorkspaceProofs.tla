---------------------------- MODULE WorkspaceProofs ----------------------------
(***************************************************************************)
(* What is proved of Workspace, for all sets of companies, rows, requests, *)
(* readers and stores, for all kinds of reports with what they count, and  *)
(* for all lists of fields that requests reorder.                          *)
(***************************************************************************)
EXTENDS Workspace, FiniteSetTheorems, SequenceTheorems, TLAPS

-----------------------------------------------------------------------------
(* Fields: types *)

FieldStates ==
    {NoField} \cup FieldRows

PlaceOrNone == Places \cup {NoField}

EditorStates ==
    [pc : {"unsent", "done", "refused"}]
        \cup [pc : {"naming", "creating"}, name : Names, place : Places]
        \cup [pc : {"saving"}, field : FieldIds, loaded : FieldRows,
              name : Names \cup {NoField}, place : PlaceOrNone]
        \cup [pc : {"deleting"}, field : FieldIds]
        \cup [pc : {"reading", "writing", "committing"}, order : Orders, at : Nat \ {0},
              loaded : Nat, wrote : UNION {[D -> Nat] : D \in SUBSET FieldIds}, alone : BOOLEAN]

FieldsTyped ==
    /\ field \in [FieldIds -> FieldStates]
    /\ editor \in [Editors -> EditorStates]
    /\ placedBy \in [FieldIds -> Editors \cup {NoField}]
    /\ standing \in Seq(FieldIds)

\* The place of f as the reorder e sees it.
PlaceFor(e, f) == IF f \in DOMAIN editor[e].wrote THEN editor[e].wrote[f] ELSE field[f].place

Sole(e) == Ordering(e) /\ editor[e].alone /\ IsInjective(editor[e].order)

\* What a request knows exists, and a reorder has at is a place of its order.
Knows(e) ==
    /\ Is(e, "saving") \/ Is(e, "deleting") => Defined(editor[e].field)
    /\ Ordering(e) =>
        /\ editor[e].at \in 1 .. Len(editor[e].order) + 1
        /\ Is(e, "committing") <=> editor[e].at = Len(editor[e].order) + 1
        /\ \A f \in DOMAIN editor[e].wrote :
            Defined(f) /\ \E i \in 1 .. editor[e].at - 1 : editor[e].order[i] = f
        /\ Is(e, "writing") => Defined(NextInOrder(e))

\* A reorder that has met no other request so far has placed, or found in
\* place, each field of the order that it is past.
PlacesHold(e) ==
    Sole(e) =>
        /\ \A i \in 1 .. editor[e].at - 1 :
            /\ Defined(editor[e].order[i])
            /\ PlaceFor(e, editor[e].order[i]) = i - 1
        /\ Is(e, "writing") => editor[e].loaded = PlaceFor(e, NextInOrder(e))

StandingHolds ==
    \A i \in DOMAIN standing : Defined(standing[i]) /\ field[standing[i]].place = i - 1

Placed == \A f \in FieldIds : placedBy[f] \in Editors => Is(placedBy[f], "done")

FieldsInv ==
    /\ FieldsTyped
    /\ \A e \in Editors : Knows(e)
    /\ \A e \in Editors : PlacesHold(e)
    /\ StandingHolds
    /\ Placed

LEMMA Whole == FieldsInv => ReorderWhole
  BY DEF FieldsInv, ReorderWhole, StandingHolds, Placed, Is, FieldsTyped

-----------------------------------------------------------------------------
(* Fields: the steps *)

\* A step of e that moves no field that is there.
LEMMA NoneMoved ==
  ASSUME FieldsInv, NEW e \in Editors, ~Is(e, "done"), UNCHANGED standing,
         NEW r \in EditorStates, editor' = [editor EXCEPT ![e] = r],
         field' \in [FieldIds -> FieldStates],
         \A f \in FieldIds : Defined(f) => Defined(f)' /\ field'[f].place = field[f].place,
         placedBy' \in [FieldIds -> Editors \cup {NoField}],
         \A f \in FieldIds : \/ placedBy'[f] = placedBy[f]
                             \/ placedBy'[f] = e /\ r.pc = "done",
         Knows(e)', PlacesHold(e)'
  PROVE  FieldsInv'
<1> USE DEF FieldsInv
<1>1. FieldsTyped'
  BY DEF FieldsTyped
<1>2. \A x \in Editors : x # e => editor'[x] = editor[x]
  BY DEF FieldsTyped
<1>3. editor'[e] = r
  BY DEF FieldsTyped
<1>4. ASSUME NEW x \in Editors, x # e
      PROVE  Knows(x)'
  <2>1. editor'[x] = editor[x] /\ Knows(x) /\ editor[x] \in EditorStates
    BY <1>2, <1>4 DEF FieldsTyped
  <2>2. CASE Is(x, "saving") \/ Is(x, "deleting")
    <3>1. editor[x].field \in FieldIds
      BY <2>2, <2>1 DEF EditorStates, Is
    <3> QED BY <3>1, <2>1, <2>2 DEF Knows, Is, Ordering
  <2>3. CASE Ordering(x)
    <3>1. DOMAIN editor[x].wrote \subseteq FieldIds
      BY <2>3, <2>1 DEF EditorStates, Ordering
    <3>2. editor[x].order \in Seq(FieldIds) /\ editor[x].at \in Nat
      BY <2>3, <2>1, FieldsAssumption DEF EditorStates, Ordering
    <3>3. Is(x, "writing") => NextInOrder(x) \in FieldIds
      <4>1. Is(x, "writing") => editor[x].at \in 1 .. Len(editor[x].order)
        BY <2>1, <2>3, <3>2, LenProperties DEF Knows, Is
      <4> QED BY <4>1, <3>2, ElementOfSeq DEF NextInOrder
    <3> QED BY <3>1, <3>3, <2>1, <2>3 DEF Knows, Is, Ordering, NextInOrder
  <2> QED BY <2>1, <2>2, <2>3 DEF Knows, Is, Ordering
<1>5. ASSUME NEW x \in Editors, x # e
      PROVE  PlacesHold(x)'
  <2>1. editor'[x] = editor[x] /\ PlacesHold(x) /\ Knows(x) /\ editor[x] \in EditorStates
    BY <1>2, <1>5 DEF FieldsTyped
  <2>2. CASE Sole(x)
    <3>1. editor[x].order \in Seq(FieldIds) /\ editor[x].at \in Nat
      BY <2>2, <2>1, FieldsAssumption DEF EditorStates, Sole, Ordering
    <3>2. \A i \in 1 .. editor[x].at - 1 : editor[x].order[i] \in FieldIds
      <4>1. \A i \in 1 .. editor[x].at - 1 : i \in 1 .. Len(editor[x].order)
        BY <2>2, <2>1, <3>1, LenProperties DEF Knows, Sole
      <4> QED BY <4>1, <3>1, ElementOfSeq
    <3>3. Is(x, "writing") => NextInOrder(x) \in FieldIds /\ Defined(NextInOrder(x))
      <4>1. Is(x, "writing") => editor[x].at \in 1 .. Len(editor[x].order)
        BY <2>1, <2>2, <3>1, LenProperties DEF Knows, Is, Sole
      <4> QED BY <4>1, <3>1, <2>1, <2>2, ElementOfSeq DEF NextInOrder, Knows, Sole
    <3> QED BY <3>2, <3>3, <2>1, <2>2 DEF PlacesHold, Sole, Ordering, Is, NextInOrder, PlaceFor
  <2> QED BY <2>1, <2>2 DEF PlacesHold, Sole, Ordering
<1>6. StandingHolds'
  BY LenProperties DEF StandingHolds, FieldsTyped
<1>7. Placed'
  BY <1>2, <1>3 DEF Placed, Is, FieldsTyped
<1> QED BY <1>1, <1>4, <1>5, <1>6, <1>7

\* A step of e alone that touches no field.
LEMMA NoneTouched ==
  ASSUME FieldsInv, NEW e \in Editors, ~Is(e, "done"),
         UNCHANGED <<field, placedBy, standing>>,
         NEW r \in EditorStates, editor' = [editor EXCEPT ![e] = r],
         Knows(e)', PlacesHold(e)'
  PROVE  FieldsInv'
BY NoneMoved DEF FieldsInv, FieldsTyped, Defined

\* After a step that places the fields fs.
FieldsMoved(fs, rows) ==
    /\ field' \in [FieldIds -> FieldStates]
    /\ editor' \in [Editors -> EditorStates]
    /\ placedBy' \in [FieldIds -> Editors \cup {NoField}]
    /\ \A x \in Editors : Knows(x)'
    /\ \A x \in Editors : PlacesHold(x)'
    /\ Placed'
    /\ \A f \in FieldIds : Defined(f) =>
           /\ Defined(f)'
           /\ field'[f].place = IF f \in fs THEN rows[f].place ELSE field[f].place

\* A step of e that places the fields fs.
LEMMA SomePlaced ==
  ASSUME FieldsInv, NEW e \in Editors,
         NEW fs \in SUBSET FieldIds, NEW rows,
         \A f \in fs : Defined(f) /\ rows[f] \in FieldRows,
         Place(e, fs, rows)
  PROVE  FieldsMoved(fs, rows)
<1> USE DEF FieldsInv
<1>1. /\ \A f \in FieldIds : field[f] \in FieldStates
      /\ \A x \in Editors : editor[x] \in EditorStates
      /\ \A f \in FieldIds : placedBy[f] \in Editors \cup {NoField}
  BY DEF FieldsTyped
<1>2. \A f \in FieldIds :
        field'[f] = IF f \in fs THEN rows[f] ELSE field[f]
  BY DEF Place
<1>3. \A f \in fs : field'[f] \in FieldRows /\ field'[f].place = rows[f].place
  BY <1>1, <1>2 DEF Defined, FieldStates, FieldRows
<1>4. \A f \in FieldIds : field'[f] \in FieldStates
  BY <1>1, <1>2, <1>3 DEF FieldStates
<1>5. \A f \in FieldIds : Defined(f) =>
                /\ Defined(f)'
                /\ field'[f].place = IF f \in fs THEN rows[f].place ELSE field[f].place
  BY <1>2, <1>3, FieldsAssumption DEF Defined
<1>6. editor'[e] = [pc |-> "done"]
  BY DEF Place
<1>7. ASSUME NEW x \in Editors, x # e
      PROVE  /\ ~Ordering(x) => editor'[x] = editor[x]
             /\ Ordering(x) =>
                    \/ editor'[x] = editor[x] /\ Range(editor[x].order) \cap fs = {}
                    \/ editor'[x] = [editor[x] EXCEPT !.alone = FALSE]
  BY <1>7 DEF Place
<1>8. ASSUME NEW x \in Editors, x # e
      PROVE  /\ editor'[x] \in EditorStates
             /\ editor'[x].pc = editor[x].pc
             /\ ~Ordering(x) => editor'[x] = editor[x]
             /\ Ordering(x) =>
                    /\ editor'[x].order = editor[x].order /\ editor'[x].at = editor[x].at
                    /\ editor'[x].wrote = editor[x].wrote
                    /\ editor'[x] # editor[x] => ~editor'[x].alone
  <2>1. CASE Ordering(x)
    <3>1. editor[x] \in [pc : {"reading", "writing", "committing"}, order : Orders, at : Nat \ {0},
              loaded : Nat, wrote : UNION {[D -> Nat] : D \in SUBSET FieldIds}, alone : BOOLEAN]
      BY <2>1, <1>1 DEF Ordering, EditorStates
    <3>2. [editor[x] EXCEPT !.alone = FALSE] \in [pc : {"reading", "writing", "committing"}, order : Orders, at : Nat \ {0},
              loaded : Nat, wrote : UNION {[D -> Nat] : D \in SUBSET FieldIds}, alone : BOOLEAN]
      BY <3>1
    <3> QED BY <3>1, <3>2, <2>1, <1>7, <1>8 DEF EditorStates
  <2>2. CASE ~Ordering(x)
    BY <2>2, <1>1, <1>7, <1>8
  <2> QED BY <2>1, <2>2
<1>9. \A x \in Editors : editor'[x] \in EditorStates
  BY <1>6, <1>8 DEF EditorStates
<1>10. ASSUME NEW x \in Editors
       PROVE  Knows(x)'
  <2>1. CASE x = e
    BY <2>1, <1>6 DEF Knows, Is, Ordering
  <2>2. CASE x # e /\ (Is(x, "saving") \/ Is(x, "deleting"))
    <3>1. editor[x].field \in FieldIds
      BY <2>2, <1>1 DEF EditorStates, Is
    <3> QED BY <3>1, <2>2, <1>8, <1>5 DEF Knows, Is, Ordering
  <2>3. CASE x # e /\ Ordering(x)
    <3>1. DOMAIN editor[x].wrote \subseteq FieldIds
      BY <2>3, <1>1 DEF EditorStates, Ordering
    <3>2. editor[x].order \in Seq(FieldIds) /\ editor[x].at \in Nat
      BY <2>3, <1>1, FieldsAssumption DEF EditorStates, Ordering
    <3>3. Is(x, "writing") => NextInOrder(x) \in FieldIds
      <4>1. Is(x, "writing") => editor[x].at \in 1 .. Len(editor[x].order)
        BY <2>3, <3>2, LenProperties DEF Knows, Is
      <4> QED BY <4>1, <3>2, ElementOfSeq DEF NextInOrder
    <3>4. Knows(x)
      OBVIOUS
    <3>5. editor'[x].pc = editor[x].pc /\ ~(Is(x, "saving") \/ Is(x, "deleting"))'
      BY <2>3, <1>8 DEF Is, Ordering
    <3>6. Is(x, "writing")' => Defined(NextInOrder(x))'
      BY <3>3, <3>4, <3>5, <2>3, <1>8, <1>5 DEF Knows, Is, NextInOrder
    <3>7. \A f \in DOMAIN editor'[x].wrote :
            Defined(f)' /\ \E i \in 1 .. editor'[x].at - 1 : editor'[x].order[i] = f
      BY <3>1, <3>4, <2>3, <1>8, <1>5 DEF Knows
    <3> QED BY <3>4, <3>5, <3>6, <3>7, <2>3, <1>8 DEF Knows, Is
  <2>4. CASE x # e /\ ~Ordering(x) /\ ~Is(x, "saving") /\ ~Is(x, "deleting")
    BY <2>4, <1>8 DEF Knows, Is, Ordering
  <2> QED BY <2>1, <2>2, <2>3, <2>4
<1>11. ASSUME NEW x \in Editors
       PROVE  PlacesHold(x)'
  <2>1. CASE ~Sole(x)'
    BY <2>1 DEF PlacesHold
  <2>2. CASE Sole(x)'
    <3>1. x # e
      BY <2>2, <1>6 DEF Sole, Ordering
    <3>2. Ordering(x)
      BY <3>1, <2>2, <1>8 DEF Sole, Ordering
    <3>3. editor'[x] = editor[x]
      BY <3>1, <3>2, <2>2, <1>8 DEF Sole
    <3>4. Range(editor[x].order) \cap fs = {}
      <4>1. CASE editor'[x] = [editor[x] EXCEPT !.alone = FALSE]
        <5>1. ~editor'[x].alone
          <6>1. "alone" \in DOMAIN editor[x]
            BY <3>2, <1>1 DEF Ordering, EditorStates
          <6> QED BY <6>1, <4>1
        <5> QED BY <5>1, <2>2 DEF Sole
      <4> QED BY <4>1, <3>1, <3>2, <1>7
    <3>5. Sole(x) /\ PlacesHold(x) /\ Knows(x)
      BY <2>2, <3>2, <3>3 DEF Sole, Ordering
    <3>6. editor[x].order \in Seq(FieldIds) /\ editor[x].at \in Nat
      BY <3>2, <1>1, FieldsAssumption DEF EditorStates, Ordering
    <3>7. \A i \in 1 .. editor[x].at - 1 : editor[x].order[i] \in FieldIds \ fs
      <4>1. \A i \in 1 .. editor[x].at - 1 : i \in 1 .. Len(editor[x].order)
        BY <3>5, <3>6, LenProperties DEF Knows, Sole
      <4> QED BY <4>1, <3>6, <3>4, ElementOfSeq, LenProperties DEF Range
    <3>8. Is(x, "writing") => NextInOrder(x) \in FieldIds \ fs /\ Defined(NextInOrder(x))
      <4>1. Is(x, "writing") => editor[x].at \in 1 .. Len(editor[x].order)
        BY <3>5, <3>6, LenProperties DEF Knows, Is, Sole
      <4> QED BY <4>1, <3>6, <3>5, <3>4, ElementOfSeq, LenProperties DEF NextInOrder, Knows, Sole, Range
    <3>9. \A f \in FieldIds \ fs : Defined(f) => Defined(f)' /\ PlaceFor(x, f)' = PlaceFor(x, f)
      BY <3>3, <1>5 DEF PlaceFor
    <3> QED BY <3>3, <3>5, <3>7, <3>8, <3>9 DEF PlacesHold, Sole, Ordering, Is, NextInOrder
  <2> QED BY <2>1, <2>2
<1>12. Placed'
  <2>1. \A f \in FieldIds : placedBy'[f] = IF f \in fs THEN e ELSE placedBy[f]
    BY DEF Place
  <2>2. \A x \in Editors : Is(x, "done") => Is(x, "done")'
    BY <1>6, <1>8 DEF Is
  <2> QED BY <2>1, <2>2, <1>6 DEF Placed, Is
<1>13. /\ field' \in [FieldIds -> FieldStates]
       /\ editor' \in [Editors -> EditorStates]
       /\ placedBy' \in [FieldIds -> Editors \cup {NoField}]
  BY <1>4, <1>9, <1>1 DEF Place
<1> QED BY <1>5, <1>10, <1>11, <1>12, <1>13 DEF FieldsMoved

LEMMA Aside ==
  ASSUME NEW e \in Editors,
         editor'[e].pc \in {"done", "refused", "naming", "creating"}
  PROVE  Knows(e)' /\ PlacesHold(e)'
BY DEF Knows, PlacesHold, Sole, Is, Ordering

\* A request that is refused, or ends with nothing changed.
LEMMA Replies ==
  ASSUME FieldsInv, NEW e \in Editors, ~Is(e, "done"),
         UNCHANGED <<field, placedBy, standing>>,
         NEW how \in {"done", "refused"}, Reply(e, how)
  PROVE  FieldsInv'
<1> DEFINE r == [pc |-> how]
<1>1. r \in EditorStates
  BY DEF EditorStates
<1>2. editor' = [editor EXCEPT ![e] = r] /\ editor'[e].pc = how
  BY DEF Reply, FieldsInv, FieldsTyped
<1> HIDE DEF r
<1> QED BY <1>1, <1>2, Aside, NoneTouched

LEMMA CreateKeeps ==
  ASSUME FieldsInv, NEW e \in Editors, CreateField(e)
  PROVE  FieldsInv'
<1>1. ASSUME NEW n \in Names, NEW p \in Places, CheckField(e, n, p)
      PROVE  FieldsInv'
  <2> DEFINE r == [pc |-> "naming", name |-> n, place |-> p]
  <2>1. r \in EditorStates
    BY DEF EditorStates
  <2>2. CASE Reply(e, "refused")
    BY <2>2, <1>1, Replies DEF CheckField, Is
  <2>3. CASE editor' = [editor EXCEPT ![e] = r]
    <3>1. editor'[e].pc = "naming"
      BY <2>3 DEF FieldsInv, FieldsTyped
    <3> HIDE DEF r
    <3> QED BY <3>1, <2>3, <2>1, <1>1, Aside, NoneTouched DEF CheckField, Is
  <2> QED BY <2>2, <2>3, <1>1 DEF CheckField
<1>2. CASE CheckName(e)
  <2> DEFINE r == [editor[e] EXCEPT !.pc = "creating"]
  <2>1. CASE Reply(e, "refused")
    BY <2>1, <1>2, Replies DEF CheckName, Is
  <2>2. CASE editor' = [editor EXCEPT ![e].pc = "creating"]
    <3>1. r \in EditorStates /\ r.pc = "creating"
      <4>1. editor[e] \in [pc : {"naming", "creating"}, name : Names, place : Places]
        BY <1>2 DEF CheckName, Is, FieldsInv, FieldsTyped, EditorStates
      <4> QED BY <4>1 DEF EditorStates
    <3>2. editor' = [editor EXCEPT ![e] = r]
      BY <2>2
    <3>3. editor'[e] = r
      BY <3>2 DEF FieldsInv, FieldsTyped
    <3> HIDE DEF r
    <3> QED BY <3>1, <3>2, <3>3, <1>2, Aside, NoneTouched DEF CheckName, Is
  <2> QED BY <2>1, <2>2, <1>2 DEF CheckName
<1>3. CASE InsertField(e)
  <2>1. CASE Reply(e, "refused") /\ UNCHANGED <<field, placedBy>>
    BY <2>1, <1>3, Replies DEF InsertField, Is
  <2>2. CASE ~(Reply(e, "refused") /\ UNCHANGED <<field, placedBy>>)
    <3> DEFINE r == [pc |-> "done"]
               new == [name |-> editor[e].name, place |-> editor[e].place, live |-> TRUE]
    <3>1. PICK f \in FieldIds :
             /\ ~Defined(f)
             /\ field' = [field EXCEPT ![f] = new]
             /\ placedBy' = [placedBy EXCEPT ![f] = e]
             /\ Reply(e, "done")
      BY <1>3, <2>2 DEF InsertField
    <3>2. new \in FieldRows
      <4>1. editor[e] \in [pc : {"naming", "creating"}, name : Names, place : Places]
        BY <1>3 DEF InsertField, Is, FieldsInv, FieldsTyped, EditorStates
      <4> QED BY <4>1, FieldsAssumption DEF FieldRows
    <3> HIDE DEF new
    <3>3. /\ field' \in [FieldIds -> FieldStates]
          /\ \A g \in FieldIds : Defined(g) => Defined(g)' /\ field'[g].place = field[g].place
      BY <3>1, <3>2 DEF FieldsInv, FieldsTyped, FieldStates, Defined
    <3>4. /\ placedBy' \in [FieldIds -> Editors \cup {NoField}]
          /\ \A g \in FieldIds : placedBy'[g] = placedBy[g] \/ placedBy'[g] = e
      BY <3>1 DEF FieldsInv, FieldsTyped
    <3>5. editor' = [editor EXCEPT ![e] = r] /\ editor'[e].pc = "done" /\ r.pc = "done"
      BY <3>1 DEF Reply, FieldsInv, FieldsTyped
    <3>6. r \in EditorStates
      BY DEF EditorStates
    <3>7. Knows(e)' /\ PlacesHold(e)' /\ ~Is(e, "done") /\ UNCHANGED standing
      BY <3>5, <1>3, Aside DEF InsertField, Is
    <3> HIDE DEF r
    <3> QED BY <3>3, <3>4, <3>5, <3>6, <3>7, NoneMoved
  <2> QED BY <2>1, <2>2
<1> QED BY <1>1, <1>2, <1>3 DEF CreateField

LEMMA UpdateKeeps ==
  ASSUME FieldsInv, NEW e \in Editors, UpdateField(e)
  PROVE  FieldsInv'
<1>1. ASSUME NEW n \in Names \cup {NoField}, NEW p \in PlaceOrNone, LoadField(e, n, p)
      PROVE  FieldsInv'
  <2>1. PICK f \in FieldIds :
            IF f \notin LiveFields \/ (n \notin {NoField, field[f].name} /\ Named(n) # {})
            THEN Reply(e, "refused")
            ELSE editor' = [editor EXCEPT ![e] =
                    [pc |-> "saving", field |-> f, loaded |-> field[f],
                     name |-> n, place |-> p]]
    BY <1>1 DEF LoadField
  <2> DEFINE r == [pc |-> "saving", field |-> f, loaded |-> field[f], name |-> n, place |-> p]
  <2>2. CASE Reply(e, "refused")
    BY <2>2, <1>1, Replies DEF LoadField, Is
  <2>3. CASE ~Reply(e, "refused")
    <3>1. editor' = [editor EXCEPT ![e] = r] /\ f \in LiveFields
      BY <2>1, <2>3
    <3>2. r \in EditorStates
      BY <3>1 DEF EditorStates, LiveFields, Defined, FieldsInv, FieldsTyped, FieldStates
    <3>3. editor'[e] = r /\ r.pc = "saving" /\ r.field = f /\ Defined(f)
      BY <3>1 DEF FieldsInv, FieldsTyped, LiveFields
    <3> HIDE DEF r
    <3>4. Knows(e)' /\ PlacesHold(e)'
      BY <3>3, <1>1 DEF Knows, PlacesHold, Sole, Is, Ordering, LoadField, Defined
    <3> QED BY <3>1, <3>2, <3>4, <1>1, NoneTouched DEF LoadField, Is
  <2> QED BY <2>2, <2>3
<1>2. CASE SaveField(e)
  <2> DEFINE f == editor[e].field
             n == editor[e].name
             p == editor[e].place
  <2>1. editor[e] \in [pc : {"saving"}, field : FieldIds, loaded : FieldRows,
              name : Names \cup {NoField}, place : PlaceOrNone]
    BY <1>2 DEF SaveField, Is, FieldsInv, FieldsTyped, EditorStates
  <2>2. /\ f \in FieldIds /\ Defined(f) /\ field[f] \in FieldRows
        /\ ~Is(e, "done")
    BY <2>1, <1>2 DEF SaveField, Is, FieldsInv, FieldsTyped, FieldStates, Knows, Defined
  <2>3. CASE /\ Reply(e, "refused") \/ Reply(e, "done")
             /\ UNCHANGED <<field, placedBy, standing>>
    BY <2>2, <2>3, Replies
  <2>4. CASE Changed(n, editor[e].loaded.name) /\ SaveName(e, f, n)
    <3> DEFINE r == [pc |-> "done"]
    <3>1. n \in Names
      BY <2>1, <2>4 DEF Changed
    <3> HIDE DEF f, n
    <3>2. field' = [field EXCEPT ![f].name = n]
      BY <2>4 DEF SaveName
    <3>3. /\ field' \in [FieldIds -> FieldStates]
          /\ \A g \in FieldIds : Defined(g) => Defined(g)' /\ field'[g].place = field[g].place
      <4>1. [field[f] EXCEPT !.name = n] \in FieldRows
            /\ [field[f] EXCEPT !.name = n].place = field[f].place
        BY <2>2, <3>1 DEF FieldRows
      <4>2. \A g \in FieldIds : field'[g] = IF g = f THEN [field[f] EXCEPT !.name = n] ELSE field[g]
        BY <3>2, <2>2 DEF FieldsInv, FieldsTyped
      <4>3. field' \in [FieldIds -> FieldStates]
        BY <4>1, <3>2, <2>2 DEF FieldsInv, FieldsTyped, FieldStates
      <4> QED BY <4>1, <4>2, <4>3, FieldsAssumption DEF Defined
    <3>4. editor' = [editor EXCEPT ![e] = r] /\ editor'[e].pc = "done"
      BY <2>4 DEF Reply, SaveName, FieldsInv, FieldsTyped
    <3>5. r \in EditorStates
      BY DEF EditorStates
    <3>6. Knows(e)' /\ PlacesHold(e)' /\ UNCHANGED <<placedBy, standing>>
      BY <3>4, <2>4, Aside DEF SaveName
    <3>7. placedBy' \in [FieldIds -> Editors \cup {NoField}]
      BY <3>6 DEF FieldsInv, FieldsTyped
    <3> HIDE DEF r
    <3> QED BY <3>3, <3>4, <3>5, <3>6, <3>7, <2>2, NoneMoved
  <2>5. ASSUME NEW called \in Names, Changed(p, editor[e].loaded.place),
               SavePlace(e, f, called, p)
        PROVE  FieldsInv'
    <3>1. p \in Nat
      BY <2>1, <2>5, FieldsAssumption DEF Changed, PlaceOrNone
    <3>7. PICK h \in FieldIds, to \in Nat : h = f /\ to = p
      BY <3>1, <2>2
    <3>8. PICK rows : rows = [g \in {h} |-> [field[g] EXCEPT !.name = called, !.place = to]]
      OBVIOUS
    <3>9. PICK fs \in SUBSET FieldIds : fs = {h}
      OBVIOUS
    <3>2. Place(e, fs, rows) /\ Defined(h) /\ field[h] \in FieldRows
      BY <2>5, <2>2, <3>7, <3>8, <3>9 DEF SavePlace
    <3>10. [field[h] EXCEPT !.name = called, !.place = to] \in FieldRows
      BY <3>2 DEF FieldRows
    <3>3. \A g \in fs : Defined(g) /\ rows[g] \in FieldRows
      BY <3>2, <3>8, <3>9, <3>10
    <3>4. /\ field' \in [FieldIds -> FieldStates]
          /\ editor' \in [Editors -> EditorStates]
          /\ placedBy' \in [FieldIds -> Editors \cup {NoField}]
          /\ \A x \in Editors : Knows(x)'
          /\ \A x \in Editors : PlacesHold(x)'
          /\ Placed'
          /\ \A g \in FieldIds : Defined(g) =>
                /\ Defined(g)'
                /\ field'[g].place = IF g \in fs THEN rows[g].place ELSE field[g].place
      <4>1. FieldsMoved(fs, rows)
        BY <3>2, <3>3, SomePlaced
      <4> QED BY <4>1 DEF FieldsMoved
    <3>5. standing' = IF h \in Range(standing) THEN <<>> ELSE standing
      BY <2>5, <3>7 DEF SavePlace
    <3>6. standing' \in Seq(FieldIds) /\ StandingHolds'
      <4>1. CASE h \in Range(standing)
        BY <4>1, <3>5, EmptySeq, LenProperties DEF StandingHolds
      <4>2. CASE h \notin Range(standing)
        <5>1. standing' = standing /\ standing \in Seq(FieldIds) /\ StandingHolds
          BY <4>2, <3>5 DEF FieldsInv, FieldsTyped
        <5>2. \A i \in DOMAIN standing : standing[i] \in FieldIds \ {h}
          BY <4>2, <5>1, LenProperties, ElementOfSeq DEF Range
        <5> QED BY <5>1, <5>2, <3>4, <3>9 DEF StandingHolds
      <4> QED BY <4>1, <4>2
    <3> QED BY <3>4, <3>6 DEF FieldsInv, FieldsTyped
  <2>6. field[f].name \in Names /\ (Changed(n, editor[e].loaded.name) => n \in Names)
    BY <2>1, <2>2 DEF FieldRows, Changed
  <2>7. \/ (Reply(e, "refused") \/ Reply(e, "done")) /\ UNCHANGED <<field, placedBy, standing>>
        \/ Changed(n, editor[e].loaded.name) /\ SaveName(e, f, n)
        \/ Changed(n, editor[e].loaded.name) /\ Changed(p, editor[e].loaded.place)
              /\ SavePlace(e, f, n, p)
        \/ Changed(p, editor[e].loaded.place) /\ SavePlace(e, f, field[f].name, p)
    BY <1>2 DEF SaveField
  <2> QED BY <2>3, <2>4, <2>5, <2>6, <2>7
<1> QED BY <1>1, <1>2 DEF UpdateField, PlaceOrNone

LEMMA DeleteKeeps ==
  ASSUME FieldsInv, NEW e \in Editors, DeleteField(e)
  PROVE  FieldsInv'
<1>1. CASE Is(e, "unsent") /\ UNCHANGED <<field, lock, placedBy, standing>>
  <2>1. CASE Reply(e, "refused")
    BY <2>1, <1>1, Replies DEF Is
  <2>2. CASE \E f \in LiveFields :
                editor' = [editor EXCEPT ![e] = [pc |-> "deleting", field |-> f]]
    <3>1. PICK f \in LiveFields :
                editor' = [editor EXCEPT ![e] = [pc |-> "deleting", field |-> f]]
      BY <2>2
    <3> DEFINE r == [pc |-> "deleting", field |-> f]
    <3>2. r \in EditorStates
      BY DEF EditorStates, LiveFields
    <3>3. editor' = [editor EXCEPT ![e] = r] /\ editor'[e] = r
          /\ r.pc = "deleting" /\ r.field = f /\ Defined(f)
      BY <3>1 DEF FieldsInv, FieldsTyped, LiveFields
    <3> HIDE DEF r
    <3>4. Knows(e)' /\ PlacesHold(e)'
      BY <3>3, <1>1 DEF Knows, PlacesHold, Sole, Is, Ordering, Defined
    <3> QED BY <3>2, <3>3, <3>4, <1>1, NoneTouched DEF Is
  <2> QED BY <2>1, <2>2, <1>1 DEF DeleteField, Is
<1>2. CASE Is(e, "deleting") /\ UNCHANGED <<lock, placedBy, standing>>
  <2>1. PICK f \in FieldIds : f = editor[e].field /\ Defined(f) /\ field[f] \in FieldRows
    BY <1>2 DEF FieldsInv, FieldsTyped, FieldStates, EditorStates, Knows, Is, Defined
  <2>2. field' = [field EXCEPT ![f].live = FALSE] /\ Reply(e, "done")
    BY <1>2, <2>1 DEF DeleteField, Is
  <2> DEFINE r == [pc |-> "done"]
  <2>3. /\ field' \in [FieldIds -> FieldStates]
        /\ \A g \in FieldIds : Defined(g) => Defined(g)' /\ field'[g].place = field[g].place
    <3>1. [field[f] EXCEPT !.live = FALSE] \in FieldRows
          /\ [field[f] EXCEPT !.live = FALSE].place = field[f].place
      BY <2>1 DEF FieldRows
    <3>2. \A g \in FieldIds : field'[g] = IF g = f THEN [field[f] EXCEPT !.live = FALSE] ELSE field[g]
      BY <2>2, <2>1 DEF FieldsInv, FieldsTyped
    <3>3. field' \in [FieldIds -> FieldStates]
      BY <3>1, <2>1, <2>2 DEF FieldsInv, FieldsTyped, FieldStates
    <3> QED BY <3>1, <3>2, <3>3, FieldsAssumption DEF Defined
  <2>4. editor' = [editor EXCEPT ![e] = r] /\ editor'[e].pc = "done"
    BY <2>2 DEF Reply, FieldsInv, FieldsTyped
  <2>5. r \in EditorStates
    BY DEF EditorStates
  <2>6. Knows(e)' /\ PlacesHold(e)' /\ UNCHANGED <<placedBy, standing>> /\ ~Is(e, "done")
    BY <2>4, <1>2, Aside DEF Is
  <2>7. placedBy' \in [FieldIds -> Editors \cup {NoField}]
    BY <1>2 DEF FieldsInv, FieldsTyped
  <2> HIDE DEF r
  <2> QED BY <2>3, <2>4, <2>5, <2>6, <2>7, NoneMoved
<1> QED BY <1>1, <1>2 DEF DeleteField

Reorders ==
    [pc : {"reading", "writing", "committing"}, order : Orders, at : Nat \ {0},
     loaded : Nat, wrote : UNION {[D -> Nat] : D \in SUBSET FieldIds}, alone : BOOLEAN]

\* What the records of reorders are made of.
LEMMA OfAReorder ==
  ASSUME FieldsInv, NEW e \in Editors, Ordering(e)
  PROVE  /\ editor[e] \in Reorders
         /\ editor[e].order \in Seq(FieldIds)
         /\ Len(editor[e].order) \in Nat
         /\ DOMAIN editor[e].order = 1 .. Len(editor[e].order)
         /\ \A i \in 1 .. Len(editor[e].order) : editor[e].order[i] \in FieldIds
         /\ editor[e].at \in 1 .. Len(editor[e].order) + 1
         /\ editor[e].wrote \in [DOMAIN editor[e].wrote -> Nat]
         /\ DOMAIN editor[e].wrote \subseteq FieldIds
         /\ editor[e].alone \in BOOLEAN
         /\ ~Is(e, "committing") =>
              /\ editor[e].at \in 1 .. Len(editor[e].order)
              /\ NextInOrder(e) \in FieldIds
<1>1. editor[e] \in Reorders
  BY DEF FieldsInv, FieldsTyped, EditorStates, Ordering, Reorders
<1>2. editor[e].order \in Seq(FieldIds)
  BY <1>1, FieldsAssumption DEF Reorders
<1>3. /\ Len(editor[e].order) \in Nat
      /\ DOMAIN editor[e].order = 1 .. Len(editor[e].order)
      /\ \A i \in 1 .. Len(editor[e].order) : editor[e].order[i] \in FieldIds
  BY <1>2, LenProperties, ElementOfSeq
<1>4. /\ editor[e].wrote \in [DOMAIN editor[e].wrote -> Nat]
      /\ DOMAIN editor[e].wrote \subseteq FieldIds
      /\ editor[e].alone \in BOOLEAN
  BY <1>1 DEF Reorders
<1>5. /\ editor[e].at \in 1 .. Len(editor[e].order) + 1
      /\ Is(e, "committing") <=> editor[e].at = Len(editor[e].order) + 1
  BY DEF FieldsInv, Knows
<1>6. ~Is(e, "committing") => editor[e].at \in 1 .. Len(editor[e].order)
  BY <1>3, <1>5
<1> QED BY <1>1, <1>2, <1>3, <1>4, <1>5, <1>6 DEF NextInOrder

LEMMA StartKeeps ==
  ASSUME FieldsInv, NEW e \in Editors, StartReorder(e)
  PROVE  FieldsInv'
<1> DEFINE r(o) == [pc |-> IF o = <<>> THEN "committing" ELSE "reading", order |-> o, at |-> 1,
                    loaded |-> 0, wrote |-> [f \in {} |-> 0], alone |-> TRUE]
<1>1. PICK o \in Orders : editor' = [editor EXCEPT ![e] = r(o)]
  BY DEF StartReorder
<1>2. o \in Seq(FieldIds) /\ Len(o) \in Nat /\ (o = <<>> <=> Len(o) = 0)
  BY FieldsAssumption, LenProperties, EmptySeq
<1>3. PICK none : none = [f \in {} |-> 0]
  OBVIOUS
<1>4. PICK s : s = r(o)
  OBVIOUS
<1>5. none \in [{} -> Nat] /\ DOMAIN none = {}
  BY <1>3
<1>6. s \in Reorders
  <2>1. none \in UNION {[D -> Nat] : D \in SUBSET FieldIds}
    BY <1>5
  <2> QED BY <2>1, <1>3, <1>4 DEF Reorders
<1>7. s \in EditorStates
  BY <1>6 DEF EditorStates, Reorders
<1>8. /\ editor'[e] = s /\ s.order = o /\ s.at = 1 /\ DOMAIN s.wrote = {}
      /\ s.pc = IF o = <<>> THEN "committing" ELSE "reading"
  BY <1>1, <1>3, <1>4, <1>5 DEF FieldsInv, FieldsTyped
<1>9. Knows(e)'
  BY <1>8, <1>2 DEF Knows, Is, Ordering
<1>10. PlacesHold(e)'
  BY <1>8 DEF PlacesHold, Is
<1> HIDE DEF r
<1> QED BY <1>1, <1>4, <1>7, <1>9, <1>10, NoneTouched DEF StartReorder, Is

LEMMA RollbackKeeps ==
  ASSUME FieldsInv, NEW e \in Editors, Rollback(e), ~Is(e, "done")
  PROVE  FieldsInv'
BY Replies DEF Rollback

LEMMA ReadKeeps ==
  ASSUME FieldsInv, NEW e \in Editors, ReadPlace(e)
  PROVE  FieldsInv'
<1>1. Ordering(e) /\ Is(e, "reading") /\ ~Is(e, "committing") /\ ~Is(e, "done")
  BY DEF ReadPlace, Ordering, Is
<1>2. PICK f \in FieldIds : f = NextInOrder(e)
  BY <1>1, OfAReorder
<1>3. CASE Rollback(e)
  BY <1>3, <1>1, RollbackKeeps
<1>4. CASE ~Rollback(e)
  <2> DEFINE to == PlaceFor(e, f)
             r == [editor[e] EXCEPT !.pc = "writing", !.loaded = to]
  <2>1. f \in LiveFields /\ UNCHANGED <<field, lock, placedBy, standing>>
        /\ editor' = [editor EXCEPT ![e].pc = "writing", ![e].loaded = to]
    BY <1>2, <1>4 DEF ReadPlace, PlaceFor
  <2>2. Defined(f) /\ field[f].place \in Nat
    BY <2>1 DEF LiveFields, Defined, FieldsInv, FieldsTyped, FieldStates, FieldRows
  <2>3. to \in Nat
    BY <2>2, <1>1, OfAReorder DEF PlaceFor
  <2> HIDE DEF to
  <2>4. editor' = [editor EXCEPT ![e] = r]
    BY <2>1
  <2>5. r \in Reorders
    BY <2>3, <1>1, OfAReorder DEF Reorders
  <2>6. editor'[e] = r
    BY <2>4 DEF FieldsInv, FieldsTyped
  <2>7. /\ r.pc = "writing" /\ r.loaded = to /\ r.at = editor[e].at /\ r.order = editor[e].order
        /\ r.wrote = editor[e].wrote /\ r.alone = editor[e].alone
    BY <1>1, OfAReorder DEF Reorders
  <2>8. r \in EditorStates
    BY <2>5 DEF EditorStates, Reorders
  <2> HIDE DEF r
  <2>9. NextInOrder(e)' = f
    BY <2>6, <2>7, <1>2 DEF NextInOrder
  <2>10. \A g : PlaceFor(e, g)' = PlaceFor(e, g)
    BY <2>6, <2>7, <2>1 DEF PlaceFor
  <2>11. \A g : Defined(g)' <=> Defined(g)
    BY <2>1 DEF Defined
  <2>12. Knows(e)'
    <3>1. Knows(e)
      BY DEF FieldsInv
    <3>2. editor[e].at \in 1 .. Len(editor[e].order) /\ Len(editor[e].order) \in Nat
      BY <1>1, OfAReorder
    <3> QED BY <3>1, <3>2, <2>2, <2>6, <2>7, <2>9, <2>11, <1>1 DEF Knows, Is, Ordering
  <2>13. PlacesHold(e)'
    <3>1. PlacesHold(e)
      BY DEF FieldsInv
    <3>2. Sole(e)' => Sole(e)
      BY <2>6, <2>7, <1>1 DEF Sole
    <3>3. to = PlaceFor(e, f)'
      BY <2>10 DEF to
    <3> QED BY <3>1, <3>2, <3>3, <2>6, <2>7, <2>9, <2>10, <2>11 DEF PlacesHold
  <2> QED BY <2>1, <2>4, <2>8, <2>12, <2>13, <1>1, NoneTouched
<1> QED BY <1>3, <1>4

LEMMA WriteKeeps ==
  ASSUME FieldsInv, NEW e \in Editors, WritePlace(e)
  PROVE  FieldsInv'
<1>1. Ordering(e) /\ Is(e, "writing") /\ ~Is(e, "committing") /\ ~Is(e, "done")
  BY DEF WritePlace, Ordering, Is
<1>2. /\ editor[e] \in Reorders
      /\ Len(editor[e].order) \in Nat
      /\ DOMAIN editor[e].order = 1 .. Len(editor[e].order)
      /\ editor[e].at \in 1 .. Len(editor[e].order)
      /\ editor[e].wrote \in [DOMAIN editor[e].wrote -> Nat]
      /\ DOMAIN editor[e].wrote \subseteq FieldIds
  BY <1>1, OfAReorder
<1>3. PICK f \in FieldIds : f = NextInOrder(e) /\ Defined(f)
  BY <1>1, OfAReorder DEF FieldsInv, Knows
<1>4. PICK k \in Nat, last \in Nat : k = editor[e].at /\ last = Len(editor[e].order) /\ k \in 1 .. last
  BY <1>2
<1>5. PICK w :
        /\ Advance(e, w)
        /\ \/ editor[e].loaded = k - 1 /\ w = editor[e].wrote
           \/ w = With(editor[e].wrote, f, k - 1)
  BY <1>3, <1>4 DEF WritePlace
<1>6. /\ w \in [DOMAIN w -> Nat]
      /\ DOMAIN w \subseteq FieldIds
      /\ \A g \in DOMAIN w : g \in DOMAIN editor[e].wrote \/ g = f
  <2>1. CASE w = editor[e].wrote
    BY <2>1, <1>2
  <2>2. CASE w = With(editor[e].wrote, f, k - 1)
    <3>1. k - 1 \in Nat
      BY <1>4
    <3>2. DOMAIN w = DOMAIN editor[e].wrote \cup {f}
      BY <2>2 DEF With
    <3>3. \A g \in DOMAIN w : w[g] = IF g = f THEN k - 1 ELSE editor[e].wrote[g]
      BY <2>2 DEF With
    <3>4. w = [g \in DOMAIN w |-> w[g]]
      BY <2>2 DEF With
    <3> QED BY <1>2, <3>1, <3>2, <3>3, <3>4
  <2> QED BY <1>5, <2>1, <2>2
<1> DEFINE pc == IF k = last THEN "committing" ELSE "reading"
           r == [editor[e] EXCEPT !.pc = pc, !.at = k + 1, !.wrote = w]
<1>7. editor' = [editor EXCEPT ![e] = r]
  <2>1. editor' = [editor EXCEPT ![e].pc = pc, ![e].at = k + 1, ![e].wrote = w]
    BY <1>5, <1>4 DEF Advance
  <2> QED BY <2>1
<1>8. pc \in {"reading", "committing"} /\ (pc = "committing" <=> k = last)
  OBVIOUS
<1> HIDE DEF pc
<1>9. r \in Reorders
  <2>1. w \in UNION {[D -> Nat] : D \in SUBSET FieldIds}
    BY <1>6
  <2>2. k + 1 \in Nat \ {0}
    BY <1>4
  <2> QED BY <2>1, <2>2, <1>8, <1>2 DEF Reorders
<1>10. r \in EditorStates
  BY <1>9 DEF EditorStates, Reorders
<1>11. editor'[e] = r
  BY <1>7 DEF FieldsInv, FieldsTyped
<1>12. /\ r.pc = pc /\ r.loaded = editor[e].loaded /\ r.at = k + 1 /\ r.order = editor[e].order
       /\ r.wrote = w /\ r.alone = editor[e].alone
  BY <1>2 DEF Reorders
<1> HIDE DEF r
<1>13. UNCHANGED <<field, placedBy, standing>> /\ \A g : Defined(g)' <=> Defined(g)
  BY DEF WritePlace, Defined
<1>14. Knows(e)'
  <2>1. Knows(e)
    BY DEF FieldsInv
  <2>2. \A g \in DOMAIN w : Defined(g)
    BY <2>1, <1>1, <1>3, <1>6 DEF Knows
  <2>3. \A g \in DOMAIN w : \E i \in 1 .. k : editor[e].order[i] = g
    <3>1. f = editor[e].order[k] /\ k \in 1 .. k
      BY <1>3, <1>4 DEF NextInOrder
    <3>2. \A g \in DOMAIN editor[e].wrote : \E i \in 1 .. k - 1 : editor[e].order[i] = g
      BY <2>1, <1>1, <1>4 DEF Knows
    <3>3. \A i \in 1 .. k - 1 : i \in 1 .. k
      OBVIOUS
    <3> QED BY <3>1, <3>2, <3>3, <1>6
  <2>4. k + 1 \in 1 .. last + 1 /\ (k = last <=> k + 1 = last + 1) /\ (k + 1) - 1 = k
    BY <1>4
  <2> QED BY <2>2, <2>3, <2>4, <1>4, <1>8, <1>11, <1>12, <1>13 DEF Knows, Is
<1>15. PlacesHold(e)'
  <2>8. PICK o : o = editor[e].order
    OBVIOUS
  <2>1. SUFFICES ASSUME Sole(e)'
                 PROVE  \A i \in 1 .. k : Defined(o[i])
                                          /\ PlaceFor(e, o[i])' = i - 1
    <3>1. (k + 1) - 1 = k /\ ~Is(e, "writing")'
      BY <1>4, <1>8, <1>11, <1>12 DEF Is
    <3>2. editor'[e].order = editor[e].order
      BY <1>11, <1>12
    <3> QED BY <2>1, <2>8, <3>1, <3>2, <1>11, <1>12, <1>13 DEF PlacesHold, PlaceFor
  <2>2. Sole(e) /\ PlacesHold(e)
    BY <2>1, <1>1, <1>11, <1>12 DEF Sole, FieldsInv
  <2>3. PlaceFor(e, f) = editor[e].loaded
    BY <2>2, <1>1, <1>3 DEF PlacesHold
  <2>4. o[k] = f
    BY <2>8, <1>3, <1>4 DEF NextInOrder
  <2>5. PlaceFor(e, f)' = k - 1
    <3>1. CASE editor[e].loaded = k - 1 /\ w = editor[e].wrote
      BY <3>1, <2>3, <1>11, <1>12, <1>13 DEF PlaceFor
    <3>2. CASE w = With(editor[e].wrote, f, k - 1)
      <4>1. f \in DOMAIN w /\ w[f] = k - 1
        BY <3>2 DEF With
      <4> QED BY <4>1, <1>11, <1>12 DEF PlaceFor
    <3> QED BY <3>1, <3>2, <1>5
  <2>6. \A g \in FieldIds : g # f => PlaceFor(e, g)' = PlaceFor(e, g)
    <3>1. CASE w = editor[e].wrote
      BY <3>1, <1>11, <1>12, <1>13 DEF PlaceFor
    <3>2. CASE w = With(editor[e].wrote, f, k - 1)
      <4>1. \A g \in FieldIds : g # f =>
                /\ g \in DOMAIN w <=> g \in DOMAIN editor[e].wrote
                /\ g \in DOMAIN w => w[g] = editor[e].wrote[g]
        BY <3>2 DEF With
      <4> QED BY <4>1, <1>11, <1>12, <1>13 DEF PlaceFor
    <3> QED BY <3>1, <3>2, <1>5
  <2>7. ASSUME NEW i \in 1 .. k
        PROVE  Defined(o[i]) /\ PlaceFor(e, o[i])' = i - 1
    <3>1. CASE i = k
      BY <3>1, <2>4, <2>5, <1>3
    <3>2. CASE i # k
      <4>1. i \in 1 .. k - 1 /\ i \in 1 .. last /\ k \in 1 .. last
        BY <3>2, <1>4
      <4>2. o[i] # f
        BY <4>1, <3>2, <2>4, <2>2, <2>8, <1>2, <1>4 DEF Sole, IsInjective
      <4>3. o[i] \in FieldIds
        BY <4>1, <2>8, <1>1, <1>4, OfAReorder
      <4>4. Defined(o[i]) /\ PlaceFor(e, o[i]) = i - 1
        BY <4>1, <2>2, <2>8, <1>4 DEF PlacesHold
      <4> QED BY <4>2, <4>3, <4>4, <2>6
    <3> QED BY <3>1, <3>2
  <2> QED BY <2>7
<1> QED BY <1>1, <1>7, <1>10, <1>13, <1>14, <1>15, NoneTouched

LEMMA CommitKeeps ==
  ASSUME FieldsInv, NEW e \in Editors, CommitOrder(e)
  PROVE  FieldsInv'
<1>1. Ordering(e) /\ Is(e, "committing")
  BY DEF CommitOrder, Ordering, Is
<1>10. PICK w : w = editor[e].wrote
  OBVIOUS
<1>11. PICK fs \in SUBSET FieldIds : fs = DOMAIN w
  BY <1>1, <1>10, OfAReorder
<1>2. w = editor[e].wrote /\ fs = DOMAIN w /\ w \in [fs -> Nat]
  BY <1>1, <1>10, <1>11, OfAReorder
<1>3. PICK o \in Seq(FieldIds) : o = editor[e].order
  BY <1>1, OfAReorder
<1>4. \A f \in fs : Defined(f) /\ w[f] \in Nat
  BY <1>1, <1>2 DEF FieldsInv, Knows
<1>14. PICK rows : rows = [f \in fs |-> [field[f] EXCEPT !.place = w[f]]]
  OBVIOUS
<1>5. Place(e, fs, rows)
  BY <1>2, <1>14 DEF CommitOrder
<1>15. \A f \in fs : rows[f] \in FieldRows /\ rows[f].place = w[f]
  <2> SUFFICES ASSUME NEW f \in fs
               PROVE  rows[f] \in FieldRows /\ rows[f].place = w[f]
    OBVIOUS
  <2>1. field[f] \in FieldRows /\ w[f] \in Nat
    BY <1>4 DEF FieldsInv, FieldsTyped, FieldStates, Defined
  <2>2. rows[f] = [field[f] EXCEPT !.place = w[f]]
    BY <1>14
  <2> QED BY <2>1, <2>2 DEF FieldRows
<1>6. /\ field' \in [FieldIds -> FieldStates]
      /\ editor' \in [Editors -> EditorStates]
      /\ placedBy' \in [FieldIds -> Editors \cup {NoField}]
      /\ \A x \in Editors : Knows(x)'
      /\ \A x \in Editors : PlacesHold(x)'
      /\ Placed'
      /\ \A f \in FieldIds : Defined(f) =>
            /\ Defined(f)'
            /\ field'[f].place = IF f \in fs THEN w[f] ELSE field[f].place
  <2>1. FieldsMoved(fs, rows)
    BY <1>4, <1>5, <1>15, SomePlaced
  <2> QED BY <2>1, <1>15 DEF FieldsMoved
<1>7. CASE Sole(e)
  <2>1. standing' = o
    BY <1>7, <1>3 DEF CommitOrder, Sole
  <2>2. Len(o) \in Nat /\ DOMAIN o = 1 .. Len(o) /\ editor[e].at - 1 = Len(o)
    BY <1>1, <1>3, LenProperties DEF FieldsInv, Knows
  <2>3. \A i \in 1 .. Len(o) : Defined(o[i]) /\ PlaceFor(e, o[i]) = i - 1
    BY <1>7, <2>2, <1>3 DEF FieldsInv, PlacesHold
  <2>4. \A i \in 1 .. Len(o) : o[i] \in FieldIds
    BY <1>3, ElementOfSeq
  <2>5. \A f \in FieldIds : PlaceFor(e, f) = IF f \in fs THEN w[f] ELSE field[f].place
    BY <1>2 DEF PlaceFor
  <2>6. StandingHolds'
    BY <2>1, <2>2, <2>3, <2>4, <2>5, <1>6 DEF StandingHolds
  <2> QED BY <2>1, <2>6, <1>6 DEF FieldsInv, FieldsTyped
<1>8. CASE ~Sole(e) /\ fs \cap Range(standing) # {}
  <2>1. standing' = <<>>
    BY <1>1, <1>8, <1>2 DEF CommitOrder, Sole
  <2>2. standing' \in Seq(FieldIds) /\ StandingHolds'
    BY <2>1, EmptySeq, LenProperties DEF StandingHolds
  <2> QED BY <2>2, <1>6 DEF FieldsInv, FieldsTyped
<1>9. CASE ~Sole(e) /\ fs \cap Range(standing) = {}
  <2>1. standing' = standing /\ standing \in Seq(FieldIds) /\ StandingHolds
    BY <1>1, <1>9, <1>2 DEF CommitOrder, Sole, FieldsInv, FieldsTyped
  <2>2. \A i \in DOMAIN standing : standing[i] \in FieldIds \ fs
    BY <2>1, <1>9, LenProperties, ElementOfSeq DEF Range
  <2>3. StandingHolds'
    BY <2>1, <2>2, <1>6 DEF StandingHolds
  <2> QED BY <2>1, <2>3, <1>6 DEF FieldsInv, FieldsTyped
<1> QED BY <1>7, <1>8, <1>9

LEMMA EditsKeep == FieldsInv /\ [FieldsNext]_fieldVars => FieldsInv'
<1>1. ASSUME FieldsInv, NEW e \in Editors, Edit(e)
      PROVE  FieldsInv'
  <2>1. CASE CreateField(e)
    BY <2>1, <1>1, CreateKeeps
  <2>2. CASE UpdateField(e)
    BY <2>2, <1>1, UpdateKeeps
  <2>3. CASE DeleteField(e)
    BY <2>3, <1>1, DeleteKeeps
  <2>4. CASE StartReorder(e)
    BY <2>4, <1>1, StartKeeps
  <2>5. CASE ReadPlace(e)
    BY <2>5, <1>1, ReadKeeps
  <2>6. CASE WritePlace(e)
    BY <2>6, <1>1, WriteKeeps
  <2>7. CASE Deadlocked(e) /\ Rollback(e)
    <3>1. ~Is(e, "done")
      <4>1. WaitsFor(e) \in Editors
        BY <2>7 DEF Deadlocked
      <4> QED BY <4>1, FieldsAssumption DEF WaitsFor, Is
    <3> QED BY <3>1, <2>7, <1>1, RollbackKeeps
  <2>8. CASE CommitOrder(e)
    BY <2>8, <1>1, CommitKeeps
  <2> QED BY <2>1, <2>2, <2>3, <2>4, <2>5, <2>6, <2>7, <2>8, <1>1 DEF Edit, Reorder
<1>2. ASSUME FieldsInv, UNCHANGED fieldVars
      PROVE  FieldsInv'
  BY <1>2 DEF fieldVars, FieldsInv, FieldsTyped, Knows, PlacesHold, StandingHolds, Placed,
              Is, Ordering, Sole, Defined, NextInOrder, PlaceFor
<1> QED BY <1>1, <1>2 DEF FieldsNext

LEMMA FieldsStart == FieldsInit => FieldsInv
<1> SUFFICES ASSUME FieldsInit
             PROVE  FieldsInv
  OBVIOUS
<1>1. FieldsTyped
  BY EmptySeq DEF FieldsInit, FieldsTyped, FieldStates, EditorStates
<1>2. \A e \in Editors : Knows(e) /\ PlacesHold(e)
  BY DEF FieldsInit, Knows, PlacesHold, Sole, Is, Ordering
<1>3. StandingHolds
  BY EmptySeq, LenProperties DEF FieldsInit, StandingHolds
<1>4. Placed
  BY FieldsAssumption DEF FieldsInit, Placed
<1> QED BY <1>1, <1>2, <1>3, <1>4 DEF FieldsInv

\* A reorder takes effect as a whole: a refused one leaves no field where it
\* put it, and after an accepted one that met no other the live fields stand in
\* its order until another request moves one of them (custom_fields.py:115-158).
THEOREM ReordersAreWhole == Spec => []ReorderWhole
<1>1. Init => FieldsInv
  BY FieldsStart DEF Init
<1>2. FieldsInv /\ [Next]_vars => FieldsInv'
  BY EditsKeep DEF Next, vars
<1> QED BY <1>1, <1>2, Whole, PTL DEF Spec

-----------------------------------------------------------------------------
(* Records: rows and the requests that change them *)

RowsTyped ==
    /\ row \in [Ids -> Rows \cup {None, Gone}]
    /\ serial \in Nat
    /\ now \in Nat
    /\ DOMAIN job = Jobs

Loaded(j) == At(j, "checking") \/ At(j, "writing")

\* What a request has read of a row, and the emails that it has looked for.
\* The row keeps its kind and its company while it stands.
JobHolds(j) ==
    /\ At(j, "inserting") =>
        /\ job[j].company \in Companies
        /\ job[j].emails \in Seq(Emails \cup {None})
        /\ BatchDistinct(job[j].emails)
        /\ \A i \in DOMAIN job[j].emails :
            job[j].emails[i] # None => job[j].emails[i] \in job[j].claims
    /\ Loaded(j) =>
        /\ DOMAIN job[j] = {"pc", "op", "company", "row", "loaded", "edit", "claims"}
        /\ job[j].row \in Ids /\ row[job[j].row] # None
        /\ job[j].loaded \in Rows /\ job[j].loaded.company = job[j].company
        /\ Sendable(job[j].edit)
        /\ Stands(job[j].row) =>
            /\ row[job[j].row].kind = job[j].loaded.kind
            /\ row[job[j].row].company = job[j].company
    /\ At(j, "checking") =>
        /\ job[j].loaded.kind = "contact" /\ "email" \in DOMAIN job[j].edit
        /\ job[j].edit.email \in Emails
    /\ At(j, "writing") /\ job[j].loaded.kind = "contact"
           /\ "email" \in DOMAIN job[j].edit
           /\ job[j].edit.email \notin {None, job[j].loaded.email} =>
        job[j].edit.email \in job[j].claims

Claims(j, c, e) == e \in Claimed(j) /\ job[j].company = c

\* An email that only one request at a time has looked for has one contact at
\* most, and none while a request that has looked for it may still write.
OneOf(c, e) ==
    <<c, e>> \notin raced =>
        /\ \A x, y \in WithEmail(c, e) : x = y
        /\ \A j \in Jobs : Claims(j, c, e) => WithEmail(c, e) = {}
        /\ \A i, j \in Jobs : Claims(i, c, e) /\ Claims(j, c, e) => i = j

RecordsInv ==
    /\ RowsTyped
    /\ \A j \in Jobs : JobHolds(j)
    /\ \A c \in Companies, e \in Emails : OneOf(c, e)

LEMMA Unique == RecordsInv => EmailsUnique
<1> SUFFICES ASSUME RecordsInv, NEW c \in Companies, NEW e \in Emails, <<c, e>> \notin raced
             PROVE  Cardinality(WithEmail(c, e)) <= 1
  BY DEF EmailsUnique
<1>1. \A x, y \in WithEmail(c, e) : x = y
  BY DEF RecordsInv, OneOf
<1>2. CASE WithEmail(c, e) = {}
  BY <1>2, FS_EmptySet
<1>3. CASE WithEmail(c, e) # {}
  <2>1. PICK x \in WithEmail(c, e) : TRUE
    BY <1>3
  <2>2. WithEmail(c, e) \subseteq {x} /\ {x} \subseteq WithEmail(c, e)
    BY <1>1, <2>1
  <2>3. WithEmail(c, e) = {x}
    BY <2>2, Zenon
  <2>4. Cardinality({x}) = 1
    BY FS_Singleton
  <2>5. Cardinality(WithEmail(c, e)) = 1
    BY <2>3, <2>4, Zenon
  <2> QED BY <2>5
<1> QED BY <1>2, <1>3

\* The columns of a row after an update.
IsAmended(a, r, old, edit) ==
    /\ a \in Rows
    /\ a.kind = r.kind /\ a.company = r.company /\ a.live = r.live /\ a.born = r.born
    /\ a.email = IF "email" \in DOMAIN edit /\ edit.email # old.email
                 THEN edit.email ELSE r.email

LEMMA AmendedRow ==
  ASSUME NEW r \in Rows, NEW old \in Rows, NEW edit, Sendable(edit)
  PROVE  IsAmended(Amended(r, old, edit), r, old, edit)
<1> DEFINE a == Amended(r, old, edit)
<1>1. DOMAIN r = {"kind", "company", "owner", "email", "place", "done", "born", "live"}
  BY DEF Rows
<1>2. a = [f \in {"kind", "company", "owner", "email", "place", "done", "born", "live"} |->
             IF f \in DOMAIN edit /\ edit[f] # old[f] THEN edit[f] ELSE r[f]]
  BY <1>1 DEF Amended
<1> HIDE DEF a
<1>3. /\ a.kind = r.kind /\ a.company = r.company /\ a.live = r.live /\ a.born = r.born
      /\ a.email = IF "email" \in DOMAIN edit /\ edit.email # old.email THEN edit.email ELSE r.email
      /\ a.owner = IF "owner" \in DOMAIN edit /\ edit.owner # old.owner THEN edit.owner ELSE r.owner
      /\ a.place = IF "place" \in DOMAIN edit /\ edit.place # old.place THEN edit.place ELSE r.place
      /\ a.done = IF "done" \in DOMAIN edit /\ edit.done # old.done THEN edit.done ELSE r.done
  BY <1>2 DEF Sendable, Columns
<1>4. a = [kind |-> a.kind, company |-> a.company, owner |-> a.owner, email |-> a.email,
           place |-> a.place, done |-> a.done, born |-> a.born, live |-> a.live]
  BY <1>2
<1>5. /\ a.kind \in Kinds /\ a.company \in Companies /\ a.live \in BOOLEAN /\ a.born \in Nat
      /\ a.email \in Emails \cup {None} /\ a.owner \in Users \cup {None}
      /\ a.place \in Nat /\ a.done \in BOOLEAN
  BY <1>3 DEF Rows, Sendable
<1>6. a \in Rows
  BY <1>4, <1>5 DEF Rows
<1>7. IsAmended(a, r, old, edit)
  BY <1>3, <1>6 DEF IsAmended
<1> QED BY <1>7 DEF a

\* A row that is there stays, with its kind and its company, or is gone for good.
Forward ==
    \A x \in Ids : row[x] # None =>
        /\ row'[x] # None
        /\ row'[x] \in Rows =>
            /\ row[x] \in Rows
            /\ row'[x].kind = row[x].kind /\ row'[x].company = row[x].company

LEMMA JobsHold ==
  ASSUME \A i \in Jobs : JobHolds(i), Forward,
         \A i \in Jobs : job'[i] = job[i] \/ JobHolds(i)'
  PROVE  \A i \in Jobs : JobHolds(i)'
<1> SUFFICES ASSUME NEW i \in Jobs, job'[i] = job[i]
             PROVE  JobHolds(i)'
  OBVIOUS
<1>1. job'[i] = job[i] /\ JobHolds(i)
  OBVIOUS
<1>2. CASE Loaded(i)
  <2>1. PICK x \in Ids : x = job[i].row /\ row[x] # None
    BY <1>1, <1>2 DEF JobHolds
  <2>2. row'[x] # None /\ (Stands(x)' => Stands(x) /\ row'[x].kind = row[x].kind
                                          /\ row'[x].company = row[x].company)
    BY <2>1 DEF Forward, Stands
  <2> QED BY <1>1, <1>2, <2>1, <2>2 DEF JobHolds, Loaded, At, Stands
<1>3. CASE ~Loaded(i)
  BY <1>1, <1>3 DEF JobHolds, Loaded, At
<1> QED BY <1>2, <1>3

\* A step of j that may write the emails it has claimed, and then claims none,
\* or that only reads and claims no more.
LEMMA EmailsWritten ==
  ASSUME NEW j, NEW c \in Companies, NEW e \in Emails,
         OneOf(c, e), UNCHANGED raced,
         \A i \in Jobs : i # j => job'[i] = job[i],
         \/ WithEmail(c, e)' \subseteq WithEmail(c, e)
            /\ (Claims(j, c, e)' => Claims(j, c, e))
         \/ /\ j \in Jobs /\ Claims(j, c, e) /\ ~Claims(j, c, e)'
            /\ \A x, y \in WithEmail(c, e)' : x \notin WithEmail(c, e) /\ y \notin WithEmail(c, e) => x = y
  PROVE  OneOf(c, e)'
<1>1. \A i \in Jobs : i # j => (Claims(i, c, e)' <=> Claims(i, c, e))
  BY DEF Claims, Claimed
<1>2. SUFFICES ASSUME <<c, e>> \notin raced
               PROVE  /\ \A x, y \in WithEmail(c, e)' : x = y
                      /\ \A i \in Jobs : Claims(i, c, e)' => WithEmail(c, e)' = {}
                      /\ \A i, k \in Jobs : Claims(i, c, e)' /\ Claims(k, c, e)' => i = k
  BY DEF OneOf
<1>3. /\ \A x, y \in WithEmail(c, e) : x = y
      /\ \A i \in Jobs : Claims(i, c, e) => WithEmail(c, e) = {}
      /\ \A i, k \in Jobs : Claims(i, c, e) /\ Claims(k, c, e) => i = k
  BY <1>2 DEF OneOf
<1>4. CASE WithEmail(c, e)' \subseteq WithEmail(c, e) /\ (Claims(j, c, e)' => Claims(j, c, e))
  <2>1. \A i \in Jobs : Claims(i, c, e)' => Claims(i, c, e)
    BY <1>1, <1>4
  <2> QED BY <2>1, <1>3, <1>4
<1>5. CASE /\ j \in Jobs /\ Claims(j, c, e) /\ ~Claims(j, c, e)'
           /\ \A x, y \in WithEmail(c, e)' :
                x \notin WithEmail(c, e) /\ y \notin WithEmail(c, e) => x = y
  <2>1. \A i \in Jobs : ~Claims(i, c, e)'
    BY <1>1, <1>3, <1>5
  <2>2. WithEmail(c, e) = {}
    BY <1>3, <1>5
  <2> QED BY <2>1, <2>2, <1>5
<1> QED BY <1>4, <1>5

\* A look of j for the emails es, which nobody has.
LEMMA EmailsLooked ==
  ASSUME NEW j \in Jobs, NEW c \in Companies, NEW e \in Emails, NEW d, NEW es,
         OneOf(c, e), Claim(j, d, es), UNCHANGED row,
         \A i \in Jobs : i # j => job'[i] = job[i],
         Claims(j, c, e)' => c = d /\ e \in es,
         \A x \in es : WithEmail(d, x) = {}
  PROVE  OneOf(c, e)'
<1>1. \A i \in Jobs : i # j => (Claims(i, c, e)' <=> Claims(i, c, e))
  BY DEF Claims, Claimed
<1>2. WithEmail(c, e)' = WithEmail(c, e)
  BY DEF WithEmail, LiveRows, Live, Stands
<1>3. raced \subseteq raced'
  BY DEF Claim
<1>4. Claims(j, c, e)' => WithEmail(c, e) = {}
  OBVIOUS
<1>5. ASSUME NEW i \in Jobs \ {j}, Claims(i, c, e), Claims(j, c, e)'
      PROVE  <<c, e>> \in raced'
  BY <1>5 DEF Claim, Claims
<1> QED BY <1>1, <1>2, <1>3, <1>4, <1>5 DEF OneOf

-----------------------------------------------------------------------------
(* Records: the steps *)

LEMMA StillForward ==
  ASSUME UNCHANGED row
  PROVE  Forward
BY DEF Forward

\* Any step of j in which no row changes and nothing is claimed.
LEMMA NothingClaimed ==
  ASSUME RecordsInv, NEW j \in Jobs, UNCHANGED <<row, serial, now, raced>>,
         NEW r, job' = [job EXCEPT ![j] = r],
         \A c \in Companies, e \in Emails : ~Claims(j, c, e)',
         JobHolds(j)'
  PROVE  RecordsInv'
<1>1. RowsTyped' /\ \A i \in Jobs : i # j => job'[i] = job[i]
  BY DEF RecordsInv, RowsTyped
<1>2. \A i \in Jobs : JobHolds(i)'
  BY <1>1, StillForward, JobsHold DEF RecordsInv
<1>3. ASSUME NEW c \in Companies, NEW e \in Emails
      PROVE  OneOf(c, e)'
  <2>1. WithEmail(c, e)' \subseteq WithEmail(c, e)
    BY DEF WithEmail, LiveRows, Live, Stands
  <2>2. OneOf(c, e)
    BY DEF RecordsInv
  <2> QED BY <1>1, <2>1, <2>2, EmailsWritten
<1> QED BY <1>1, <1>2, <1>3 DEF RecordsInv

LEMMA AnswerKeeps ==
  ASSUME RecordsInv, NEW j \in Jobs, UNCHANGED <<row, serial, now, raced>>, Answer(j)
  PROVE  RecordsInv'
<1>1. job'[j] = [pc |-> "answered"]
  BY DEF Answer, RecordsInv, RowsTyped
<1>2. JobHolds(j)' /\ \A c \in Companies, e \in Emails : ~Claims(j, c, e)'
  BY <1>1 DEF JobHolds, Claims, Claimed, Loaded, At
<1> QED BY <1>2, NothingClaimed DEF Answer

\* Any step of j that claims the emails es for the company d.
LEMMA LookKeeps ==
  ASSUME RecordsInv, NEW j \in Jobs, UNCHANGED <<row, serial, now>>,
         NEW r, job' = [job EXCEPT ![j] = r],
         NEW d, NEW es, Claim(j, d, es),
         r.company = d, r.claims = es,
         \A x \in es : WithEmail(d, x) = {},
         JobHolds(j)'
  PROVE  RecordsInv'
<1>1. RowsTyped' /\ (\A i \in Jobs : i # j => job'[i] = job[i]) /\ job'[j] = r
  BY DEF RecordsInv, RowsTyped
<1>2. \A i \in Jobs : JobHolds(i)'
  BY <1>1, StillForward, JobsHold DEF RecordsInv
<1>3. ASSUME NEW c \in Companies, NEW e \in Emails
      PROVE  OneOf(c, e)'
  <2>1. OneOf(c, e)
    BY DEF RecordsInv
  <2>2. Claims(j, c, e)' => c = d /\ e \in es
    BY <1>1 DEF Claims, Claimed
  <2> QED BY <1>1, <2>1, <2>2, EmailsLooked
<1> QED BY <1>1, <1>2, <1>3 DEF RecordsInv

LEMMA CheckEmailKeeps ==
  ASSUME RecordsInv, NEW j \in Jobs, NEW c \in Companies, NEW e \in Emails \cup {None},
         CheckEmail(j, c, e)
  PROVE  RecordsInv'
<1>1. CASE e # None /\ WithEmail(c, e) # {}
  BY <1>1, AnswerKeeps DEF CheckEmail
<1>2. CASE ~(e # None /\ WithEmail(c, e) # {})
  <2> DEFINE r == [pc |-> "inserting", company |-> c, claims |-> {e} \ {None}, emails |-> <<e>>]
  <2>1. job' = [job EXCEPT ![j] = r] /\ Claim(j, c, {e} \ {None}) /\ UNCHANGED <<row, serial, now>>
    BY <1>2 DEF CheckEmail
  <2>2. job'[j] = r
    BY <2>1 DEF RecordsInv, RowsTyped
  <2>3. <<e>> \in Seq(Emails \cup {None}) /\ Len(<<e>>) = 1 /\ <<e>>[1] = e /\ DOMAIN <<e>> = {1}
    OBVIOUS
  <2>4. BatchDistinct(<<e>>)
    BY <2>3 DEF BatchDistinct
  <2>5. JobHolds(j)'
    BY <2>2, <2>3, <2>4 DEF JobHolds, Loaded, At
  <2>6. \A x \in {e} \ {None} : WithEmail(c, x) = {}
    BY <1>2
  <2>7. r.company = c /\ r.claims = {e} \ {None}
    OBVIOUS
  <2> HIDE DEF r
  <2> QED BY <2>1, <2>5, <2>6, <2>7, LookKeeps
<1> QED BY <1>1, <1>2

LEMMA CheckBatchKeeps ==
  ASSUME RecordsInv, NEW j \in Jobs, NEW c \in Companies, NEW b \in Batches,
         CheckBatch(j, c, b)
  PROVE  RecordsInv'
<1> DEFINE es == Range(b) \ {None}
<1>1. CASE Answer(j) /\ UNCHANGED raced
  BY <1>1, AnswerKeeps DEF CheckBatch
<1>2. CASE ~(Answer(j) /\ UNCHANGED raced)
  <2> DEFINE r == [pc |-> "inserting", company |-> c, claims |-> es, emails |-> b]
  <2>1. /\ BatchDistinct(b) /\ \A e \in es : WithEmail(c, e) = {}
        /\ job' = [job EXCEPT ![j] = r] /\ Claim(j, c, es) /\ UNCHANGED <<row, serial, now>>
    BY <1>2 DEF CheckBatch
  <2>2. job'[j] = r
    BY <2>1 DEF RecordsInv, RowsTyped
  <2>3. \A i \in DOMAIN b : b[i] # None => b[i] \in es
    BY DEF Range
  <2> HIDE DEF es
  <2>4. b \in Seq(Emails \cup {None})
    BY RecordsAssumption
  <2>5. JobHolds(j)'
    BY <2>1, <2>2, <2>3, <2>4 DEF JobHolds, Loaded, At
  <2>6. r.company = c /\ r.claims = es
    OBVIOUS
  <2> HIDE DEF r
  <2> QED BY <2>1, <2>5, <2>6, LookKeeps
<1> QED BY <1>1, <1>2

LEMMA CheckPhoneKeeps ==
  ASSUME RecordsInv, NEW j \in Jobs, NEW c \in Companies, CheckPhone(j, c)
  PROVE  RecordsInv'
<1>1. CASE Answer(j)
  BY <1>1, AnswerKeeps DEF CheckPhone
<1>2. CASE ~Answer(j)
  <2> DEFINE r == [pc |-> "inserting", company |-> c, claims |-> {}, emails |-> <<None>>]
  <2>1. job' = [job EXCEPT ![j] = r] /\ UNCHANGED <<row, serial, now, raced>>
    BY <1>2 DEF CheckPhone
  <2>2. job'[j] = r
    BY <2>1 DEF RecordsInv, RowsTyped
  <2>3. <<None>> \in Seq(Emails \cup {None}) /\ <<None>>[1] = None /\ DOMAIN <<None>> = {1}
    OBVIOUS
  <2>4. BatchDistinct(<<None>>)
    BY <2>3 DEF BatchDistinct
  <2>5. JobHolds(j)'
    BY <2>2, <2>3, <2>4 DEF JobHolds, Loaded, At
  <2>6. \A d \in Companies, e \in Emails : ~Claims(j, d, e)'
    BY <2>2 DEF Claims, Claimed
  <2> HIDE DEF r
  <2> QED BY <2>1, <2>5, <2>6, NothingClaimed
<1> QED BY <1>1, <1>2

LEMMA LoadKeeps ==
  ASSUME RecordsInv, NEW j \in Jobs, NEW c \in Companies, NEW u, NEW k, NEW op, NEW edit,
         Sendable(edit), Load(j, c, u, k, op, edit)
  PROVE  RecordsInv'
<1>1. CASE Answer(j)
  BY <1>1, AnswerKeeps DEF Load
<1>2. CASE ~Answer(j)
  <2> DEFINE r(x) == [pc |-> IF k = "contact" /\ "email" \in DOMAIN edit
                             /\ edit.email \notin {None, row[x].email}
                          THEN "checking" ELSE "writing",
                   op |-> op, company |-> c, row |-> x, loaded |-> row[x],
                   edit |-> edit, claims |-> {}]
  <2>1. PICK x \in LiveRows(k, c) : job' = [job EXCEPT ![j] = r(x)]
    BY <1>2 DEF Load
  <2>2. PICK s : s = r(x)
    OBVIOUS
  <2>3. x \in Ids /\ row[x] \in Rows /\ row[x].kind = k /\ row[x].company = c /\ row[x] # None
    BY <2>1, RecordsAssumption DEF LiveRows, Live, Stands
  <2>4. job' = [job EXCEPT ![j] = s] /\ job'[j] = s
    BY <2>1, <2>2 DEF RecordsInv, RowsTyped
  <2>5. UNCHANGED <<row, serial, now, raced>>
    BY DEF Load
  <2>6. \A d \in Companies, e \in Emails : ~Claims(j, d, e)'
    BY <2>2, <2>4 DEF Claims, Claimed
  <2>7. /\ DOMAIN s = {"pc", "op", "company", "row", "loaded", "edit", "claims"}
        /\ s.company = c /\ s.row = x /\ s.loaded = row[x] /\ s.edit = edit
        /\ s.pc = IF k = "contact" /\ "email" \in DOMAIN edit
                     /\ edit.email \notin {None, row[x].email}
                  THEN "checking" ELSE "writing"
    BY <2>2
  <2>8. s.pc = "checking" => edit.email \in Emails /\ k = "contact" /\ "email" \in DOMAIN edit
    BY <2>7 DEF Sendable
  <2> HIDE DEF r
  <2>9. JobHolds(j)'
    BY <2>3, <2>4, <2>5, <2>7, <2>8 DEF JobHolds, Loaded, At, Stands
  <2> QED BY <2>4, <2>5, <2>6, <2>9, NothingClaimed
<1> QED BY <1>1, <1>2

LEMMA CheckChangeKeeps ==
  ASSUME RecordsInv, NEW j \in Jobs, CheckChange(j)
  PROVE  RecordsInv'
<1>1. PICK c, e : c = job[j].company /\ e = job[j].edit.email
  OBVIOUS
<1>2. CASE WithEmail(c, e) # {}
  BY <1>1, <1>2, AnswerKeeps DEF CheckChange
<1>3. CASE WithEmail(c, e) = {}
  <2>8. PICK r : r = [job[j] EXCEPT !.pc = "writing", !.claims = {e}]
    OBVIOUS
  <2>1. /\ job' = [job EXCEPT ![j].pc = "writing", ![j].claims = {e}]
        /\ Claim(j, c, {e}) /\ UNCHANGED <<row, serial, now>>
    BY <1>1, <1>3 DEF CheckChange
  <2>2. job' = [job EXCEPT ![j] = r]
    BY <2>1, <2>8
  <2>3. job'[j] = r
    BY <2>2 DEF RecordsInv, RowsTyped
  <2>4. At(j, "checking") /\ Loaded(j) /\ JobHolds(j)
    BY DEF CheckChange, Loaded, RecordsInv
  <2>5. DOMAIN job[j] = {"pc", "op", "company", "row", "loaded", "edit", "claims"}
    BY <2>4 DEF JobHolds
  <2>6. /\ DOMAIN r = DOMAIN job[j] /\ r.pc = "writing" /\ r.claims = {e}
        /\ r.company = c /\ r.row = job[j].row /\ r.loaded = job[j].loaded
        /\ r.edit = job[j].edit
    BY <2>5, <2>8, <1>1
  <2>7. JobHolds(j)'
    <3>1. /\ job[j].row \in Ids /\ row[job[j].row] # None
          /\ job[j].loaded \in Rows /\ job[j].loaded.company = job[j].company
          /\ Sendable(job[j].edit)
          /\ Stands(job[j].row) =>
                /\ row[job[j].row].kind = job[j].loaded.kind
                /\ row[job[j].row].company = job[j].company
      BY <2>4 DEF JobHolds
    <3>2. PICK x : x = job[j].row /\ x = job'[j].row
      BY <2>3, <2>6
    <3>3. At(j, "writing")' /\ ~At(j, "checking")' /\ ~At(j, "inserting")'
      BY <2>3, <2>6 DEF At
    <3>4. Stands(x)' <=> Stands(x)
      BY <2>1 DEF Stands
    <3>5. job'[j].edit.email \in job'[j].claims
      BY <2>3, <2>6, <1>1
    <3>6. /\ job'[j].row \in Ids /\ row'[job'[j].row] # None
          /\ job'[j].loaded \in Rows /\ job'[j].loaded.company = job'[j].company
          /\ Sendable(job'[j].edit)
          /\ Stands(x)' =>
                /\ row'[x].kind = job'[j].loaded.kind
                /\ row'[x].company = job'[j].company
      BY <3>1, <3>2, <3>4, <2>1, <2>3, <2>6, <1>1
    <3>7. DOMAIN job'[j] = {"pc", "op", "company", "row", "loaded", "edit", "claims"}
      BY <2>3, <2>5, <2>6
    <3>8. Stands(job[j].row)' => Stands(x)'
      BY <3>2 DEF Stands
    <3>9. Stands(job[j].row)' =>
            /\ row'[job'[j].row].kind = job'[j].loaded.kind
            /\ row'[job'[j].row].company = job'[j].company
      BY <3>2, <3>6, <3>8
    <3> QED BY <3>3, <3>5, <3>6, <3>7, <3>9 DEF JobHolds
  <2>9. PICK es : es = {e}
    OBVIOUS
  <2>10. Claim(j, c, es) /\ r.claims = es /\ \A x \in es : WithEmail(c, x) = {}
    BY <2>1, <2>6, <2>9, <1>3
  <2>11. r.company = c /\ UNCHANGED <<row, serial, now>>
    BY <2>1, <2>6
  <2> QED BY <2>2, <2>7, <2>10, <2>11, LookKeeps
<1> QED BY <1>2, <1>3

\* Any step of j, or of nobody, that changes rows, after which j claims nothing.
LEMMA RowsKeep ==
  ASSUME RecordsInv, NEW j, UNCHANGED raced, Forward,
         row' \in [Ids -> Rows \cup {None, Gone}], serial' \in Nat, now' \in Nat,
         (j \in Jobs /\ Answer(j)) \/ UNCHANGED job,
         \A c \in Companies, e \in Emails :
            \/ WithEmail(c, e)' \subseteq WithEmail(c, e)
            \/ /\ j \in Jobs /\ Answer(j) /\ Claims(j, c, e)
               /\ \A x, y \in WithEmail(c, e)' :
                    x \notin WithEmail(c, e) /\ y \notin WithEmail(c, e) => x = y
  PROVE  RecordsInv'
<1>1. /\ DOMAIN job' = Jobs
      /\ \A i \in Jobs : i # j => job'[i] = job[i]
      /\ j \in Jobs => job'[j] = job[j] \/ job'[j].pc = "answered"
  BY DEF Answer, RecordsInv, RowsTyped
<1>2. \A i \in Jobs : job'[i] = job[i] \/ JobHolds(i)'
  BY <1>1 DEF JobHolds, Loaded, At
<1>3. \A i \in Jobs : JobHolds(i)'
  BY <1>2, JobsHold DEF RecordsInv
<1>4. ASSUME NEW c \in Companies, NEW e \in Emails
      PROVE  OneOf(c, e)'
  <2>1. OneOf(c, e)
    BY DEF RecordsInv
  <2>2. Claims(j, c, e)' => Claims(j, c, e) \/ j \notin Jobs
    BY <1>1 DEF Claims, Claimed
  <2>3. j \in Jobs /\ Answer(j) => ~Claims(j, c, e)'
    BY DEF Claims, Claimed, Answer, RecordsInv, RowsTyped
  <2>4. CASE j \in Jobs
    BY <2>4, <1>1, <2>1, <2>2, <2>3, EmailsWritten
  <2>5. CASE j \notin Jobs
    <3>1. UNCHANGED job
      BY <2>5
    <3>2. WithEmail(c, e)' \subseteq WithEmail(c, e)
      BY <2>5
    <3>3. \A i \in Jobs : Claims(i, c, e)' => Claims(i, c, e)
      BY <3>1 DEF Claims, Claimed
    <3> QED BY <2>1, <3>2, <3>3 DEF OneOf
  <2> QED BY <2>4, <2>5
<1> QED BY <1>1, <1>3, <1>4 DEF RecordsInv, RowsTyped

\* A row that is not a contact is made.
LEMMA InsertKeeps ==
  ASSUME RecordsInv, NEW j, (j \in Jobs /\ Answer(j)) \/ UNCHANGED job,
         NEW x \in Unused, NEW r \in Rows, r.kind # "contact", Insert(x, r)
  PROVE  RecordsInv'
<1>5. row' = [row EXCEPT ![x] = r] /\ serial' = serial + 1 /\ UNCHANGED <<now, raced>>
  BY DEF Insert, Become
<1>6. /\ x \in Ids /\ row[x] = None
      /\ row \in [Ids -> Rows \cup {None, Gone}] /\ serial \in Nat /\ now \in Nat
  BY DEF Unused, RecordsInv, RowsTyped
<1>1. /\ row' = [row EXCEPT ![x] = r] /\ x \in Ids /\ row[x] = None
      /\ row \in [Ids -> Rows \cup {None, Gone}]
      /\ serial' \in Nat /\ now' \in Nat /\ UNCHANGED raced
  BY <1>5, <1>6
<1>2. Forward
  BY <1>1 DEF Forward
<1>3. row' \in [Ids -> Rows \cup {None, Gone}]
  BY <1>1
<1>4. \A c \in Companies, e \in Emails : WithEmail(c, e)' \subseteq WithEmail(c, e)
  BY <1>1 DEF WithEmail, LiveRows, Live, Stands
<1> QED BY <1>1, <1>2, <1>3, <1>4, RowsKeep

LEMMA NewRow ==
  ASSUME RowsTyped, NEW k \in Kinds, NEW c \in Companies, NEW u \in Users \cup {None},
         NEW e \in Emails \cup {None}, NEW place \in Nat
  PROVE  /\ New(k, c, u, e, place) \in Rows
         /\ New(k, c, u, e, place).kind = k
         /\ New(k, c, u, e, place).company = c
         /\ New(k, c, u, e, place).email = e
BY DEF New, Rows, RowsTyped

LEMMA CreateTaskKeeps ==
  ASSUME RecordsInv, NEW j \in Jobs, NEW c \in Companies, NEW u \in Users, NEW due \in DueDates,
         CreateTask(j, c, u, due)
  PROVE  RecordsInv'
<1>1. PICK x \in Unused : Insert(x, New("task", c, u, None, due))
  BY DEF CreateTask
<1>2. PICK r : r = New("task", c, u, None, due)
  OBVIOUS
<1>3. due \in Nat
  BY RecordsAssumption
<1>4. r \in Rows /\ r.kind = "task"
  BY <1>2, <1>3, NewRow DEF RecordsInv, Kinds
<1>5. Insert(x, r) /\ Answer(j) /\ r.kind # "contact"
  BY <1>1, <1>2, <1>4 DEF CreateTask
<1> QED BY <1>4, <1>5, InsertKeeps

LEMMA CreateNoteKeeps ==
  ASSUME RecordsInv, NEW j \in Jobs, NEW c \in Companies, NEW u \in Users,
         CreateNote(j, c, u)
  PROVE  RecordsInv'
<1>1. PICK x \in Unused : Insert(x, New("note", c, u, None, serial))
  BY DEF CreateNote
<1>2. PICK r : r = New("note", c, u, None, serial)
  OBVIOUS
<1>3. "note" \in Kinds /\ serial \in Nat /\ RowsTyped
  BY DEF RecordsInv, Kinds, RowsTyped
<1>4. r \in Rows /\ r.kind = "note"
  BY <1>2, <1>3, NewRow
<1>5. Insert(x, r) /\ Answer(j) /\ r.kind # "contact"
  BY <1>1, <1>2, <1>4 DEF CreateNote
<1> QED BY <1>4, <1>5, InsertKeeps

LEMMA ArriveKeeps ==
  ASSUME RecordsInv, NEW k \in {"call", "lead", "deal"}, NEW c \in Companies,
         NEW u \in Users \cup {None}, Arrive(k, c, u)
  PROVE  RecordsInv'
<1>1. PICK x \in Unused : Insert(x, New(k, c, u, None, serial))
  BY DEF Arrive
<1>2. PICK r : r = New(k, c, u, None, serial)
  OBVIOUS
<1>3. k \in Kinds /\ k # "contact"
  BY DEF Kinds
<1>4. r \in Rows /\ r.kind = k
  BY <1>2, <1>3, NewRow DEF RecordsInv, RowsTyped
<1>5. Insert(x, r) /\ UNCHANGED job /\ r.kind # "contact"
  BY <1>1, <1>2, <1>3, <1>4 DEF Arrive
<1> QED BY <1>4, <1>5, InsertKeeps

\* What an update or a deletion leaves of the row.
LEMMA PutKeeps ==
  ASSUME RecordsInv, NEW j \in Jobs, At(j, "writing"), Answer(j), UNCHANGED <<serial, now, raced>>,
         NEW x \in Ids, x = job[j].row,
         NEW r, Stands(x) => r = Gone \/
                   /\ r \in Rows
                   /\ r.kind = row[x].kind /\ r.company = row[x].company
                   /\ r.live => row[x].live
                   /\ r.live /\ r.kind = "contact" =>
                        \/ r.email = row[x].email \/ r.email = None
                        \/ r.email \in job[j].claims /\ job[j].company = r.company,
         row' = IF Stands(x) THEN [row EXCEPT ![x] = r] ELSE row
  PROVE  RecordsInv'
<1>1. row \in [Ids -> Rows \cup {None, Gone}]
  BY DEF RecordsInv, RowsTyped
<1>2. None # Gone /\ None \notin Rows /\ Gone \notin Rows /\ None \notin Emails
  BY RecordsAssumption
<1>3. row' \in [Ids -> Rows \cup {None, Gone}]
  BY <1>1
<1>4. Forward
  BY <1>1, <1>2 DEF Forward, Stands
<1>5. ASSUME NEW c \in Companies, NEW e \in Emails
      PROVE  \/ WithEmail(c, e)' \subseteq WithEmail(c, e)
             \/ /\ j \in Jobs /\ Answer(j) /\ Claims(j, c, e)
                /\ \A y, z \in WithEmail(c, e)' :
                     y \notin WithEmail(c, e) /\ z \notin WithEmail(c, e) => y = z
  <2>1. \A y \in Ids : y # x => (y \in WithEmail(c, e)' <=> y \in WithEmail(c, e))
    BY <1>1 DEF WithEmail, LiveRows, Live, Stands
  <2>2. WithEmail(c, e) \subseteq Ids /\ WithEmail(c, e)' \subseteq Ids
    BY DEF WithEmail, LiveRows
  <2>3. x \in WithEmail(c, e)' /\ x \notin WithEmail(c, e) => Claims(j, c, e)
    <3>1. SUFFICES ASSUME x \in WithEmail(c, e)', x \notin WithEmail(c, e)
                   PROVE  Claims(j, c, e)
      OBVIOUS
    <3>2. row'[x] \in Rows /\ row'[x].live /\ row'[x].kind = "contact" /\ row'[x].company = c
          /\ row'[x].email = e
      BY <3>1 DEF WithEmail, LiveRows, Live, Stands
    <3>3. Stands(x)
      BY <3>1, <3>2 DEF WithEmail, LiveRows, Live, Stands
    <3>4. row'[x] = r
      BY <3>3, <1>1
    <3>5. r \in Rows /\ r.live /\ r.kind = "contact" /\ r.company = c /\ r.email = e
      BY <3>2, <3>4
    <3>6. r.email # row[x].email
      BY <3>5, <3>1, <3>3, <1>2 DEF WithEmail, LiveRows, Live
    <3> QED BY <3>3, <3>5, <3>6, <1>2 DEF Claims, Claimed, At
  <2> QED BY <2>1, <2>2, <2>3
<1>6. serial' \in Nat /\ now' \in Nat
  BY DEF RecordsInv, RowsTyped
<1> QED BY <1>3, <1>4, <1>5, <1>6, RowsKeep

\* What Put reads of its request.
LEMMA PutReads ==
  ASSUME RecordsInv, NEW j \in Jobs, At(j, "writing")
  PROVE  /\ JobHolds(j) /\ Loaded(j)
         /\ job[j].row \in Ids /\ job[j].loaded \in Rows /\ Sendable(job[j].edit)
         /\ Stands(job[j].row) => row[job[j].row] \in Rows
BY DEF RecordsInv, JobHolds, Loaded, Stands

LEMMA AmendKeeps ==
  ASSUME RecordsInv, NEW j \in Jobs, NEW op, NEW k, Put(j, op, k, AmendRow(j))
  PROVE  RecordsInv'
<1>1. At(j, "writing") /\ Answer(j) /\ UNCHANGED <<serial, now, raced>>
  BY DEF Put
<1>2. PICK x \in Ids : x = job[j].row
  BY <1>1, PutReads
<1>3. PICK old \in Rows : old = job[j].loaded
  BY <1>1, PutReads
<1>8. PICK edit : edit = job[j].edit /\ Sendable(edit)
  BY <1>1, PutReads
<1>4. PICK r : r = Amended(row[x], old, edit)
  OBVIOUS
<1>5. row' = IF Stands(x) THEN [row EXCEPT ![x] = r] ELSE row
  BY <1>2, <1>3, <1>8, <1>4 DEF Put, Become, AmendRow
<1>6. ASSUME Stands(x)
      PROVE  /\ r \in Rows
             /\ r.kind = row[x].kind /\ r.company = row[x].company /\ r.live = row[x].live
             /\ r.email = IF "email" \in DOMAIN edit /\ edit.email # old.email
                          THEN edit.email ELSE row[x].email
  <2>1. PICK was \in Rows : was = row[x]
    BY <1>6 DEF Stands
  <2>2. r = Amended(was, old, edit)
    BY <2>1, <1>4
  <2>3. /\ r \in Rows
        /\ r.kind = was.kind /\ r.company = was.company /\ r.live = was.live
        /\ r.email = IF "email" \in DOMAIN edit /\ edit.email # old.email
                     THEN edit.email ELSE was.email
    <3>1. IsAmended(Amended(was, old, edit), was, old, edit)
      <4>1. Sendable(edit)
        BY <1>8
      <4> QED BY <4>1, AmendedRow
    <3> QED BY <2>2, <3>1 DEF IsAmended
  <2> QED BY <2>1, <2>3
<1>7. ASSUME Stands(x), r.kind = "contact"
      PROVE  \/ r.email = row[x].email \/ r.email = None
             \/ r.email \in job[j].claims /\ job[j].company = r.company
  <2>1. row[x].kind = old.kind /\ row[x].company = job[j].company
    BY <1>1, <1>2, <1>3, <1>7, PutReads DEF JobHolds
  <2>2. "email" \in DOMAIN edit /\ edit.email \notin {None, old.email} => edit.email \in job[j].claims
    BY <1>1, <1>3, <1>8, <1>6, <1>7, <2>1, PutReads DEF JobHolds
  <2> QED BY <2>1, <2>2, <1>6, <1>7
<1> QED BY <1>1, <1>2, <1>5, <1>6, <1>7, PutKeeps

LEMMA DeleteSoftKeeps ==
  ASSUME RecordsInv, NEW j \in Jobs, NEW k,
         Put(j, "delete", k, [row[job[j].row] EXCEPT !.live = FALSE])
  PROVE  RecordsInv'
<1>1. At(j, "writing") /\ Answer(j) /\ UNCHANGED <<serial, now, raced>>
  BY DEF Put
<1>2. PICK x \in Ids : x = job[j].row
  BY <1>1, PutReads
<1>4. PICK r : r = [row[x] EXCEPT !.live = FALSE]
  OBVIOUS
<1>5. row' = IF Stands(x) THEN [row EXCEPT ![x] = r] ELSE row
  BY <1>2, <1>4 DEF Put, Become
<1>6. Stands(x) => /\ r \in Rows
                   /\ r.kind = row[x].kind /\ r.company = row[x].company /\ ~r.live
  BY <1>4 DEF Stands, Rows
<1> QED BY <1>1, <1>2, <1>5, <1>6, PutKeeps

LEMMA DeleteHardKeeps ==
  ASSUME RecordsInv, NEW j \in Jobs, NEW k, Put(j, "delete", k, Gone)
  PROVE  RecordsInv'
<1>1. At(j, "writing") /\ Answer(j) /\ UNCHANGED <<serial, now, raced>>
  BY DEF Put
<1>2. PICK x \in Ids : x = job[j].row
  BY <1>1, PutReads
<1>3. PICK r : r = Gone
  OBVIOUS
<1>4. row' = IF Stands(x) THEN [row EXCEPT ![x] = r] ELSE row
  BY <1>2, <1>3 DEF Put, Become
<1> QED BY <1>1, <1>2, <1>3, <1>4, PutKeeps

LEMMA UnusedFinite ==
  ASSUME RowsTyped
  PROVE  IsFiniteSet(Unused) /\ Cardinality(Unused) \in Nat
BY RecordsAssumption, FS_Subset, FS_CardinalityType DEF Unused

\* Each contact of a request becomes a row of its own.
LEMMA ContactsMade ==
  ASSUME RecordsInv, NEW j \in Jobs, InsertContacts(j)
  PROVE  /\ row' \in [Ids -> Rows \cup {None, Gone}]
         /\ \E es \in Seq(Emails \cup {None}), d \in Companies, s \in SetToSeqs(Unused) :
              /\ es = job[j].emails /\ d = job[j].company /\ BatchDistinct(es)
              /\ \A i \in DOMAIN es : es[i] # None => es[i] \in job[j].claims
              /\ \A x \in Ids :
                  \/ row'[x] = row[x]
                  \/ \E i \in DOMAIN es :
                        /\ s[i] = x /\ row[x] = None
                        /\ row'[x] \in Rows /\ row'[x].kind = "contact" /\ row'[x].live
                        /\ row'[x].company = d /\ row'[x].email = es[i] /\ row'[x].born = now
<1>1. At(j, "inserting")
  BY DEF InsertContacts
<1>2. PICK es \in Seq(Emails \cup {None}), d \in Companies :
        /\ es = job[j].emails /\ d = job[j].company /\ BatchDistinct(es)
        /\ \A i \in DOMAIN es : es[i] # None => es[i] \in job[j].claims
  BY <1>1 DEF RecordsInv, JobHolds
<1>15. PICK s \in SetToSeqs(Unused) :
        /\ Len(job[j].emails) <= Len(s)
        /\ row' = [x \in Ids |->
                IF \E i \in DOMAIN job[j].emails : s[i] = x
                THEN New("contact", job[j].company, None,
                         job[j].emails[CHOOSE i \in DOMAIN job[j].emails : s[i] = x], serial)
                ELSE row[x]]
  BY DEF InsertContacts, Become
<1>3. /\ Len(es) <= Len(s)
      /\ row' = [x \in Ids |-> row'[x]]
      /\ \A x \in Ids :
            row'[x] = IF \E i \in DOMAIN es : s[i] = x
                      THEN New("contact", d, None,
                               es[CHOOSE i \in DOMAIN job[j].emails : s[i] = x], serial)
                      ELSE row[x]
  BY <1>2, <1>15
<1>4. PICK n \in Nat : n = Cardinality(Unused)
  BY UnusedFinite DEF RecordsInv
<1>5. s \in [1 .. n -> Unused] /\ \A i, k \in 1 .. n : i # k => s[i] # s[k]
  BY <1>4 DEF SetToSeqs
<1>6. Len(s) = n
  BY <1>5
<1>7. \A i \in DOMAIN es : i \in 1 .. n
  BY <1>3, <1>6, LenProperties
<1>8. /\ row \in [Ids -> Rows \cup {None, Gone}] /\ serial \in Nat /\ now \in Nat
      /\ None \notin Rows /\ None \notin Emails
  BY RecordsAssumption DEF RecordsInv, RowsTyped
<1>9. ASSUME NEW x \in Ids, \E i \in DOMAIN es : s[i] = x
      PROVE  \E i \in DOMAIN es :
                /\ s[i] = x /\ row[x] = None
                /\ row'[x] \in Rows /\ row'[x].kind = "contact" /\ row'[x].live
                /\ row'[x].company = d /\ row'[x].email = es[i] /\ row'[x].born = now
  <2>1. PICK i : i = CHOOSE k \in DOMAIN job[j].emails : s[k] = x
    OBVIOUS
  <2>2. i \in DOMAIN es /\ s[i] = x
    BY <1>2, <1>9, <2>1
  <2>3. row[x] = None
    BY <2>2, <1>5, <1>7 DEF Unused
  <2>4. row'[x] = New("contact", d, None, es[i], serial)
    BY <1>3, <1>9, <2>1
  <2>5. es[i] \in Emails \cup {None} /\ "contact" \in Kinds /\ None \in Users \cup {None} /\ RowsTyped
    BY <2>2, LenProperties, ElementOfSeq DEF Kinds, RecordsInv
  <2>6. row'[x] \in Rows /\ row'[x].kind = "contact" /\ row'[x].company = d /\ row'[x].email = es[i]
    BY <2>4, <2>5, <1>8, NewRow
  <2>7. row'[x].live /\ row'[x].born = now
    BY <2>4 DEF New
  <2> QED BY <2>2, <2>3, <2>6, <2>7
<1>10. ASSUME NEW x \in Ids, ~\E i \in DOMAIN es : s[i] = x
       PROVE  row'[x] = row[x]
  BY <1>3, <1>10
<1>11. row' \in [Ids -> Rows \cup {None, Gone}]
  <2>1. \A x \in Ids : row'[x] \in Rows \cup {None, Gone}
    BY <1>8, <1>9, <1>10
  <2> QED BY <2>1, <1>3
<1> QED BY <1>2, <1>9, <1>10, <1>11

LEMMA InsertContactsKeeps ==
  ASSUME RecordsInv, NEW j \in Jobs, InsertContacts(j)
  PROVE  RecordsInv'
<1>1. At(j, "inserting") /\ Answer(j) /\ UNCHANGED <<now, raced>> /\ serial' = serial + 1
  BY DEF InsertContacts
<1>11. row' \in [Ids -> Rows \cup {None, Gone}]
  BY ContactsMade
<1>2. PICK es \in Seq(Emails \cup {None}), d \in Companies, s \in SetToSeqs(Unused) :
              /\ es = job[j].emails /\ d = job[j].company /\ BatchDistinct(es)
              /\ \A i \in DOMAIN es : es[i] # None => es[i] \in job[j].claims
              /\ \A x \in Ids :
                  \/ row'[x] = row[x]
                  \/ \E i \in DOMAIN es :
                        /\ s[i] = x /\ row[x] = None
                        /\ row'[x] \in Rows /\ row'[x].kind = "contact" /\ row'[x].live
                        /\ row'[x].company = d /\ row'[x].email = es[i] /\ row'[x].born = now
  BY ContactsMade
<1>8. /\ serial \in Nat /\ now \in Nat
      /\ None \notin Rows /\ None \notin Emails
  BY RecordsAssumption DEF RecordsInv, RowsTyped
<1>12. Forward
  BY <1>2 DEF Forward
<1>13. ASSUME NEW c \in Companies, NEW e \in Emails
       PROVE  \/ WithEmail(c, e)' \subseteq WithEmail(c, e)
              \/ /\ j \in Jobs /\ Answer(j) /\ Claims(j, c, e)
                 /\ \A x, y \in WithEmail(c, e)' :
                      x \notin WithEmail(c, e) /\ y \notin WithEmail(c, e) => x = y
  <2>1. ASSUME NEW x \in WithEmail(c, e)', x \notin WithEmail(c, e)
        PROVE  c = d /\ \E i \in DOMAIN es : s[i] = x /\ es[i] = e
    <3>1. x \in Ids /\ row'[x] \in Rows /\ row'[x].live /\ row'[x].kind = "contact"
          /\ row'[x].company = c /\ row'[x].email = e
      BY DEF WithEmail, LiveRows, Live, Stands
    <3>2. row'[x] # row[x]
      BY <3>1, <2>1 DEF WithEmail, LiveRows, Live, Stands
    <3> QED BY <3>1, <3>2, <1>2
  <2>2. CASE WithEmail(c, e)' \subseteq WithEmail(c, e)
    BY <2>2
  <2>3. CASE ~(WithEmail(c, e)' \subseteq WithEmail(c, e))
    <3>1. c = d /\ \E i \in DOMAIN es : es[i] = e
      BY <2>1, <2>3
    <3>2. Claims(j, c, e)
      BY <3>1, <1>1, <1>2, <1>8 DEF Claims, Claimed, At
    <3>3. ASSUME NEW x \in WithEmail(c, e)', NEW y \in WithEmail(c, e)',
                 x \notin WithEmail(c, e), y \notin WithEmail(c, e)
          PROVE  x = y
      <4>1. PICK i \in DOMAIN es : s[i] = x /\ es[i] = e
        BY <2>1, <3>3
      <4>2. PICK k \in DOMAIN es : s[k] = y /\ es[k] = e
        BY <2>1, <3>3
      <4>3. i = k
        BY <4>1, <4>2, <1>2, <1>8 DEF BatchDistinct
      <4> QED BY <4>1, <4>2, <4>3
    <3> QED BY <3>2, <3>3, <1>1
  <2> QED BY <2>2, <2>3
<1>14. serial' \in Nat /\ now' \in Nat
  BY <1>1, <1>8
<1> QED BY <1>1, <1>11, <1>12, <1>13, <1>14, RowsKeep

\* What requests send is what they may send.
LEMMA SentEdits ==
  /\ \A e \in Edits["contact"] : Sendable(e)
  /\ \A e \in Edits["task"] : Sendable(e)
  /\ Sendable([done |-> TRUE])
  /\ \A u \in Users : Sendable([owner |-> u])
  /\ Sendable(<<>>)
<1>1. DOMAIN <<>> = {}
  BY EmptySeq, LenProperties
<1>2. Sendable(<<>>)
  BY <1>1 DEF Sendable
<1>3. Sendable([done |-> TRUE])
  BY DEF Sendable, Columns
<1>4. \A u \in Users : Sendable([owner |-> u])
  BY DEF Sendable, Columns
<1> QED BY <1>2, <1>3, <1>4, RecordsAssumption

LEMMA RequestsKeep ==
  ASSUME RecordsInv, NEW j \in Jobs, NEW c \in Companies, Requests(j, c)
  PROVE  RecordsInv'
<1>1. CASE CreateContacts(j, c)
  BY <1>1, CheckEmailKeeps, CheckBatchKeeps, CheckPhoneKeeps, InsertContactsKeeps
     DEF CreateContacts
<1>2. CASE UpdateContact(j, c)
  <2>1. CASE \E u \in Users, e \in Edits["contact"] : Load(j, c, u, "contact", "update", e)
    BY <2>1, SentEdits, LoadKeeps
  <2>2. CASE CheckChange(j)
    BY <2>2, CheckChangeKeeps
  <2>3. CASE Put(j, "update", "contact", AmendRow(j))
    BY <2>3, AmendKeeps
  <2> QED BY <2>1, <2>2, <2>3, <1>2 DEF UpdateContact
<1>3. CASE UpdateTask(j, c)
  <2>1. CASE \E u \in Users, e \in Edits["task"] : Load(j, c, u, "task", "update", e)
    BY <2>1, SentEdits, LoadKeeps
  <2>2. CASE Put(j, "update", "task", AmendRow(j))
    BY <2>2, AmendKeeps
  <2> QED BY <2>1, <2>2, <1>3 DEF UpdateTask
<1>4. CASE CompleteTask(j, c)
  <2>1. CASE \E u \in Users : Load(j, c, u, "task", "complete", [done |-> TRUE])
    BY <2>1, SentEdits, LoadKeeps
  <2>2. CASE Put(j, "complete", "task", AmendRow(j))
    BY <2>2, AmendKeeps
  <2> QED BY <2>1, <2>2, <1>4 DEF CompleteTask
<1>5. CASE UpdateNote(j, c)
  <2>1. CASE \E u \in Users : Load(j, c, u, "note", "update", <<>>)
    BY <2>1, SentEdits, LoadKeeps
  <2>2. CASE Put(j, "update", "note", AmendRow(j))
    BY <2>2, AmendKeeps
  <2> QED BY <2>1, <2>2, <1>5 DEF UpdateNote
<1>6. CASE AssignLead(j, c)
  <2>1. CASE \E u \in Users : Load(j, c, u, "lead", "assign", [owner |-> u])
    <3>1. PICK u \in Users : Load(j, c, u, "lead", "assign", [owner |-> u])
      BY <2>1
    <3>2. PICK edit : edit = [owner |-> u]
      OBVIOUS
    <3>3. Sendable(edit) /\ Load(j, c, u, "lead", "assign", edit)
      BY <3>1, <3>2, SentEdits
    <3> QED BY <3>3, LoadKeeps
  <2>2. CASE Put(j, "assign", "lead", AmendRow(j))
    BY <2>2, AmendKeeps
  <2> QED BY <2>1, <2>2, <1>6 DEF AssignLead
<1>7. ASSUME NEW k, Delete(j, c, k)
      PROVE  RecordsInv'
  <2>1. CASE \E u \in Users : Load(j, c, u, k, "delete", <<>>)
    BY <2>1, SentEdits, LoadKeeps
  <2>2. CASE Put(j, "delete", k, [row[job[j].row] EXCEPT !.live = FALSE])
    BY <2>2, DeleteSoftKeeps
  <2>3. CASE Put(j, "delete", k, Gone)
    BY <2>3, DeleteHardKeeps
  <2> QED BY <2>1, <2>2, <2>3, <1>7 DEF Delete
<1>8. CASE \E u \in Users, d \in DueDates : CreateTask(j, c, u, d)
  BY <1>8, CreateTaskKeeps
<1>9. CASE \E u \in Users : CreateNote(j, c, u)
  BY <1>9, CreateNoteKeeps
<1> QED BY <1>1, <1>2, <1>3, <1>4, <1>5, <1>6, <1>7, <1>8, <1>9
        DEF Requests, DeleteContact, DeleteTask, DeleteNote

\* Whatever leaves the rows and the requests alone.
LEMMA RecordsStand ==
  ASSUME RecordsInv, UNCHANGED <<row, serial, job, raced>>, now' \in Nat
  PROVE  RecordsInv'
<1>1. RowsTyped'
  BY DEF RecordsInv, RowsTyped
<1>2. \A j \in Jobs : JobHolds(j)'
  BY DEF RecordsInv, JobHolds, Loaded, At, Stands
<1>3. \A c \in Companies, e \in Emails : OneOf(c, e)'
  BY DEF RecordsInv, OneOf, Claims, Claimed, WithEmail, LiveRows, Live, Stands
<1> QED BY <1>1, <1>2, <1>3 DEF RecordsInv

LEMMA ReportsRead ==
  ASSUME NEW q \in Queries, Report(q)
  PROVE  UNCHANGED recordVars
<1>1. ASSUME NEW a, NEW s, Ask(q, a, s)
      PROVE  UNCHANGED recordVars
  BY <1>1 DEF Ask
<1>2. CountNext(q) \/ Store(q) \/ CacheFails(q) => UNCHANGED recordVars
  BY DEF CountNext, Store, CacheFails
<1>3. ClearCompany(q) \/ ClearOwner(q) => UNCHANGED recordVars
  BY DEF ClearCompany, ClearOwner
<1> QED BY <1>1, <1>2, <1>3 DEF Report, MyAnalytics, MyDashboard, TeamAnalytics, AdminDashboard,
                                PlatformAnalytics, OwnerDashboard

LEMMA ListsRead ==
  ASSUME NEW w \in Walks, ReadLists(w)
  PROVE  UNCHANGED <<row, serial, now, job, raced>>
BY DEF ReadLists, StartPages, CountRows, ReadPage, StartCursor, ReadBatch, Start

LEMMA RecordsKeep == RecordsInv /\ [Next]_vars => RecordsInv'
<1> SUFFICES ASSUME RecordsInv, [Next]_vars
             PROVE  RecordsInv'
  OBVIOUS
<1>1. CASE \E j \in Jobs, c \in Companies : Requests(j, c)
  BY <1>1, RequestsKeep
<1>2. CASE \E c \in Companies : Arrivals(c)
  BY <1>2, ArriveKeeps DEF Arrivals
<1>3. CASE \E w \in Walks : ReadLists(w)
  <2>1. UNCHANGED <<row, serial, now, job, raced>>
    BY <1>3, ListsRead
  <2>2. now' \in Nat
    BY <2>1 DEF RecordsInv, RowsTyped
  <2> QED BY <2>1, <2>2, RecordsStand
<1>4. CASE Tick
  <2>1. now \in Nat /\ now' = now + 1 /\ UNCHANGED <<row, serial, job, raced>>
    BY <1>4 DEF Tick, RecordsInv, RowsTyped
  <2>2. now' \in Nat
    BY <2>1
  <2> QED BY <2>1, <2>2, RecordsStand
<1>5. CASE UNCHANGED recordVars
  <2>1. UNCHANGED <<row, serial, now, job, raced>> /\ now' \in Nat
    BY <1>5 DEF recordVars, RecordsInv, RowsTyped
  <2> QED BY <2>1, RecordsStand
<1>6. ReportsNext => UNCHANGED recordVars
  BY ReportsRead DEF ReportsNext
<1>7. CASE UNCHANGED vars
  BY <1>5, <1>7 DEF vars
<1> QED BY <1>1, <1>2, <1>3, <1>4, <1>5, <1>6, <1>7 DEF Next, RecordsNext

LEMMA RecordsStart == RecordsInit => RecordsInv
<1> SUFFICES ASSUME RecordsInit
             PROVE  RecordsInv
  OBVIOUS
<1>1. RowsTyped
  BY DEF RecordsInit, RowsTyped
<1>2. \A j \in Jobs : JobHolds(j) /\ \A c, e : ~Claims(j, c, e)
  BY DEF RecordsInit, JobHolds, Loaded, At, Claims, Claimed
<1>3. \A c \in Companies, e \in Emails : WithEmail(c, e) = {}
  BY RecordsAssumption DEF RecordsInit, WithEmail, LiveRows, Live, Stands
<1> QED BY <1>1, <1>2, <1>3 DEF RecordsInv, OneOf

\* No two live contacts of a company have the same email, whichever of the
\* requests that create and change contacts made them, unless two requests
\* looked for that email before either wrote (contacts.py:49, 349, 510).
THEOREM EmailsAreUnique == Spec => []EmailsUnique
<1>1. Init => RecordsInv
  BY RecordsStart DEF Init
<1> QED BY <1>1, RecordsKeep, Unique, PTL DEF Spec

-----------------------------------------------------------------------------
(* Lists: what an arrangement of rows is *)

LEMMA Arranged ==
  ASSUME NEW S, IsFiniteSet(S), NEW s \in SetToSeqs(S)
  PROVE  /\ Cardinality(S) \in Nat /\ s \in Seq(S) /\ Len(s) = Cardinality(S)
         /\ \A i, k \in 1 .. Len(s) : s[i] = s[k] => i = k
         /\ \A x \in S : \E i \in 1 .. Len(s) : s[i] = x
<1>1. PICK n \in Nat : n = Cardinality(S)
  BY FS_CardinalityType
<1>2. s \in [1 .. n -> S] /\ \A i, k \in 1 .. n : i # k => s[i] # s[k]
  BY <1>1 DEF SetToSeqs
<1>3. s \in Seq(S) /\ Len(s) = n
  BY <1>2
<1>4. s \in Injection(1 .. n, S)
  BY <1>2 DEF Injection, IsInjective
<1>5. Cardinality(1 .. n) = n
  BY FS_Interval
<1>6. s \in Surjection(1 .. n, S)
  BY <1>1, <1>4, <1>5, FS_Injection
<1>7. \A x \in S : \E i \in 1 .. n : s[i] = x
  BY <1>6 DEF Surjection
<1> QED BY <1>1, <1>2, <1>3, <1>7

\* Calls are never deleted.
CallsLive == \A x \in Ids : Stands(x) /\ row[x].kind = "call" => row[x].live

LEMMA LiveRowsFinite ==
  ASSUME NEW k, NEW c
  PROVE  IsFiniteSet(LiveRows(k, c)) /\ LiveRows(k, c) \subseteq Ids
<1>1. LiveRows(k, c) \in SUBSET Ids
  BY DEF LiveRows
<1> QED BY <1>1, RecordsAssumption, FS_Subset

LEMMA CallsListed ==
  ASSUME CallsLive, NEW c
  PROVE  {x \in Ids : Stands(x) /\ row[x].kind = "call" /\ row[x].company = c}
            = LiveRows("call", c)
BY DEF CallsLive, LiveRows, Live

LEMMA ListedRows ==
  ASSUME CallsLive, NEW k \in Kinds, NEW c, NEW s \in Listed(k, c)
  PROVE  s \in SetToSeqs(LiveRows(k, c))
<1>1. CASE k = "contact"
  BY <1>1 DEF Listed, ListContacts, Arrangements
<1>2. CASE k = "task"
  BY <1>2 DEF Listed, ListTasks, Arrangements
<1>3. CASE k = "note"
  BY <1>3 DEF Listed, ListNotes, Arrangements
<1>4. CASE k = "lead"
  BY <1>4 DEF Listed, ListLeads, Arrangements
<1>5. CASE k = "deal"
  BY <1>5 DEF Listed, ListDeals, Arrangements
<1>6. CASE k = "call"
  BY <1>6, CallsListed DEF Listed, ListCalls, Arrangements
<1> QED BY <1>1, <1>2, <1>3, <1>4, <1>5, <1>6 DEF Kinds

\* The rows below a cursor, from the highest to the lowest.
LEMMA BelowRows ==
  ASSUME NEW S \in SUBSET Ids, NEW cursor, NEW s \in Below(S, cursor)
  PROVE  /\ s \in Seq(S)
         /\ \A i, k \in 1 .. Len(s) : i < k => s[k] < s[i]
         /\ \A i \in 1 .. Len(s) : cursor = None \/ s[i] < cursor
         /\ \A x \in S : cursor = None \/ x < cursor => \E i \in 1 .. Len(s) : s[i] = x
<1>1. PICK T : T = {x \in S : cursor = None \/ x < cursor}
  OBVIOUS
<1>2. T \in SUBSET Ids
  BY <1>1
<1>3. IsFiniteSet(T)
  BY <1>2, RecordsAssumption, FS_Subset
<1>4. s \in SetToSeqs(T) /\ \A i, k \in DOMAIN s : i < k => ~(s[k] > s[i])
  BY <1>1 DEF Below, Arrangements, Descending
<1>5. /\ s \in Seq(T) /\ \A i, k \in 1 .. Len(s) : s[i] = s[k] => i = k
      /\ \A x \in T : \E i \in 1 .. Len(s) : s[i] = x
  BY <1>3, <1>4, Arranged
<1>6. /\ DOMAIN s = 1 .. Len(s) /\ Len(s) \in Nat
      /\ \A i \in 1 .. Len(s) : s[i] \in T /\ s[i] \in Nat
  <2>1. DOMAIN s = 1 .. Len(s) /\ Len(s) \in Nat
    BY <1>5, LenProperties
  <2>2. \A i \in 1 .. Len(s) : s[i] \in T
    BY <1>5, ElementOfSeq
  <2> QED BY <2>1, <2>2, <1>2, RecordsAssumption
<1>7. ASSUME NEW i \in 1 .. Len(s), NEW k \in 1 .. Len(s), i < k
      PROVE  s[k] < s[i]
  <2>1. s[i] \in Nat /\ s[k] \in Nat /\ s[i] # s[k] /\ ~(s[k] > s[i])
    BY <1>4, <1>5, <1>6, <1>7
  <2> QED BY <2>1
<1>8. s \in Seq(S)
  BY <1>1, <1>5
<1> QED BY <1>1, <1>5, <1>6, <1>7, <1>8

LEMMA PublicRows ==
  ASSUME CallsLive, NEW k \in {"contact", "lead", "deal", "call"}, NEW c, NEW cursor,
         NEW s \in Public(k, c, cursor)
  PROVE  s \in Below(LiveRows(k, c), cursor)
<1>1. CASE k = "contact"
  BY <1>1 DEF Public, PublicContacts
<1>2. CASE k = "lead"
  BY <1>2 DEF Public, PublicLeads
<1>3. CASE k = "deal"
  BY <1>3 DEF Public, PublicDeals
<1>4. CASE k = "call"
  BY <1>4, CallsListed DEF Public, PublicCalls
<1> QED BY <1>1, <1>2, <1>3, <1>4

\* Where no row of a kind changes, its lists stay as they are.
LEMMA RowsStay ==
  ASSUME NEW k, NEW c, Forward, Untouched(k, row')
  PROVE  /\ LiveRows(k, c)' = LiveRows(k, c)
         /\ \A x \in LiveRows(k, c) : row'[x] = row[x]
<1>1. ASSUME NEW x \in Ids
      PROVE  /\ x \in LiveRows(k, c)' <=> x \in LiveRows(k, c)
             /\ x \in LiveRows(k, c) => row'[x] = row[x]
  <2>1. CASE row'[x] = row[x]
    BY <2>1 DEF LiveRows, Live, Stands
  <2>2. CASE Stands(x) /\ row[x].kind # k
    BY <2>2, RecordsAssumption DEF LiveRows, Live, Stands, Forward
  <2>3. CASE row'[x] \in Rows /\ row'[x].kind # k
    BY <2>3, RecordsAssumption DEF LiveRows, Live, Stands, Forward
  <2> QED BY <2>1, <2>2, <2>3 DEF Untouched
<1>2. LiveRows(k, c) \subseteq Ids /\ LiveRows(k, c)' \subseteq Ids
  BY DEF LiveRows
<1> QED BY <1>1, <1>2

LEMMA ListedStays ==
  ASSUME NEW k \in Kinds, NEW c, Forward, Untouched(k, row'), CallsLive, CallsLive'
  PROVE  Listed(k, c)' = Listed(k, c)
<1>1. PICK S : S = LiveRows(k, c) /\ S = LiveRows(k, c)' /\ \A x \in S : row'[x] = row[x]
  BY RowsStay
<1>2. \A s \in SetToSeqs(S) : \A i \in DOMAIN s : s[i] \in S
  BY DEF SetToSeqs
<1>3. {s \in SetToSeqs(S) : \A i, m \in DOMAIN s : i < m => ~(row'[s[m]].place > row'[s[i]].place)}
        = {s \in SetToSeqs(S) : \A i, m \in DOMAIN s : i < m => ~(row[s[m]].place > row[s[i]].place)}
  BY <1>1, <1>2
<1>4. {s \in SetToSeqs(S) : \A i, m \in DOMAIN s : i < m => ~(row'[s[m]].place < row'[s[i]].place)}
        = {s \in SetToSeqs(S) : \A i, m \in DOMAIN s : i < m => ~(row[s[m]].place < row[s[i]].place)}
  BY <1>1, <1>2
<1>5. CASE k = "contact"
  BY <1>1, <1>3, <1>5 DEF Listed, ListContacts, Arrangements, NewestFirst
<1>6. CASE k = "task"
  BY <1>1, <1>4, <1>6 DEF Listed, ListTasks, Arrangements, DueFirst
<1>7. CASE k = "note"
  BY <1>1, <1>3, <1>7 DEF Listed, ListNotes, Arrangements, NewestFirst
<1>8. CASE k = "lead"
  BY <1>1, <1>3, <1>8 DEF Listed, ListLeads, Arrangements, NewestFirst
<1>9. CASE k = "deal"
  BY <1>1, <1>3, <1>9 DEF Listed, ListDeals, Arrangements, NewestFirst
<1>10. CASE k = "call"
  <2>1. S = {x \in Ids : Stands(x) /\ row[x].kind = "call" /\ row[x].company = c}
    BY <1>1, <1>10, CallsListed
  <2>2. S = {x \in Ids : Stands(x)' /\ row'[x].kind = "call" /\ row'[x].company = c}
    BY <1>1, <1>10 DEF CallsLive, LiveRows, Live
  <2> QED BY <2>1, <2>2, <1>3, <1>10 DEF Listed, ListCalls, Arrangements, NewestFirst
<1> QED BY <1>5, <1>6, <1>7, <1>8, <1>9, <1>10 DEF Kinds

\* The first m elements of s, or all of them.
Begins(t, s, m) ==
    /\ t \in Seq(Ids) /\ Len(t) = IF m < Len(s) THEN m ELSE Len(s)
    /\ \A i \in 1 .. Len(t) : t[i] = s[i]

LEMMA PageAppended ==
  ASSUME NEW s \in Seq(Ids), NEW t, NEW page \in Nat \ {0}, NEW size \in Nat \ {0},
         Begins(t, s, (page - 1) * size)
  PROVE  Begins(t \o Page(s, page, size), s, page * size)
<1>1. PICK m \in Nat, n \in Nat : m = (page - 1) * size /\ n = page * size
  OBVIOUS
<1>2. n = m + size
  BY <1>1
<1>3. PICK l \in Nat : l = Len(s)
  OBVIOUS
<1>4. PICK e \in Nat : e = IF n < l THEN n ELSE l
  OBVIOUS
<1>5. Page(s, page, size) = SubSeq(s, m + 1, e)
  BY <1>1, <1>3, <1>4 DEF Page
<1>6. PICK p : p = SubSeq(s, m + 1, e)
  OBVIOUS
<1>7. \A i \in 1 .. l : s[i] \in Ids
  BY <1>3, ElementOfSeq
<1>8. /\ p \in Seq(Ids)
      /\ Len(p) = IF m + 1 <= e THEN e - m ELSE 0
      /\ \A i \in 1 .. Len(p) : p[i] = s[m + i]
  BY <1>3, <1>4, <1>6, <1>7
<1>9. /\ t \in Seq(Ids) /\ Len(t) = IF m < l THEN m ELSE l
      /\ \A i \in 1 .. Len(t) : t[i] = s[i]
  BY <1>1, <1>3 DEF Begins
<1>10. PICK u : u = t \o p
  OBVIOUS
<1>11. /\ u \in Seq(Ids) /\ Len(u) = Len(t) + Len(p)
       /\ \A i \in 1 .. Len(u) : u[i] = IF i <= Len(t) THEN t[i] ELSE p[i - Len(t)]
  BY <1>8, <1>9, <1>10, ConcatProperties
<1>12. Len(u) = e
  BY <1>2, <1>4, <1>8, <1>9, <1>11
<1>13. ASSUME NEW i \in 1 .. Len(u)
       PROVE  u[i] = s[i]
  <2>1. CASE i <= Len(t)
    BY <2>1, <1>9, <1>11, <1>13
  <2>2. CASE i > Len(t)
    <3>1. Len(t) = m /\ i - m \in 1 .. Len(p)
      <4>1. PICK lt \in Nat, lp \in Nat : lt = Len(t) /\ lp = Len(p)
        BY <1>8, <1>9, LenProperties
      <4>2. i \in 1 .. e /\ i > lt /\ lt + lp = e /\ lt = IF m < l THEN m ELSE l
        BY <4>1, <2>2, <1>9, <1>11, <1>12, <1>13
      <4>3. e <= l
        BY <1>4
      <4> QED BY <4>1, <4>2, <4>3
    <3>2. u[i] = p[i - m] /\ p[i - m] = s[m + (i - m)] /\ m + (i - m) = i
      BY <2>2, <3>1, <1>8, <1>11
    <3> QED BY <3>2
  <2> QED BY <2>1, <2>2, <1>9, <1>13
<1> QED BY <1>1, <1>3, <1>4, <1>5, <1>6, <1>10, <1>11, <1>12, <1>13 DEF Begins

\* As many pages as TotalPages says hold all rows.
LEMMA PagesSuffice ==
  ASSUME NEW total \in Nat, NEW size \in Nat \ {0}, NEW page \in Nat,
         ~(page < TotalPages(total, size))
  PROVE  total <= page * size
<1>1. PICK k \in Nat : k = (total + size - 1) \div size
  OBVIOUS
<1>2. total + size - 1 < size * (k + 1)
  BY <1>1
<1>3. total <= size * k
  BY <1>2
<1>4. k <= page
  BY <1>1 DEF TotalPages
<1>5. size * k <= page * size
  BY <1>4
<1> QED BY <1>3, <1>5

-----------------------------------------------------------------------------
(* How the rows move *)

\* What a step does to the rows: those that are there keep their kind, company
\* and time of creation, calls do not change at all, and new ones are of now and
\* live. Readers notice.
RowsMove ==
    /\ Forward
    /\ \A x \in Ids : row'[x] \in Rows =>
            row'[x].born = now \/ (Stands(x) /\ row'[x].born = row[x].born)
    /\ \A x \in Ids : Stands(x) /\ row[x].kind = "call" => row'[x] = row[x]
    /\ \A x \in Ids : row[x] = None /\ row'[x] \in Rows => row'[x].live
    /\ UNCHANGED <<row, walk>> \/ Become(row')

LEMMA NothingMoves ==
  ASSUME UNCHANGED <<row, walk>>
  PROVE  RowsMove
BY RecordsAssumption DEF RowsMove, Forward, Stands

\* A row changes, or is made.
LEMMA OneRowMoves ==
  ASSUME RowsTyped, NEW x \in Ids, NEW r, Become([row EXCEPT ![x] = r]),
         \/ r = Gone /\ Stands(x) /\ row[x].kind # "call"
         \/ r \in Rows /\ r.live /\ r.born = now /\ row[x] = None
         \/ r \in Rows /\ Stands(x) /\ row[x].kind # "call" /\ r.born = row[x].born
              /\ r.kind = row[x].kind /\ r.company = row[x].company
  PROVE  RowsMove
<1>1. row' = [row EXCEPT ![x] = r] /\ Become(row')
  BY DEF Become
<1>2. /\ row'[x] = r /\ \A y \in Ids : y # x => row'[y] = row[y]
  BY <1>1 DEF RowsTyped
<1>3. None \notin Rows /\ Gone \notin Rows /\ None # Gone
  BY RecordsAssumption
<1> QED BY <1>1, <1>2, <1>3 DEF RowsMove, Forward, Stands

LEMMA InsertMoves ==
  ASSUME RowsTyped, NEW x \in Unused, NEW r \in Rows, r.live, r.born = now, Insert(x, r)
  PROVE  RowsMove
<1>1. x \in Ids /\ row[x] = None /\ Become([row EXCEPT ![x] = r])
  BY DEF Unused, Insert
<1> QED BY <1>1, OneRowMoves

LEMMA InsertContactsMove ==
  ASSUME RecordsInv, NEW j \in Jobs, InsertContacts(j)
  PROVE  RowsMove
<1>4. PICK es \in Seq(Emails \cup {None}), d \in Companies, s \in SetToSeqs(Unused) :
              /\ es = job[j].emails /\ d = job[j].company /\ BatchDistinct(es)
              /\ \A i \in DOMAIN es : es[i] # None => es[i] \in job[j].claims
              /\ \A x \in Ids :
                  \/ row'[x] = row[x]
                  \/ \E i \in DOMAIN es :
                        /\ s[i] = x /\ row[x] = None
                        /\ row'[x] \in Rows /\ row'[x].kind = "contact" /\ row'[x].live
                        /\ row'[x].company = d /\ row'[x].email = es[i] /\ row'[x].born = now
  BY ContactsMade
<1>1. \A x \in Ids :
        \/ row'[x] = row[x]
        \/ row[x] = None /\ row'[x] \in Rows /\ row'[x].live /\ row'[x].born = now
  BY <1>4
<1>5. PICK rows : Become(rows)
  BY DEF InsertContacts
<1>2. Become(row')
  BY <1>5 DEF Become
<1>3. None \notin Rows
  BY RecordsAssumption
<1> QED BY <1>1, <1>2, <1>3 DEF RowsMove, Forward, Stands

LEMMA NewLives ==
  ASSUME RowsTyped, NEW k \in Kinds, NEW c \in Companies, NEW u \in Users \cup {None},
         NEW place \in Nat
  PROVE  /\ New(k, c, u, None, place) \in Rows /\ New(k, c, u, None, place).live
         /\ New(k, c, u, None, place).born = now
<1>1. New(k, c, u, None, place).live /\ New(k, c, u, None, place).born = now
  BY DEF New
<1> QED BY <1>1, NewRow

LEMMA CreationsMove ==
  ASSUME RowsTyped, NEW c \in Companies
  PROVE  /\ \A j \in Jobs, u \in Users, due \in DueDates : CreateTask(j, c, u, due) => RowsMove
         /\ \A j \in Jobs, u \in Users : CreateNote(j, c, u) => RowsMove
         /\ \A k \in {"call", "lead", "deal"}, u \in Users \cup {None} : Arrive(k, c, u) => RowsMove
<1>1. ASSUME NEW k \in Kinds, NEW u \in Users \cup {None}, NEW place \in Nat,
             NEW x \in Unused, Insert(x, New(k, c, u, None, place))
      PROVE  RowsMove
  <2>1. PICK r : r = New(k, c, u, None, place)
    OBVIOUS
  <2>2. r \in Rows /\ r.live /\ r.born = now
    BY <2>1, NewLives
  <2>3. Insert(x, r)
    BY <1>1, <2>1
  <2> QED BY <2>2, <2>3, InsertMoves
<1>2. serial \in Nat /\ DueDates \subseteq Nat
  BY RecordsAssumption DEF RowsTyped
<1>3. ASSUME NEW j \in Jobs, NEW u \in Users, NEW due \in DueDates, CreateTask(j, c, u, due)
      PROVE  RowsMove
  BY <1>1, <1>2, <1>3 DEF CreateTask, Kinds
<1>4. ASSUME NEW j \in Jobs, NEW u \in Users, CreateNote(j, c, u)
      PROVE  RowsMove
  BY <1>1, <1>2, <1>4 DEF CreateNote, Kinds
<1>5. ASSUME NEW k \in {"call", "lead", "deal"}, NEW u \in Users \cup {None}, Arrive(k, c, u)
      PROVE  RowsMove
  <2>1. PICK x \in Unused : Insert(x, New(k, c, u, None, serial))
    BY <1>5 DEF Arrive
  <2>2. k \in Kinds
    BY DEF Kinds
  <2> QED BY <1>1, <1>2, <2>1, <2>2
<1> QED BY <1>3, <1>4, <1>5

LEMMA PutMoves ==
  ASSUME RecordsInv, NEW j \in Jobs, NEW op, NEW k, k # "call", NEW r, Put(j, op, k, r),
         LET x == job[j].row
         IN  Stands(x) => r = Gone \/
                /\ r \in Rows
                /\ r.kind = row[x].kind /\ r.company = row[x].company /\ r.born = row[x].born
  PROVE  RowsMove
<1>1. At(j, "writing") /\ job[j].loaded.kind = k
  BY DEF Put
<1>2. PICK x \in Ids : x = job[j].row
  BY <1>1, PutReads
<1>3. CASE ~Stands(x)
  BY <1>2, <1>3, NothingMoves DEF Put
<1>4. CASE Stands(x)
  <2>1. row[x].kind # "call"
    BY <1>1, <1>2, <1>4, PutReads DEF JobHolds
  <2>2. Become([row EXCEPT ![x] = r])
    BY <1>2, <1>4 DEF Put
  <2>3. \/ r = Gone
        \/ r \in Rows /\ r.kind = row[x].kind /\ r.company = row[x].company /\ r.born = row[x].born
    BY <1>2, <1>4
  <2>4. RowsTyped
    BY DEF RecordsInv
  <2> QED BY <1>4, <2>1, <2>2, <2>3, <2>4, OneRowMoves
<1> QED BY <1>3, <1>4

LEMMA AmendMoves ==
  ASSUME RecordsInv, NEW j \in Jobs, NEW op, NEW k, k # "call", Put(j, op, k, AmendRow(j))
  PROVE  RowsMove
<1>1. At(j, "writing")
  BY DEF Put
<1>2. PICK x \in Ids : x = job[j].row
  BY <1>1, PutReads
<1>3. PICK old \in Rows : old = job[j].loaded
  BY <1>1, PutReads
<1>4. PICK edit : edit = job[j].edit /\ Sendable(edit)
  BY <1>1, PutReads
<1>5. PICK r : r = AmendRow(j)
  OBVIOUS
<1>6. Stands(x) => r \in Rows /\ r.kind = row[x].kind /\ r.company = row[x].company /\ r.born = row[x].born
  <2>1. SUFFICES ASSUME Stands(x)
                 PROVE  r \in Rows /\ r.kind = row[x].kind /\ r.company = row[x].company /\ r.born = row[x].born
    OBVIOUS
  <2>2. PICK was \in Rows : was = row[x]
    BY <2>1 DEF Stands
  <2>3. r = Amended(was, old, edit)
    BY <1>2, <1>3, <1>4, <1>5, <2>2 DEF AmendRow
  <2>4. Sendable(edit)
    BY <1>4
  <2>5. IsAmended(Amended(was, old, edit), was, old, edit)
    BY <2>4, AmendedRow
  <2> QED BY <2>2, <2>3, <2>5 DEF IsAmended
<1>7. Put(j, op, k, r)
  BY <1>5
<1> QED BY <1>2, <1>6, <1>7, PutMoves

LEMMA DeleteMoves ==
  ASSUME RecordsInv, NEW j \in Jobs, NEW k, k # "call",
         \/ Put(j, "delete", k, [row[job[j].row] EXCEPT !.live = FALSE])
         \/ Put(j, "delete", k, Gone)
  PROVE  RowsMove
<1>1. CASE Put(j, "delete", k, [row[job[j].row] EXCEPT !.live = FALSE])
  <2>1. At(j, "writing")
    BY <1>1 DEF Put
  <2>2. PICK x \in Ids : x = job[j].row
    BY <2>1, PutReads
  <2>3. PICK r : r = [row[job[j].row] EXCEPT !.live = FALSE]
    OBVIOUS
  <2>4. Stands(x) => r \in Rows /\ r.kind = row[x].kind /\ r.company = row[x].company /\ r.born = row[x].born
    BY <2>2, <2>3 DEF Stands, Rows
  <2>5. Put(j, "delete", k, r)
    BY <1>1, <2>3
  <2> QED BY <2>2, <2>4, <2>5, PutMoves
<1>2. CASE Put(j, "delete", k, Gone)
  BY <1>2, PutMoves
<1> QED BY <1>1, <1>2

LEMMA RequestsMove ==
  ASSUME RecordsInv, NEW j \in Jobs, NEW c \in Companies, Requests(j, c)
  PROVE  RowsMove
<1>0. RowsTyped
  BY DEF RecordsInv
<1>1. CASE CreateContacts(j, c)
  BY <1>1, InsertContactsMove, NothingMoves DEF CreateContacts, CheckEmail, CheckBatch, CheckPhone
<1>2. ASSUME NEW u, NEW k, NEW op, NEW edit, Load(j, c, u, k, op, edit)
      PROVE  RowsMove
  BY <1>2, NothingMoves DEF Load
<1>3. CASE UpdateContact(j, c)
  BY <1>2, <1>3, AmendMoves, NothingMoves DEF UpdateContact, CheckChange
<1>4. CASE UpdateTask(j, c)
  BY <1>2, <1>4, AmendMoves DEF UpdateTask
<1>5. CASE CompleteTask(j, c)
  BY <1>2, <1>5, AmendMoves DEF CompleteTask
<1>6. CASE UpdateNote(j, c)
  BY <1>2, <1>6, AmendMoves DEF UpdateNote
<1>7. CASE AssignLead(j, c)
  BY <1>2, <1>7, AmendMoves DEF AssignLead
<1>8. ASSUME NEW k \in {"contact", "task", "note"}, Delete(j, c, k)
      PROVE  RowsMove
  BY <1>2, <1>8, DeleteMoves DEF Delete
<1>9. CASE \E u \in Users, d \in DueDates : CreateTask(j, c, u, d)
  BY <1>0, <1>9, CreationsMove
<1>10. CASE \E u \in Users : CreateNote(j, c, u)
  BY <1>0, <1>10, CreationsMove
<1> QED BY <1>1, <1>3, <1>4, <1>5, <1>6, <1>7, <1>8, <1>9, <1>10
        DEF Requests, DeleteContact, DeleteTask, DeleteNote

LEMMA StepsMove ==
  ASSUME RecordsInv, [Next]_vars
  PROVE  \/ RowsMove
         \/ row' = row /\ \E w \in Walks : ReadLists(w)
<1>1. CASE \E j \in Jobs, c \in Companies : Requests(j, c)
  BY <1>1, RequestsMove
<1>2. CASE \E c \in Companies : Arrivals(c)
  BY <1>2, CreationsMove DEF Arrivals, RecordsInv
<1>3. CASE \E w \in Walks : ReadLists(w)
  BY <1>3, ListsRead
<1>4. Tick => UNCHANGED <<row, walk>>
  BY DEF Tick
<1>5. ReportsNext => UNCHANGED <<row, walk>>
  BY ReportsRead DEF ReportsNext, recordVars
<1>6. UNCHANGED recordVars => UNCHANGED <<row, walk>>
  BY DEF recordVars
<1>7. UNCHANGED vars => UNCHANGED recordVars
  BY DEF vars
<1> QED BY <1>1, <1>2, <1>3, <1>4, <1>5, <1>6, <1>7, NothingMoves DEF Next, RecordsNext

-----------------------------------------------------------------------------
(* Lists: the invariant of readers *)

WalkTyped(w) ==
    Reading(w) =>
        /\ walk[w].pc \in {"count", "page", "cursor"}
        /\ DOMAIN walk[w] = {"pc", "kind", "company", "size", "page", "cursor", "total",
                             "seen", "paged", "there", "calm"}
        /\ walk[w].kind \in Kinds /\ walk[w].company \in Companies
        /\ walk[w].size \in Nat \ {0} /\ walk[w].page \in Nat \ {0}
        /\ walk[w].seen \in Seq(Ids)
        /\ walk[w].there \subseteq LiveRows(walk[w].kind, walk[w].company)
        /\ walk[w].paged <=> walk[w].pc # "cursor"
        /\ walk[w].pc = "cursor" => walk[w].kind \in {"contact", "lead", "deal", "call"}

\* A reader with a cursor has seen what is not below it, each row once.
AboveCursor(w) ==
    walk[w].pc = "cursor" =>
        /\ IsInjective(walk[w].seen)
        /\ walk[w].cursor \in Ids \cup {None}
        /\ \A i \in 1 .. Len(walk[w].seen) :
            walk[w].cursor # None /\ walk[w].cursor <= walk[w].seen[i]
        /\ \A x \in walk[w].there :
            \/ x \in ToSet(walk[w].seen)
            \/ walk[w].cursor = None \/ x < walk[w].cursor

\* A reader of pages, as long as nothing of the list was written and rows had
\* one order, has seen the pages that it turned.
PagesTurned(w) ==
    walk[w].pc \in {"count", "page"} /\ walk[w].calm =>
        /\ walk[w].there = LiveRows(walk[w].kind, walk[w].company)
        /\ walk[w].pc = "page" =>
            walk[w].total = Cardinality(LiveRows(walk[w].kind, walk[w].company))
        /\ \/ walk[w].page = 1 /\ walk[w].seen = <<>>
           \/ \E s \in Listed(walk[w].kind, walk[w].company) :
                /\ \A t \in Listed(walk[w].kind, walk[w].company) : t = s
                /\ Begins(walk[w].seen, s, (walk[w].page - 1) * walk[w].size)

WalkEnds(w) ==
    walk[w].pc = "done" /\ (walk[w].paged => walk[w].calm) =>
        /\ walk[w].there \subseteq ToSet(walk[w].seen)
        /\ IsInjective(walk[w].seen)

WalkHolds(w) == WalkTyped(w) /\ AboveCursor(w) /\ PagesTurned(w) /\ WalkEnds(w)

WalksInv ==
    /\ CallsLive
    /\ DOMAIN walk = Walks
    /\ \A w \in Walks : WalkHolds(w)

-----------------------------------------------------------------------------
(* Lists: the steps of others *)

LEMMA WalkStands ==
  ASSUME NEW w, WalkHolds(w), walk'[w] = walk[w], UNCHANGED row, CallsLive
  PROVE  WalkHolds(w)'
<1>1. \A k, c : LiveRows(k, c)' = LiveRows(k, c)
  BY DEF LiveRows, Live, Stands
<1>2. CallsLive'
  BY DEF CallsLive, Stands
<1>3. Forward /\ \A k : Untouched(k, row')
  BY StillForward DEF Untouched
<1>4. \A k \in Kinds : \A c : Listed(k, c)' = Listed(k, c)
  BY <1>2, <1>3, ListedStays
<1>5. WalkTyped(w)' /\ AboveCursor(w)' /\ WalkEnds(w)'
  BY <1>1 DEF WalkHolds, WalkTyped, AboveCursor, WalkEnds, Reading
<1>6. PagesTurned(w)'
  <2>1. SUFFICES ASSUME walk[w].pc \in {"count", "page"}, walk[w].calm
                 PROVE  PagesTurned(w)'
    BY DEF PagesTurned
  <2>2. walk[w].kind \in Kinds /\ PagesTurned(w)
    BY <2>1 DEF WalkHolds, WalkTyped, Reading
  <2>3. Listed(walk[w].kind, walk[w].company)' = Listed(walk[w].kind, walk[w].company)
    BY <2>2, <1>4
  <2> QED BY <1>1, <2>1, <2>2, <2>3 DEF PagesTurned
<1> QED BY <1>5, <1>6 DEF WalkHolds

\* A reader under way while rows move.
LEMMA WalkMoved ==
  ASSUME NEW w \in Walks, Reading(w), WalkHolds(w), RowsMove, Become(row'), CallsLive, CallsLive'
  PROVE  WalkHolds(w)'
<1>1. PICK v, there, calm :
        /\ v = walk[w]
        /\ there = {x \in v.there : row'[x] \in Rows /\ row'[x].live}
        /\ calm = (v.calm /\ Untouched(v.kind, row'))
  OBVIOUS
<1>2. PICK r : r = [v EXCEPT !.there = there, !.calm = calm]
  OBVIOUS
<1>3. walk'[w] = r
  BY <1>1, <1>2 DEF Become, Reading
<1>4. DOMAIN v = {"pc", "kind", "company", "size", "page", "cursor", "total",
                  "seen", "paged", "there", "calm"}
  BY <1>1 DEF WalkHolds, WalkTyped
<1>5. /\ DOMAIN r = {"pc", "kind", "company", "size", "page", "cursor", "total",
                     "seen", "paged", "there", "calm"}
      /\ r.pc = v.pc /\ r.kind = v.kind /\ r.company = v.company /\ r.size = v.size
      /\ r.page = v.page /\ r.cursor = v.cursor /\ r.total = v.total /\ r.seen = v.seen
      /\ r.paged = v.paged /\ r.there = there /\ r.calm = calm
  BY <1>2, <1>4
<1>6. /\ v.pc \in {"count", "page", "cursor"}
      /\ v.kind \in Kinds /\ v.company \in Companies
      /\ v.there \subseteq LiveRows(v.kind, v.company)
  BY <1>1 DEF WalkHolds, WalkTyped
<1>7. there \subseteq v.there /\ there \subseteq LiveRows(v.kind, v.company)'
  <2>1. there \subseteq v.there
    BY <1>1
  <2>2. ASSUME NEW x \in there
        PROVE  x \in LiveRows(v.kind, v.company)'
    <3>1. row'[x] \in Rows /\ row'[x].live /\ x \in LiveRows(v.kind, v.company)
      BY <1>1, <1>6
    <3>2. x \in Ids /\ row[x] \in Rows /\ row[x].kind = v.kind /\ row[x].company = v.company
      BY <3>1 DEF LiveRows, Live, Stands
    <3>3. row'[x].kind = v.kind /\ row'[x].company = v.company
      BY <3>1, <3>2, RecordsAssumption DEF RowsMove, Forward
    <3> QED BY <3>1, <3>2, <3>3 DEF LiveRows, Live, Stands
  <2> QED BY <2>1, <2>2
<1>8. WalkTyped(w)'
  BY <1>1, <1>3, <1>5, <1>6, <1>7 DEF WalkHolds, WalkTyped, Reading
<1>9. AboveCursor(w)'
  BY <1>1, <1>3, <1>5, <1>7 DEF WalkHolds, AboveCursor
<1>10. WalkEnds(w)'
  BY <1>3, <1>5, <1>6 DEF WalkEnds
<1>11. PagesTurned(w)'
  <2>1. SUFFICES ASSUME r.pc \in {"count", "page"}, r.calm
                 PROVE  PagesTurned(w)'
    BY <1>3 DEF PagesTurned
  <2>2. v.calm /\ Untouched(v.kind, row')
    BY <1>1, <1>5, <2>1
  <2>3. Forward
    BY DEF RowsMove
  <2>4. PICK S : S = LiveRows(v.kind, v.company) /\ S = LiveRows(v.kind, v.company)'
            /\ \A x \in S : row'[x] = row[x]
    BY <2>2, <2>3, RowsStay
  <2>5. PICK L : L = Listed(v.kind, v.company) /\ L = Listed(v.kind, v.company)'
    BY <1>6, <2>2, <2>3, ListedStays
  <2>6. /\ v.there = S
        /\ v.pc = "page" => v.total = Cardinality(S)
        /\ \/ v.page = 1 /\ v.seen = <<>>
           \/ \E s \in L : (\A t \in L : t = s) /\ Begins(v.seen, s, (v.page - 1) * v.size)
    BY <1>1, <1>5, <2>1, <2>2, <2>4, <2>5 DEF WalkHolds, PagesTurned
  <2>7. there = S
    BY <1>1, <2>4, <2>6 DEF LiveRows, Live, Stands
  <2>8. /\ walk'[w].there = LiveRows(v.kind, v.company)'
        /\ walk'[w].pc = "page" => walk'[w].total = Cardinality(LiveRows(v.kind, v.company)')
    BY <1>3, <1>5, <2>4, <2>6, <2>7
  <2>9. \/ walk'[w].page = 1 /\ walk'[w].seen = <<>>
        \/ \E s \in Listed(v.kind, v.company)' :
            /\ \A t \in Listed(v.kind, v.company)' : t = s
            /\ Begins(walk'[w].seen, s, (walk'[w].page - 1) * walk'[w].size)
    BY <1>3, <1>5, <2>5, <2>6
  <2>10. walk'[w].kind = v.kind /\ walk'[w].company = v.company
    BY <1>3, <1>5
  <2> QED BY <2>8, <2>9, <2>10 DEF PagesTurned
<1> QED BY <1>8, <1>9, <1>10, <1>11 DEF WalkHolds

LEMMA MovesKeepWalks ==
  ASSUME WalksInv, RowsMove
  PROVE  WalksInv'
<1>1. CallsLive'
  <2>1. ASSUME NEW x \in Ids, row'[x] \in Rows, row'[x].kind = "call"
        PROVE  row'[x].live
    <3>1. CASE row[x] = None
      BY <2>1, <3>1 DEF RowsMove
    <3>2. CASE row[x] # None
      <4>1. row[x] \in Rows /\ row[x].kind = "call"
        BY <2>1, <3>2 DEF RowsMove, Forward
      <4>2. row'[x] = row[x] /\ row[x].live
        BY <4>1 DEF RowsMove, Stands, WalksInv, CallsLive
      <4> QED BY <4>2
    <3> QED BY <3>1, <3>2
  <2> QED BY <2>1 DEF CallsLive, Stands
<1>2. CASE UNCHANGED <<row, walk>>
  BY <1>1, <1>2, WalkStands DEF WalksInv
<1>3. CASE Become(row')
  <2>1. DOMAIN walk' = Walks
    BY <1>3 DEF Become
  <2>2. ASSUME NEW w \in Walks, ~Reading(w)
        PROVE  WalkHolds(w)'
    <3>1. walk'[w] = walk[w] /\ WalkHolds(w)
      BY <1>3, <2>2 DEF Become, WalksInv
    <3> QED BY <2>2, <3>1 DEF WalkHolds, WalkTyped, AboveCursor, PagesTurned, WalkEnds, Reading
  <2>3. ASSUME NEW w \in Walks, Reading(w)
        PROVE  WalkHolds(w)'
    BY <1>1, <1>3, <2>3, WalkMoved DEF WalksInv
  <2> QED BY <1>1, <2>1, <2>2, <2>3 DEF WalksInv
<1> QED BY <1>2, <1>3 DEF RowsMove

-----------------------------------------------------------------------------
(* Lists: the steps of readers *)

LEMMA ReaderKeeps ==
  ASSUME WalksInv, UNCHANGED row, NEW w \in Walks,
         NEW r, walk' = [walk EXCEPT ![w] = r], WalkHolds(w)'
  PROVE  WalksInv'
<1>1. CallsLive /\ CallsLive' /\ DOMAIN walk' = Walks
  BY DEF WalksInv, CallsLive, Stands
<1>2. ASSUME NEW y \in Walks, y # w
      PROVE  WalkHolds(y)'
  <2>1. walk'[y] = walk[y] /\ WalkHolds(y)
    BY <1>2 DEF WalksInv
  <2> QED BY <1>1, <2>1, WalkStands
<1> QED BY <1>1, <1>2 DEF WalksInv

LEMMA WalkBegins ==
  ASSUME WalksInv, NEW w \in Walks, NEW pc \in {"count", "cursor"}, NEW k \in Kinds,
         NEW c \in Companies, NEW n \in Sizes, Start(w, pc, k, c, n),
         pc = "cursor" => k \in {"contact", "lead", "deal", "call"}
  PROVE  WalksInv'
<1>1. PICK there, paged : there = LiveRows(k, c) /\ paged = (pc = "count")
  OBVIOUS
<1>2. PICK r : r = [pc |-> pc, kind |-> k, company |-> c, size |-> n, page |-> 1,
                    cursor |-> None, total |-> 0, seen |-> <<>>, paged |-> paged,
                    there |-> there, calm |-> TRUE]
  OBVIOUS
<1>3. walk' = [walk EXCEPT ![w] = r] /\ UNCHANGED row
  BY <1>1, <1>2 DEF Start
<1>4. walk'[w] = r
  BY <1>3 DEF WalksInv
<1>5. /\ DOMAIN r = {"pc", "kind", "company", "size", "page", "cursor", "total",
                     "seen", "paged", "there", "calm"}
      /\ r.pc = pc /\ r.kind = k /\ r.company = c /\ r.size = n /\ r.page = 1
      /\ r.cursor = None /\ r.seen = <<>> /\ r.paged = paged /\ r.there = there
  BY <1>2
<1>6. LiveRows(k, c)' = there
  BY <1>1, <1>3 DEF LiveRows, Live, Stands
<1>7. n \in Nat \ {0}
  BY RecordsAssumption
<1>8. /\ <<>> \in Seq(Ids) /\ Len(<<>>) = 0 /\ DOMAIN <<>> = {}
  BY EmptySeq, LenProperties
<1>9. WalkTyped(w)'
  <2>1. pc \in {"count", "page", "cursor"} /\ there \subseteq LiveRows(k, c)'
    BY <1>6
  <2>2. (paged <=> pc # "cursor") /\ (pc = "cursor" => k \in {"contact", "lead", "deal", "call"})
    BY <1>1
  <2>3. walk'[w].size \in Nat \ {0} /\ walk'[w].page \in Nat \ {0} /\ walk'[w].seen \in Seq(Ids)
    BY <1>4, <1>5, <1>7, <1>8
  <2> QED BY <1>4, <1>5, <2>1, <2>2, <2>3 DEF WalkTyped
<1>10. AboveCursor(w)'
  <2>1. IsInjective(<<>>) /\ \A i \in 1 .. Len(<<>>) : FALSE
    BY <1>8 DEF IsInjective
  <2> QED BY <1>4, <1>5, <2>1 DEF AboveCursor
<1>11. PagesTurned(w)'
  BY <1>4, <1>5, <1>6 DEF PagesTurned
<1>12. WalkEnds(w)'
  BY <1>4, <1>5 DEF WalkEnds
<1>13. WalkHolds(w)'
  BY <1>9, <1>10, <1>11, <1>12 DEF WalkHolds
<1> QED BY <1>3, <1>13, ReaderKeeps

LEMMA CountRowsKeeps ==
  ASSUME WalksInv, NEW w \in Walks, CountRows(w)
  PROVE  WalksInv'
<1>1. walk[w].pc = "count" /\ UNCHANGED row /\ WalkHolds(w) /\ Reading(w)
  BY DEF CountRows, WalksInv, Reading
<1>2. PICK v : v = walk[w]
  OBVIOUS
<1>3. PICK k \in Kinds, c \in Companies : k = v.kind /\ c = v.company
  BY <1>1, <1>2 DEF WalkHolds, WalkTyped
<1>4. PICK s \in Listed(k, c) :
        walk' = [walk EXCEPT ![w] = [walk[w] EXCEPT !.pc = "page", !.total = Len(s)]]
  BY <1>2, <1>3 DEF CountRows
<1>5. PICK total : total = Len(s)
  OBVIOUS
<1>6. PICK r : r = [v EXCEPT !.pc = "page", !.total = total]
  OBVIOUS
<1>7. walk' = [walk EXCEPT ![w] = r]
  BY <1>2, <1>4, <1>5, <1>6
<1>8. walk'[w] = r
  BY <1>7 DEF WalksInv
<1>9. DOMAIN v = {"pc", "kind", "company", "size", "page", "cursor", "total",
                  "seen", "paged", "there", "calm"}
  BY <1>1, <1>2 DEF WalkHolds, WalkTyped
<1>10. /\ DOMAIN r = {"pc", "kind", "company", "size", "page", "cursor", "total",
                      "seen", "paged", "there", "calm"}
       /\ r.pc = "page" /\ r.kind = k /\ r.company = c /\ r.size = v.size
       /\ r.page = v.page /\ r.total = total /\ r.seen = v.seen
       /\ r.paged = v.paged /\ r.there = v.there /\ r.calm = v.calm
  BY <1>3, <1>6, <1>9
<1>11. LiveRows(k, c)' = LiveRows(k, c)
  BY <1>1 DEF LiveRows, Live, Stands
<1>12. total = Cardinality(LiveRows(k, c))
  <2>1. PICK S : S = LiveRows(k, c) /\ IsFiniteSet(S) /\ s \in SetToSeqs(S)
    BY ListedRows, LiveRowsFinite DEF WalksInv
  <2>2. Len(s) = Cardinality(S)
    BY <2>1, Arranged
  <2> QED BY <1>5, <2>1, <2>2
<1>13. CallsLive' /\ Forward /\ Untouched(k, row')
  BY <1>1, StillForward DEF WalksInv, CallsLive, Stands, Untouched
<1>14. Listed(k, c)' = Listed(k, c)
  BY <1>13, ListedStays DEF WalksInv
<1>15. WalkTyped(w)'
  BY <1>1, <1>2, <1>3, <1>8, <1>10, <1>11 DEF WalkHolds, WalkTyped, Reading
<1>16. AboveCursor(w)' /\ WalkEnds(w)'
  BY <1>8, <1>10 DEF AboveCursor, WalkEnds
<1>17. PagesTurned(w)'
  <2>1. SUFFICES ASSUME v.calm
                 PROVE  PagesTurned(w)'
    BY <1>8, <1>10 DEF PagesTurned
  <2>2. /\ v.there = LiveRows(k, c)
        /\ \/ v.page = 1 /\ v.seen = <<>>
           \/ \E t \in Listed(k, c) : (\A u \in Listed(k, c) : u = t)
                                        /\ Begins(v.seen, t, (v.page - 1) * v.size)
    BY <1>1, <1>2, <1>3, <2>1 DEF WalkHolds, PagesTurned
  <2> QED BY <2>2, <1>8, <1>10, <1>11, <1>12, <1>14 DEF PagesTurned
<1> QED BY <1>1, <1>7, <1>15, <1>16, <1>17, ReaderKeeps DEF WalkHolds

LEMMA ReadPageKeeps ==
  ASSUME WalksInv, NEW w \in Walks, ReadPage(w)
  PROVE  WalksInv'
<1>1. walk[w].pc = "page" /\ UNCHANGED row /\ WalkHolds(w) /\ Reading(w)
  BY DEF ReadPage, WalksInv, Reading
<1>2. PICK v : v = walk[w]
  OBVIOUS
<1>3. PICK k \in Kinds, c \in Companies : k = v.kind /\ c = v.company
  BY <1>1, <1>2 DEF WalkHolds, WalkTyped
<1>4. PICK s \in Listed(k, c) :
        walk' = [walk EXCEPT ![w] =
            [walk[w] EXCEPT
                !.pc = IF walk[w].page < TotalPages(walk[w].total, walk[w].size)
                       THEN "count" ELSE "done",
                !.page = walk[w].page + 1,
                !.seen = walk[w].seen \o Page(s, walk[w].page, walk[w].size),
                !.calm = walk[w].calm
                    /\ \A t \in Listed(walk[w].kind, walk[w].company) : t = s]]
  BY <1>2, <1>3 DEF ReadPage
<1>5. PICK pc, page, seen, calm :
        /\ pc = IF v.page < TotalPages(v.total, v.size) THEN "count" ELSE "done"
        /\ page = v.page + 1
        /\ seen = v.seen \o Page(s, v.page, v.size)
        /\ calm = (v.calm /\ \A t \in Listed(k, c) : t = s)
  OBVIOUS
<1>6. PICK r : r = [v EXCEPT !.pc = pc, !.page = page, !.seen = seen, !.calm = calm]
  OBVIOUS
<1>7. walk' = [walk EXCEPT ![w] = r]
  BY <1>2, <1>3, <1>4, <1>5, <1>6
<1>8. walk'[w] = r
  BY <1>7 DEF WalksInv
<1>9. DOMAIN v = {"pc", "kind", "company", "size", "page", "cursor", "total",
                  "seen", "paged", "there", "calm"}
  BY <1>1, <1>2 DEF WalkHolds, WalkTyped
<1>10. /\ DOMAIN r = {"pc", "kind", "company", "size", "page", "cursor", "total",
                      "seen", "paged", "there", "calm"}
       /\ r.pc = pc /\ r.kind = k /\ r.company = c /\ r.size = v.size
       /\ r.page = page /\ r.total = v.total /\ r.seen = seen
       /\ r.paged = v.paged /\ r.there = v.there /\ r.calm = calm
  BY <1>3, <1>6, <1>9
<1>11. PICK S \in SUBSET Ids : S = LiveRows(k, c) /\ S = LiveRows(k, c)'
  BY <1>1 DEF LiveRows, Live, Stands
<1>12. /\ s \in Seq(S) /\ s \in Seq(Ids) /\ Len(s) = Cardinality(S)
       /\ \A i, m \in 1 .. Len(s) : s[i] = s[m] => i = m
       /\ \A x \in S : \E i \in 1 .. Len(s) : s[i] = x
  <2>1. IsFiniteSet(S) /\ s \in SetToSeqs(S)
    BY <1>11, ListedRows, LiveRowsFinite DEF WalksInv
  <2>2. s \in Seq(S) /\ S \subseteq Ids
    BY <2>1, Arranged
  <2> QED BY <2>1, <2>2, Arranged
<1>13. PICK L : L = Listed(k, c) /\ L = Listed(k, c)'
  <2>1. CallsLive' /\ Forward /\ Untouched(k, row')
    BY <1>1, StillForward DEF WalksInv, CallsLive, Stands, Untouched
  <2> QED BY <2>1, ListedStays DEF WalksInv
<1>14. /\ v.page \in Nat \ {0} /\ v.size \in Nat \ {0} /\ v.seen \in Seq(Ids) /\ v.paged
       /\ v.there \subseteq S
  BY <1>1, <1>2, <1>3, <1>11 DEF WalkHolds, WalkTyped
<1>15. seen \in Seq(Ids)
  <2>1. PICK p : p = Page(s, v.page, v.size)
    OBVIOUS
  <2>2. p \in Seq(Ids)
    <3>1. \A i \in 1 .. Len(s) : s[i] \in Ids
      BY <1>12, ElementOfSeq
    <3>2. PICK a \in Nat, e \in Nat : p = SubSeq(s, a + 1, e) /\ e <= Len(s)
      <4>1. PICK a \in Nat, b \in Nat : a = (v.page - 1) * v.size /\ b = v.page * v.size
        BY <1>14
      <4>2. PICK l \in Nat : l = Len(s)
        BY <1>12
      <4>3. PICK e \in Nat : e = IF b < l THEN b ELSE l
        OBVIOUS
      <4>4. p = SubSeq(s, a + 1, e)
        BY <2>1, <4>1, <4>2, <4>3 DEF Page
      <4>5. e <= Len(s)
        BY <4>2, <4>3
      <4> QED BY <4>4, <4>5
    <3> QED BY <1>12, <3>1, <3>2
  <2> QED BY <1>5, <1>14, <2>1, <2>2, ConcatProperties
<1>16. WalkTyped(w)'
  <2>1. page \in Nat \ {0}
    BY <1>5, <1>14
  <2> QED BY <1>3, <1>5, <1>8, <1>10, <1>11, <1>14, <1>15, <2>1 DEF WalkTyped, Reading
<1>17. AboveCursor(w)'
  BY <1>5, <1>8, <1>10 DEF AboveCursor
<1>18. ASSUME v.calm, \A t \in L : t = s
       PROVE  Begins(seen, s, v.page * v.size)
  <2>1. \/ v.page = 1 /\ v.seen = <<>>
        \/ \E t \in L : (\A u \in L : u = t) /\ Begins(v.seen, t, (v.page - 1) * v.size)
    BY <1>1, <1>2, <1>3, <1>13, <1>18 DEF WalkHolds, PagesTurned
  <2>2. Begins(v.seen, s, (v.page - 1) * v.size)
    <3>1. CASE v.page = 1 /\ v.seen = <<>>
      <4>1. (v.page - 1) * v.size = 0 /\ Len(v.seen) = 0
        BY <1>14, <3>1
      <4>2. ~(0 < Len(s)) => Len(s) = 0
        BY <1>12
      <4> QED BY <1>14, <4>1, <4>2 DEF Begins
    <3>2. CASE \E t \in L : (\A u \in L : u = t) /\ Begins(v.seen, t, (v.page - 1) * v.size)
      BY <3>2, <1>13
    <3> QED BY <2>1, <3>1, <3>2
  <2>3. PICK t, m, n : t = v.seen /\ m = v.page /\ n = v.size
    OBVIOUS
  <2>4. Begins(t \o Page(s, m, n), s, m * n)
    BY <1>12, <1>14, <2>2, <2>3, PageAppended
  <2> QED BY <1>5, <2>3, <2>4
<1>19. PagesTurned(w)'
  <2>1. SUFFICES ASSUME calm, pc = "count"
                 PROVE  PagesTurned(w)'
    BY <1>5, <1>8, <1>10 DEF PagesTurned
  <2>2. v.calm /\ \A t \in L : t = s
    BY <1>5, <1>13, <2>1
  <2>3. v.there = S
    BY <1>1, <1>2, <1>3, <1>11, <2>2 DEF WalkHolds, PagesTurned
  <2>4. page - 1 = v.page
    BY <1>5, <1>14
  <2>5. Begins(seen, s, (page - 1) * v.size)
    BY <2>2, <2>4, <1>18
  <2>6. /\ walk'[w].there = LiveRows(k, c)' /\ walk'[w].pc # "page"
        /\ walk'[w].kind = k /\ walk'[w].company = c
    BY <1>8, <1>10, <1>11, <2>1, <2>3
  <2>7. \E t \in Listed(k, c)' : (\A u \in Listed(k, c)' : u = t)
                                   /\ Begins(walk'[w].seen, t, (walk'[w].page - 1) * walk'[w].size)
    BY <1>8, <1>10, <1>13, <2>2, <2>5
  <2> QED BY <2>6, <2>7 DEF PagesTurned
<1>20. WalkEnds(w)'
  <2>1. SUFFICES ASSUME calm, pc = "done"
                 PROVE  WalkEnds(w)'
    BY <1>5, <1>8, <1>10, <1>14 DEF WalkEnds
  <2>2. v.calm /\ \A t \in L : t = s
    BY <1>5, <1>13, <2>1
  <2>3. v.total = Len(s)
    BY <1>1, <1>2, <1>3, <1>11, <1>12, <2>2 DEF WalkHolds, PagesTurned
  <2>4. PICK l \in Nat : l = Len(s)
    BY <1>12
  <2>5. ~(v.page < TotalPages(l, v.size))
    BY <1>5, <2>1, <2>3, <2>4
  <2>6. PICK m, n : m = v.page /\ n = v.size
    OBVIOUS
  <2>7. l <= m * n
    BY <1>14, <2>4, <2>5, <2>6, PagesSuffice
  <2>8. Begins(seen, s, m * n)
    BY <1>18, <2>2, <2>6
  <2>9. Len(seen) = l /\ \A i \in 1 .. Len(seen) : seen[i] = s[i]
    <3>1. m * n \in Nat
      BY <1>14, <2>6
    <3> QED BY <2>4, <2>7, <2>8, <3>1 DEF Begins
  <2>10. DOMAIN seen = 1 .. Len(seen)
    BY <1>15, LenProperties
  <2>11. \A x \in S : x \in ToSet(seen)
    BY <1>12, <2>4, <2>9, <2>10 DEF ToSet
  <2>12. IsInjective(seen)
    BY <1>12, <2>4, <2>9, <2>10 DEF IsInjective
  <2> QED BY <1>8, <1>10, <1>14, <2>11, <2>12 DEF WalkEnds
<1>21. WalkHolds(w)'
  BY <1>16, <1>17, <1>19, <1>20 DEF WalkHolds
<1> QED BY <1>1, <1>7, <1>21, ReaderKeeps

\* A reader with a cursor takes the next rows below it.
LEMMA ReadBatchKeeps ==
  ASSUME WalksInv, NEW w \in Walks, ReadBatch(w)
  PROVE  WalksInv'
<1>1. walk[w].pc = "cursor" /\ UNCHANGED row /\ WalkHolds(w) /\ Reading(w)
  BY DEF ReadBatch, WalksInv, Reading
<1>2. PICK v : v = walk[w]
  OBVIOUS
<1>3. PICK k \in {"contact", "lead", "deal", "call"}, c \in Companies : k = v.kind /\ c = v.company
  BY <1>1, <1>2 DEF WalkHolds, WalkTyped
<1>4. PICK S \in SUBSET Ids : S = LiveRows(k, c) /\ S = LiveRows(k, c)'
  BY <1>1 DEF LiveRows, Live, Stands
<1>5. /\ v.size \in Nat \ {0} /\ v.page \in Nat \ {0} /\ v.seen \in Seq(Ids) /\ ~v.paged
      /\ v.there \subseteq S
      /\ DOMAIN v = {"pc", "kind", "company", "size", "page", "cursor", "total",
                     "seen", "paged", "there", "calm"}
  BY <1>1, <1>2, <1>3, <1>4 DEF WalkHolds, WalkTyped
<1>6. /\ IsInjective(v.seen) /\ v.cursor \in Ids \cup {None}
      /\ \A i \in 1 .. Len(v.seen) : v.cursor # None /\ v.cursor <= v.seen[i]
      /\ \A x \in v.there : x \in ToSet(v.seen) \/ v.cursor = None \/ x < v.cursor
  BY <1>1, <1>2 DEF WalkHolds, AboveCursor
<1>7. PICK cur : cur = v.cursor
  OBVIOUS
<1>8. PICK items \in Public(k, c, cur) :
        walk' = [walk EXCEPT ![w] =
            [walk[w] EXCEPT
                !.pc = IF Len(items) > v.size THEN "cursor" ELSE "done",
                !.seen = walk[w].seen \o SubSeq(items, 1, IF Len(items) > v.size
                                                          THEN v.size ELSE Len(items)),
                !.cursor = IF Len(items) > v.size THEN items[v.size] ELSE None]]
  BY <1>2, <1>3, <1>7 DEF ReadBatch
<1>9. /\ items \in Seq(S)
      /\ \A i, m \in 1 .. Len(items) : i < m => items[m] < items[i]
      /\ \A i \in 1 .. Len(items) : cur = None \/ items[i] < cur
      /\ \A x \in S : cur = None \/ x < cur => \E i \in 1 .. Len(items) : items[i] = x
  <2>1. items \in Below(S, cur)
    BY <1>4, <1>8, PublicRows DEF WalksInv
  <2> QED BY <2>1, BelowRows
<1>10. PICK l \in Nat, n \in Nat \ {0} : l = Len(items) /\ n = v.size
  BY <1>5, <1>9, LenProperties
<1>11. PICK m \in Nat : m = IF l > n THEN n ELSE l
  OBVIOUS
<1>12. PICK p : p = SubSeq(items, 1, m)
  OBVIOUS
<1>13. \A i \in 1 .. l : items[i] \in S /\ items[i] \in Ids /\ items[i] \in Nat
  <2>1. \A i \in 1 .. l : items[i] \in S
    BY <1>9, <1>10, ElementOfSeq
  <2> QED BY <2>1, RecordsAssumption
<1>14. m <= l /\ (l > n => m = n) /\ (~(l > n) => m = l)
  BY <1>11
<1>15. p \in Seq(Ids) /\ Len(p) = m /\ \A i \in 1 .. m : p[i] = items[i]
  BY <1>9, <1>10, <1>12, <1>13, <1>14
<1>16. PICK t \in Seq(Ids), a \in Nat : t = v.seen /\ a = Len(t)
  BY <1>5, LenProperties
<1>17. PICK seen : seen = t \o p
  OBVIOUS
<1>18. /\ seen \in Seq(Ids) /\ Len(seen) = a + m
       /\ DOMAIN seen = 1 .. a + m /\ DOMAIN t = 1 .. a
       /\ \A i \in 1 .. a + m : seen[i] = IF i <= a THEN t[i] ELSE p[i - a]
  <2>1. /\ seen \in Seq(Ids) /\ Len(seen) = a + m
        /\ \A i \in 1 .. a + m : seen[i] = IF i <= a THEN t[i] ELSE p[i - a]
    <3>1. p \in Seq(Ids) /\ Len(p) = m /\ Len(t) = a
      BY <1>15, <1>16
    <3>2. /\ seen \in Seq(Ids) /\ Len(seen) = Len(t) + Len(p)
          /\ \A i \in 1 .. Len(t) + Len(p) :
                seen[i] = IF i <= Len(t) THEN t[i] ELSE p[i - Len(t)]
      BY <3>1, <1>17, ConcatProperties
    <3> QED BY <3>1, <3>2
  <2> QED BY <2>1, <1>16, LenProperties
<1>19. /\ \A i \in 1 .. a : seen[i] = t[i] /\ t[i] \in Nat
       /\ \A i \in a + 1 .. a + m : i - a \in 1 .. m /\ seen[i] = items[i - a]
  <2>1. \A i \in 1 .. a : seen[i] = t[i]
    BY <1>18
  <2>2. \A i \in 1 .. a : t[i] \in Nat
    BY <1>16, ElementOfSeq, RecordsAssumption
  <2>3. \A i \in a + 1 .. a + m : i - a \in 1 .. m
    OBVIOUS
  <2>4. \A i \in a + 1 .. a + m : i \in 1 .. a + m /\ ~(i <= a)
    OBVIOUS
  <2>5. \A i \in a + 1 .. a + m : seen[i] = items[i - a]
    BY <1>15, <1>18, <2>3, <2>4
  <2> QED BY <2>1, <2>2, <2>3, <2>5
<1>20. \A i \in 1 .. a : cur # None /\ cur \in Nat /\ cur <= t[i]
  BY <1>6, <1>7, <1>16, RecordsAssumption
<1>21. IsInjective(seen)
  <2>1. ASSUME NEW i \in 1 .. a, NEW j \in a + 1 .. a + m
        PROVE  seen[j] < seen[i]
    <3>1. PICK x \in Nat, y \in Nat : x = seen[i] /\ y = seen[j] /\ x = t[i] /\ y = items[j - a]
      <4>1. j - a \in 1 .. l
        BY <1>14, <1>19
      <4> QED BY <4>1, <1>13, <1>19
    <3>2. y < cur /\ cur <= x /\ cur \in Nat
      <4>1. j - a \in 1 .. l
        BY <1>14, <1>19
      <4> QED BY <4>1, <3>1, <1>9, <1>10, <1>20
    <3> QED BY <3>1, <3>2
  <2>2. \A i, j \in 1 .. a : seen[i] = seen[j] => i = j
    BY <1>6, <1>16, <1>18, <1>19 DEF IsInjective
  <2>3. ASSUME NEW i \in a + 1 .. a + m, NEW j \in a + 1 .. a + m, i < j
        PROVE  seen[j] < seen[i]
    <3>1. i - a \in 1 .. l /\ j - a \in 1 .. l /\ i - a < j - a
      BY <1>14, <1>19, <2>3
    <3> QED BY <3>1, <1>9, <1>10, <1>19
  <2>4. \A i \in 1 .. a + m : seen[i] \in Nat
    BY <1>18, ElementOfSeq, RecordsAssumption
  <2>5. \A i \in 1 .. a + m : i \in 1 .. a \/ i \in a + 1 .. a + m
    OBVIOUS
  <2>6. ASSUME NEW i \in a + 1 .. a + m, NEW j \in a + 1 .. a + m, seen[i] = seen[j]
        PROVE  i = j
    <3>1. seen[i] \in Nat /\ ~(seen[i] < seen[i])
      BY <2>4
    <3>2. ~(i < j) /\ ~(j < i)
      BY <2>3, <2>6, <3>1
    <3> QED BY <3>2
  <2>7. ASSUME NEW i \in 1 .. a, NEW j \in a + 1 .. a + m
        PROVE  seen[i] # seen[j]
    <3>1. seen[i] \in Nat /\ ~(seen[i] < seen[i])
      BY <2>4
    <3> QED BY <2>1, <3>1
  <2>8. ASSUME NEW i \in 1 .. a + m, NEW j \in 1 .. a + m, seen[i] = seen[j]
        PROVE  i = j
    BY <2>2, <2>5, <2>6, <2>7, <2>8
  <2> QED BY <1>18, <2>8 DEF IsInjective
<1>22. /\ \A x \in v.there : x \in ToSet(t) \/ cur = None \/ x < cur
       /\ \A x \in ToSet(t) : x \in ToSet(seen)
       /\ \A i \in 1 .. m : items[i] \in ToSet(seen)
  <2>1. \A x \in v.there : x \in ToSet(t) \/ cur = None \/ x < cur
    BY <1>6, <1>7, <1>16
  <2>2. ASSUME NEW i \in 1 .. a
        PROVE  i \in DOMAIN seen /\ t[i] = seen[i]
    BY <1>18, <1>19
  <2>3. \A x \in ToSet(t) : x \in ToSet(seen)
    BY <2>2, <1>18 DEF ToSet
  <2>4. ASSUME NEW i \in 1 .. m
        PROVE  a + i \in DOMAIN seen /\ items[i] = seen[a + i]
    <3>1. a + i \in a + 1 .. a + m /\ (a + i) - a = i /\ a + i \in 1 .. a + m
      OBVIOUS
    <3> QED BY <3>1, <1>18, <1>19
  <2>5. \A i \in 1 .. m : items[i] \in ToSet(seen)
    BY <2>4 DEF ToSet
  <2> QED BY <2>1, <2>3, <2>5
<1>23. PICK pc, next :
        /\ pc = IF l > n THEN "cursor" ELSE "done"
        /\ next = IF l > n THEN items[n] ELSE None
  OBVIOUS
<1>24. PICK r : r = [v EXCEPT !.pc = pc, !.seen = seen, !.cursor = next]
  OBVIOUS
<1>25. walk' = [walk EXCEPT ![w] = r]
  BY <1>2, <1>8, <1>10, <1>11, <1>12, <1>16, <1>17, <1>23, <1>24
<1>26. walk'[w] = r
  BY <1>25 DEF WalksInv
<1>27. /\ DOMAIN r = {"pc", "kind", "company", "size", "page", "cursor", "total",
                      "seen", "paged", "there", "calm"}
       /\ r.pc = pc /\ r.kind = k /\ r.company = c /\ r.size = v.size
       /\ r.page = v.page /\ r.cursor = next /\ r.seen = seen
       /\ r.paged = v.paged /\ r.there = v.there
  BY <1>3, <1>5, <1>24
<1>28. WalkTyped(w)'
  <2>1. k \in Kinds
    BY DEF Kinds
  <2>2. pc = "cursor" \/ pc = "done"
    BY <1>23
  <2> QED BY <1>4, <1>5, <1>18, <1>26, <1>27, <2>1, <2>2 DEF WalkTyped, Reading
<1>29. AboveCursor(w)'
  <2>1. SUFFICES ASSUME l > n
                 PROVE  AboveCursor(w)'
    BY <1>23, <1>26, <1>27 DEF AboveCursor
  <2>2. m = n /\ n \in 1 .. l /\ next = items[n] /\ next \in Ids /\ next \in Nat /\ next # None
    <3>1. m = n /\ n \in 1 .. l /\ next = items[n]
      BY <1>14, <1>23, <2>1
    <3> QED BY <3>1, <1>13, RecordsAssumption
  <2>3. ASSUME NEW i \in 1 .. a + m
        PROVE  next <= seen[i]
    <3>1. CASE i <= a
      <4>1. PICK x \in Nat : x = seen[i] /\ x = t[i]
        BY <1>19, <3>1
      <4>2. next < cur /\ cur <= x /\ cur \in Nat
        BY <1>9, <1>10, <1>20, <2>2, <3>1, <4>1
      <4> QED BY <2>2, <4>1, <4>2
    <3>2. CASE i > a
      <4>1. PICK j \in 1 .. m : j = i - a /\ seen[i] = items[j]
        BY <1>19, <3>2
      <4>2. CASE j = n
        BY <2>2, <4>1, <4>2
      <4>3. CASE j # n
        <5>1. j \in 1 .. l /\ j < n
          BY <2>2, <4>3
        <5>2. items[n] < items[j] /\ items[j] \in Nat
          BY <1>9, <1>10, <1>13, <2>2, <5>1
        <5> QED BY <2>2, <4>1, <5>2
      <4> QED BY <4>2, <4>3
    <3> QED BY <3>1, <3>2
  <2>4. ASSUME NEW x \in v.there
        PROVE  x \in ToSet(seen) \/ x < next
    <3>1. x \in S
      BY <1>5
    <3>2. CASE x \in ToSet(t)
      BY <1>22, <3>2
    <3>3. CASE cur = None \/ x < cur
      <4>1. PICK i \in 1 .. l : items[i] = x
        BY <1>9, <1>10, <3>1, <3>3
      <4>2. CASE i <= n
        BY <1>22, <2>2, <4>1, <4>2
      <4>3. CASE i > n
        BY <1>9, <1>10, <2>2, <4>1, <4>3
      <4> QED BY <4>2, <4>3
    <3> QED BY <1>22, <3>2, <3>3
  <2> QED BY <1>18, <1>21, <1>26, <1>27, <2>2, <2>3, <2>4 DEF AboveCursor
<1>30. PagesTurned(w)'
  BY <1>23, <1>26, <1>27 DEF PagesTurned
<1>31. WalkEnds(w)'
  <2>1. SUFFICES ASSUME ~(l > n)
                 PROVE  WalkEnds(w)'
    BY <1>23, <1>26, <1>27 DEF WalkEnds
  <2>2. m = l
    BY <1>14, <2>1
  <2>3. ASSUME NEW x \in v.there
        PROVE  x \in ToSet(seen)
    <3>1. CASE x \in ToSet(t)
      BY <1>22, <3>1
    <3>2. CASE cur = None \/ x < cur
      <4>1. PICK i \in 1 .. l : items[i] = x
        BY <1>5, <1>9, <1>10, <3>2
      <4> QED BY <1>22, <2>2, <4>1
    <3> QED BY <1>22, <3>1, <3>2
  <2> QED BY <1>21, <1>26, <1>27, <2>3 DEF WalkEnds
<1>32. WalkHolds(w)'
  BY <1>28, <1>29, <1>30, <1>31 DEF WalkHolds
<1> QED BY <1>1, <1>25, <1>32, ReaderKeeps

LEMMA ReadListsKeep ==
  ASSUME WalksInv, NEW w \in Walks, ReadLists(w)
  PROVE  WalksInv'
<1>1. CASE StartPages(w)
  BY <1>1, WalkBegins DEF StartPages
<1>2. CASE StartCursor(w)
  <2>1. PICK k \in {"contact", "lead", "deal", "call"}, c \in Companies, n \in Sizes :
            Start(w, "cursor", k, c, n)
    BY <1>2 DEF StartCursor
  <2>2. k \in Kinds
    BY DEF Kinds
  <2> QED BY <2>1, <2>2, WalkBegins
<1> QED BY <1>1, <1>2, CountRowsKeeps, ReadPageKeeps, ReadBatchKeeps DEF ReadLists

-----------------------------------------------------------------------------
(* Lists: the theorem *)

LEMMA WalksStart ==
  ASSUME RecordsInit
  PROVE  WalksInv
<1>1. \A x \in Ids : row[x] = None
  BY DEF RecordsInit
<1>2. CallsLive
  BY <1>1, RecordsAssumption DEF CallsLive, Stands
<1>3. DOMAIN walk = Walks /\ \A w \in Walks : walk[w].pc = "unsent"
  BY DEF RecordsInit
<1> QED BY <1>2, <1>3
        DEF WalksInv, WalkHolds, WalkTyped, AboveCursor, PagesTurned, WalkEnds, Reading

LEMMA WalksKeep ==
  ASSUME RecordsInv, WalksInv, [Next]_vars
  PROVE  WalksInv'
BY StepsMove, MovesKeepWalks, ReadListsKeep

\* A reader of the public API who follows the cursor to the end has seen every
\* row that stood all the while, and none twice, whatever was created, changed
\* and deleted between his requests; a reader of the application's pages has,
\* when no row of his list was written meanwhile and no two rows shared a place
\* in it: for every number of rows, size of page and mix of requests.
THEOREM ReadersSeeAll == Spec => []WalkComplete
<1>1. Init => WalksInv
  BY WalksStart DEF Init
<1>2. RecordsInv /\ WalksInv /\ [Next]_vars => WalksInv'
  BY WalksKeep
<1>3. WalksInv => WalkComplete
  BY DEF WalksInv, WalkHolds, WalkEnds, WalkComplete
<1>4. Init => RecordsInv
  BY RecordsStart DEF Init
<1>5. RecordsInv /\ [Next]_vars => RecordsInv'
  BY RecordsKeep
<1> QED BY <1>1, <1>2, <1>3, <1>4, <1>5, PTL DEF Spec

-----------------------------------------------------------------------------
(* Reports: the cache and its clearing *)

AboutShared == {"team", "platform", "owner"}

\* The keys of the reports that a clearing is to remove.
Fresh(k) == \E a \in Questions : a.about \in AboutShared /\ k = Key(a)

\* A stored report is that of a request that ended well, at its place.
CacheHolds ==
    \A s \in Stores : \A k \in DOMAIN cache[s] :
        LET q == cache[s][k].value.by
        IN  q \in Queries /\ Answered(q) /\ query[q].store = s /\ Key(query[q].ask) = k

QueryHolds(q) ==
    /\ Stage(q, "counting") \/ Stage(q, "storing") \/ Stage(q, "answered") =>
        /\ query[q].ask \in Questions /\ query[q].store \in Stores
    /\ Stage(q, "counting") =>
        /\ q \notin query[q].purged
        /\ DOMAIN query[q] = {"pc", "ask", "store", "asked", "purged", "at", "span", "begun",
                              "there", "figures"}
    /\ Stage(q, "storing") =>
        /\ q \notin query[q].purged /\ query[q].value.by = q
        /\ DOMAIN query[q] = {"pc", "ask", "store", "asked", "purged", "value"}
        /\ "stored" \in DOMAIN query[q].value
        /\ query[q].ask.about # "me"
    /\ Stage(q, "answered") /\ query[q].ask.about \in AboutShared =>
        query[q].value.by \notin query[q].purged
    /\ Stage(q, "clearing") \/ Stage(q, "emptying") =>
        /\ query[q].store \in Stores
        /\ \A x \in query[q].old : x \in Queries /\ Answered(x)
    /\ Stage(q, "emptying") =>
        DOMAIN query[q] = {"pc", "store", "at", "old"} /\ query[q].at \in 1 .. 5

\* What a clearing under way is to remove and has not removed is where it will
\* look for it.
ClearingHolds(q) ==
    \A s \in Stores : \A k \in DOMAIN cache[s] :
        Fresh(k) =>
            /\ Stage(q, "clearing") /\ cache[s][k].value.by \in query[q].old =>
                s = query[q].store /\ k \in query[q].keys
            /\ Stage(q, "emptying") /\ cache[s][k].value.by \in query[q].old =>
                s = query[q].store /\ \E n \in query[q].at .. 5 : OwnerKeys[n] = k

PurgedHolds ==
    /\ \A x \in purged : x \in Queries /\ Answered(x)
    /\ \A s \in Stores : \A k \in DOMAIN cache[s] :
        Fresh(k) => cache[s][k].value.by \notin purged

ReportsInv ==
    /\ DOMAIN query = Queries /\ DOMAIN cache = Stores
    /\ CacheHolds
    /\ \A q \in Queries : QueryHolds(q)
    /\ \A q \in Queries : ClearingHolds(q)
    /\ PurgedHolds

LEMMA FreshKeys ==
  ASSUME NEW k, Fresh(k)
  PROVE  \/ \E c \in Companies, p \in Periods : k = <<"analytics", "team", c, p>>
         \/ \E p \in Periods : k = <<"analytics", "platform", Owner, p>>
         \/ k = <<"dashboard", "owner", Owner>>
<1>1. PICK a \in Questions : a.about \in AboutShared /\ k = Key(a)
  BY DEF Fresh
<1>2. Askable(a)
  BY ReportsAssumption
<1>3. CASE a.about = "team"
  BY <1>1, <1>2, <1>3 DEF Key, Askable, TeamKey
<1>4. CASE a.about = "platform"
  BY <1>1, <1>2, <1>4 DEF Key, Askable, PlatformKey
<1>5. CASE a.about = "owner"
  BY <1>1, <1>2, <1>5 DEF Key, DashboardKey
<1> QED BY <1>1, <1>3, <1>4, <1>5 DEF AboutShared

\* What is left of the fresh keys when those with an id are taken away: the
\* condition on operators and administrators in Telling is not about them.
LEMMA FreshIsNoDashboard ==
  ASSUME NEW k, Fresh(k)
  PROVE  k[2] \notin {"operator", "admin"}
BY FreshKeys

LEMMA OwnersKeys ==
  ASSUME NEW k, Fresh(k), Owner \in Range(k)
  PROVE  \E n \in 1 .. 5 : OwnerKeys[n] = k
<1>1. CASE \E c \in Companies, p \in Periods : k = <<"analytics", "team", c, p>>
  <2>1. PICK c \in Companies, p \in Periods : k = <<"analytics", "team", c, p>>
    BY <1>1
  <2>2. Range(k) = {"analytics", "team", c, p}
    BY <2>1 DEF Range
  <2> QED BY <2>2, ReportsAssumption
<1>2. CASE \E p \in Periods : k = <<"analytics", "platform", Owner, p>>
  <2>1. PICK p \in Periods : k = <<"analytics", "platform", Owner, p>>
    BY <1>2
  <2>2. /\ OwnerKeys[1] = PlatformKey("today") /\ OwnerKeys[2] = PlatformKey("week")
        /\ OwnerKeys[3] = PlatformKey("month") /\ OwnerKeys[4] = PlatformKey("year")
    BY DEF OwnerKeys
  <2>3. k = PlatformKey(p)
    BY <2>1 DEF PlatformKey
  <2> QED BY <2>2, <2>3 DEF Periods
<1>3. CASE k = <<"dashboard", "owner", Owner>>
  <2>1. OwnerKeys[5] = DashboardKey("owner", Owner)
    BY DEF OwnerKeys
  <2> QED BY <2>1, <1>3 DEF DashboardKey
<1> QED BY <1>1, <1>2, <1>3, FreshKeys

-----------------------------------------------------------------------------
(* Reports: the steps *)

\* A step of q alone, which has not been answered.
LEMMA QueryMoves ==
  ASSUME ReportsInv, NEW q \in Queries, ~Answered(q),
         NEW r, query' = [query EXCEPT ![q] = r], UNCHANGED <<cache, purged>>,
         QueryHolds(q)', ClearingHolds(q)'
  PROVE  ReportsInv'
<1>1. /\ DOMAIN query' = Queries /\ DOMAIN cache' = Stores
      /\ \A x \in Queries : x # q => query'[x] = query[x]
  BY DEF ReportsInv
<1>2. \A x \in Queries : Answered(x) => Answered(x)' /\ query'[x] = query[x]
  BY <1>1 DEF Answered, Stage
<1>3. CacheHolds'
  BY <1>2 DEF ReportsInv, CacheHolds
<1>4. ASSUME NEW x \in Queries, x # q
      PROVE  QueryHolds(x)'
  BY <1>1, <1>2, <1>4 DEF ReportsInv, QueryHolds, Stage
<1>5. ASSUME NEW x \in Queries, x # q
      PROVE  ClearingHolds(x)'
  <2>1. query'[x] = query[x] /\ UNCHANGED cache /\ ClearingHolds(x)
    BY <1>1, <1>5 DEF ReportsInv
  <2> QED BY <2>1 DEF ClearingHolds, Stage
<1>6. PurgedHolds'
  BY <1>2 DEF ReportsInv, PurgedHolds, Fresh
<1> QED BY <1>1, <1>3, <1>4, <1>5, <1>6 DEF ReportsInv

\* Only clearings have keys to look at.
LEMMA NotClearing ==
  ASSUME NEW q \in Queries, query'[q].pc \notin {"clearing", "emptying"}
  PROVE  ClearingHolds(q)'
BY DEF ClearingHolds, Stage

LEMMA AskKeeps ==
  ASSUME ReportsInv, NEW q \in Queries, NEW a \in Questions, NEW s \in Stores, Ask(q, a, s)
  PROVE  ReportsInv'
<1>1. Stage(q, "unsent") /\ ~Answered(q) /\ UNCHANGED <<cache, purged>>
  BY DEF Ask, Stage, Answered
<1>2. q \notin purged
  BY <1>1 DEF ReportsInv, PurgedHolds
<1>3. CASE a.about # "me" /\ Cached(s, Key(a))
  <2>1. PICK k, v : k = Key(a) /\ v = cache[s][k].value
    OBVIOUS
  <2>2. PICK r : r = [pc |-> "answered", ask |-> a, store |-> s, asked |-> now,
                      purged |-> purged, value |-> v]
    OBVIOUS
  <2>3. query' = [query EXCEPT ![q] = r]
    BY <1>3, <2>1, <2>2 DEF Ask
  <2>4. query'[q] = r
    BY <2>3 DEF ReportsInv
  <2>5. k \in DOMAIN cache[s]
    BY <1>3, <2>1 DEF Cached
  <2>6. a.about \in AboutShared => v.by \notin purged
    BY <2>1, <2>5 DEF ReportsInv, PurgedHolds, Fresh
  <2>7. QueryHolds(q)'
    BY <2>2, <2>4, <2>6 DEF QueryHolds, Stage
  <2>8. ClearingHolds(q)'
    <3>1. r.pc \notin {"clearing", "emptying"}
      BY <2>2
    <3> QED BY <3>1, <2>4, NotClearing
  <2> QED BY <1>1, <2>3, <2>7, <2>8, QueryMoves
<1>4. CASE ~(a.about # "me" /\ Cached(s, Key(a)))
  <2>1. PICK there : there = {<<x, row[x]>> : x \in {x \in Ids : Live(x)}}
    OBVIOUS
  <2>2. PICK r : r = [pc |-> "counting", ask |-> a, store |-> s, asked |-> now,
                  purged |-> purged, at |-> 1, span |-> 0, begun |-> now,
                  there |-> there, figures |-> <<>>]
    OBVIOUS
  <2>3. query' = [query EXCEPT ![q] = r]
    BY <1>4, <2>1, <2>2 DEF Ask
  <2>4. query'[q] = r
    BY <2>3 DEF ReportsInv
  <2>5. QueryHolds(q)'
    BY <1>2, <2>2, <2>4 DEF QueryHolds, Stage
  <2>6. ClearingHolds(q)'
    <3>1. r.pc \notin {"clearing", "emptying"}
      BY <2>2
    <3> QED BY <3>1, <2>4, NotClearing
  <2> QED BY <1>1, <2>3, <2>5, <2>6, QueryMoves
<1> QED BY <1>3, <1>4

LEMMA CountKeeps ==
  ASSUME ReportsInv, NEW q \in Queries, CountNext(q)
  PROVE  ReportsInv'
<1>1. Stage(q, "counting") /\ ~Answered(q) /\ UNCHANGED <<cache, purged>>
  BY DEF CountNext, Stage, Answered
<1>2. PICK a \in Questions, s \in Stores :
        a = query[q].ask /\ s = query[q].store /\ q \notin query[q].purged
  BY <1>1 DEF ReportsInv, QueryHolds
<1>3. CASE query[q].at < Len(Plan(query[q].ask))
  <2>1. PICK span, g, there, n :
          query' = [query EXCEPT ![q] =
              [query[q] EXCEPT !.at = n, !.span = span, !.figures = g, !.there = there]]
    BY <1>3 DEF CountNext
  <2>2. PICK r : r = [query[q] EXCEPT !.at = n, !.span = span, !.figures = g, !.there = there]
    OBVIOUS
  <2>3. query' = [query EXCEPT ![q] = r]
    BY <2>1, <2>2
  <2>4. query'[q] = r
    BY <2>3 DEF ReportsInv
  <2>5. DOMAIN query[q] = {"pc", "ask", "store", "asked", "purged", "at", "span", "begun",
                           "there", "figures"}
    BY <1>1 DEF ReportsInv, QueryHolds
  <2>6. /\ r.pc = "counting" /\ r.ask = a /\ r.store = s /\ r.purged = query[q].purged
        /\ DOMAIN r = {"pc", "ask", "store", "asked", "purged", "at", "span", "begun",
                       "there", "figures"}
    BY <1>1, <1>2, <2>2, <2>5 DEF Stage
  <2>7. QueryHolds(q)'
    BY <1>2, <2>4, <2>6 DEF QueryHolds, Stage
  <2>8. ClearingHolds(q)'
    BY <2>4, <2>6, NotClearing
  <2> QED BY <1>1, <2>3, <2>7, <2>8, QueryMoves
<1>4. CASE ~(query[q].at < Len(Plan(query[q].ask)))
  <2>1. PICK g, there, begun, asked, out :
          query' = [query EXCEPT ![q] =
              [pc |-> IF a.about = "me" THEN "answered" ELSE "storing",
               ask |-> a, store |-> s, asked |-> asked, purged |-> query[q].purged,
               value |-> [figures |-> g, by |-> q, begun |-> begun, ended |-> now,
                          stored |-> now, there |-> there]]]
    BY <1>2, <1>4 DEF CountNext
  <2>2. PICK r : r =
              [pc |-> IF a.about = "me" THEN "answered" ELSE "storing",
               ask |-> a, store |-> s, asked |-> asked, purged |-> query[q].purged,
               value |-> [figures |-> g, by |-> q, begun |-> begun, ended |-> now,
                          stored |-> now, there |-> there]]
    OBVIOUS
  <2>3. query' = [query EXCEPT ![q] = r]
    BY <2>1, <2>2
  <2>4. query'[q] = r
    BY <2>3 DEF ReportsInv
  <2>5. /\ r.pc = IF a.about = "me" THEN "answered" ELSE "storing"
        /\ r.ask = a /\ r.store = s /\ r.purged = query[q].purged
        /\ r.value.by = q /\ "stored" \in DOMAIN r.value
        /\ DOMAIN r = {"pc", "ask", "store", "asked", "purged", "value"}
    BY <2>2
  <2>6. QueryHolds(q)'
    BY <1>2, <2>4, <2>5 DEF QueryHolds, Stage, AboutShared
  <2>7. ClearingHolds(q)'
    BY <2>4, <2>5, NotClearing
  <2> QED BY <1>1, <2>3, <2>6, <2>7, QueryMoves
<1> QED BY <1>3, <1>4

LEMMA FailKeeps ==
  ASSUME ReportsInv, NEW q \in Queries, CacheFails(q)
  PROVE  ReportsInv'
<1>1. ~Answered(q) /\ UNCHANGED <<cache, purged>>
  BY DEF CacheFails, Stage, Answered
<1>2. PICK r : r = [pc |-> "failed"]
  OBVIOUS
<1>3. query' = [query EXCEPT ![q] = r] /\ query'[q] = r
  BY <1>2 DEF CacheFails, ReportsInv
<1>4. r.pc = "failed"
  BY <1>2
<1>5. QueryHolds(q)' /\ ClearingHolds(q)'
  BY <1>3, <1>4, NotClearing DEF QueryHolds, Stage
<1> QED BY <1>1, <1>3, <1>5, QueryMoves

\* What is told of a company or of the owner in a store.
LEMMA Told ==
  ASSUME ReportsInv, NEW s \in Stores, NEW who
  PROVE  /\ \A x \in Telling(s, who) : x \in Queries /\ Answered(x)
         /\ \A t \in Stores : \A k \in DOMAIN cache[t] :
              Fresh(k) /\ cache[t][k].value.by \in Telling(s, who) =>
                 t = s /\ who \in Range(k)
<1>1. \A t \in Stores : \A k \in DOMAIN cache[t] :
        /\ cache[t][k].value.by \in Queries /\ Answered(cache[t][k].value.by)
        /\ query[cache[t][k].value.by].store = t
        /\ Key(query[cache[t][k].value.by].ask) = k
  BY DEF ReportsInv, CacheHolds
<1>2. ASSUME NEW x \in Telling(s, who)
      PROVE  \E k \in DOMAIN cache[s] :
                /\ x = cache[s][k].value.by
                /\ who \in Range(k) \/ k[2] \in {"operator", "admin"}
  BY DEF Telling
<1>3. ASSUME NEW t \in Stores, NEW k \in DOMAIN cache[t], Fresh(k),
             cache[t][k].value.by \in Telling(s, who)
      PROVE  t = s /\ who \in Range(k)
  <2>1. PICK l \in DOMAIN cache[s] :
                /\ cache[t][k].value.by = cache[s][l].value.by
                /\ who \in Range(l) \/ l[2] \in {"operator", "admin"}
    BY <1>2, <1>3
  <2>2. t = s /\ k = l
    BY <1>1, <2>1
  <2> QED BY <2>1, <2>2, <1>3, FreshIsNoDashboard
<1> QED BY <1>1, <1>2, <1>3

LEMMA ClearCompanyBegins ==
  ASSUME ReportsInv, NEW q \in Queries, Stage(q, "unsent"), UNCHANGED <<cache, purged>>,
         NEW c \in Companies, NEW s \in Stores,
         query' = [query EXCEPT ![q] =
            [pc |-> "clearing", store |-> s, keys |-> Matching(s, c), old |-> Telling(s, c)]]
  PROVE  ReportsInv'
<1>9. ~Answered(q)
  BY DEF Stage, Answered
<1>1. PICK keys, old : keys = Matching(s, c) /\ old = Telling(s, c)
  OBVIOUS
<1>2. PICK r : r = [pc |-> "clearing", store |-> s, keys |-> keys, old |-> old]
  OBVIOUS
<1>3. query' = [query EXCEPT ![q] = r]
  BY <1>1, <1>2
<1>4. query'[q] = r
  BY <1>3 DEF ReportsInv
<1>5. \A x \in old : x \in Queries /\ Answered(x) /\ query'[x] = query[x]
  <2>1. \A x \in old : x \in Queries /\ Answered(x)
    BY <1>1, Told
  <2> QED BY <2>1, <1>9, <1>3 DEF ReportsInv
<1>6. QueryHolds(q)'
  <2>1. query'[q].pc = r.pc /\ query'[q].store = s /\ query'[q].old = old
        /\ \A x \in old : query'[x].pc = "answered"
    BY <1>2, <1>4, <1>5 DEF Answered, Stage
  <2>2. r.pc \in {"clearing", "emptying"}
        /\ (r.pc = "emptying" => DOMAIN r = {"pc", "store", "at", "old"} /\ r.at \in 1 .. 5)
    BY <1>2
  <2>3. \A x \in old : x \in Queries
    BY <1>5
  <2> QED BY <2>1, <2>2, <2>3, <1>4 DEF QueryHolds, Answered, Stage
<1>7. \A t \in Stores : \A k \in DOMAIN cache[t] :
        Fresh(k) /\ cache[t][k].value.by \in old => t = s /\ k \in keys
  BY <1>1, Told DEF Matching
<1>8. ClearingHolds(q)'
  <2>1. query'[q].store = s /\ query'[q].old = old /\ query'[q].pc = r.pc
    BY <1>2, <1>4
  <2>2. UNCHANGED cache
    OBVIOUS
  <2> QED BY <2>1, <2>2, <1>2, <1>4, <1>7 DEF ClearingHolds, Stage
<1> QED BY <1>9, <1>3, <1>6, <1>8, QueryMoves

LEMMA ClearOwnerBegins ==
  ASSUME ReportsInv, NEW q \in Queries, Stage(q, "unsent"), UNCHANGED <<cache, purged>>,
         NEW s \in Stores,
         query' = [query EXCEPT ![q] =
            [pc |-> "emptying", store |-> s, at |-> 1, old |-> Telling(s, Owner)]]
  PROVE  ReportsInv'
<1>9. ~Answered(q)
  BY DEF Stage, Answered
<1>1. PICK old : old = Telling(s, Owner)
  OBVIOUS
<1>2. PICK r : r = [pc |-> "emptying", store |-> s, at |-> 1, old |-> old]
  OBVIOUS
<1>3. query' = [query EXCEPT ![q] = r]
  BY <1>1, <1>2
<1>4. query'[q] = r
  BY <1>3 DEF ReportsInv
<1>5. \A x \in old : x \in Queries /\ Answered(x) /\ query'[x] = query[x]
  <2>1. \A x \in old : x \in Queries /\ Answered(x)
    BY <1>1, Told
  <2> QED BY <2>1, <1>9, <1>3 DEF ReportsInv
<1>6. QueryHolds(q)'
  <2>1. query'[q].pc = r.pc /\ query'[q].store = s /\ query'[q].old = old
        /\ \A x \in old : query'[x].pc = "answered"
    BY <1>2, <1>4, <1>5 DEF Answered, Stage
  <2>2. r.pc \in {"clearing", "emptying"}
        /\ (r.pc = "emptying" => DOMAIN r = {"pc", "store", "at", "old"} /\ r.at \in 1 .. 5)
    BY <1>2
  <2>3. \A x \in old : x \in Queries
    BY <1>5
  <2> QED BY <2>1, <2>2, <2>3, <1>4 DEF QueryHolds, Answered, Stage
<1>7. \A t \in Stores : \A k \in DOMAIN cache[t] :
        Fresh(k) /\ cache[t][k].value.by \in old =>
          t = s /\ \E n \in 1 .. 5 : OwnerKeys[n] = k
  BY <1>1, Told, OwnersKeys
<1>8. ClearingHolds(q)'
  <2>1. query'[q].store = s /\ query'[q].old = old /\ query'[q].pc = r.pc
    BY <1>2, <1>4
  <2>2. UNCHANGED cache
    OBVIOUS
  <2> QED BY <2>1, <2>2, <1>2, <1>4, <1>7 DEF ClearingHolds, Stage
<1> QED BY <1>9, <1>3, <1>6, <1>8, QueryMoves

\* The report of q is stored and answers it.
LEMMA StoreKeeps ==
  ASSUME ReportsInv, NEW q \in Queries, Store(q)
  PROVE  ReportsInv'
<1>1. Stage(q, "storing") /\ ~Answered(q) /\ UNCHANGED purged
  BY DEF Store, Stage, Answered
<1>2. PICK a \in Questions, s \in Stores :
        /\ a = query[q].ask /\ s = query[q].store /\ a.about # "me"
        /\ q \notin query[q].purged /\ query[q].value.by = q
        /\ "stored" \in DOMAIN query[q].value
        /\ DOMAIN query[q] = {"pc", "ask", "store", "asked", "purged", "value"}
  BY <1>1 DEF ReportsInv, QueryHolds
<1>13. PICK key, value, until, r :
        /\ key = Key(a) /\ value = [query[q].value EXCEPT !.stored = now]
        /\ r = [query[q] EXCEPT !.pc = "answered"] /\ until = now + Ttl(a)
  OBVIOUS
<1>14. cache' = [cache EXCEPT ![s] =
                [k \in DOMAIN cache[s] \cup {key} |->
                    IF k = key THEN [value |-> value, until |-> until] ELSE cache[s][k]]]
  <2>1. CacheSet(s, key, value, Ttl(a))
    BY <1>2, <1>13 DEF Store
  <2> QED BY <2>1, <1>13 DEF CacheSet
<1>15. query' = [query EXCEPT ![q] = r]
  BY <1>13 DEF Store
<1>3. /\ key = Key(a) /\ value = [query[q].value EXCEPT !.stored = now]
      /\ r = [query[q] EXCEPT !.pc = "answered"]
      /\ cache' = [cache EXCEPT ![s] =
                [k \in DOMAIN cache[s] \cup {key} |->
                    IF k = key THEN [value |-> value, until |-> until] ELSE cache[s][k]]]
      /\ query' = [query EXCEPT ![q] = r]
  BY <1>13, <1>14, <1>15
<1>4. value.by = q
  BY <1>2, <1>3
<1>5. /\ DOMAIN query' = Queries /\ DOMAIN cache' = Stores
      /\ query'[q] = r /\ \A x \in Queries : x # q => query'[x] = query[x]
      /\ \A t \in Stores : t # s => cache'[t] = cache[t]
      /\ DOMAIN cache'[s] = DOMAIN cache[s] \cup {key}
      /\ cache'[s][key].value = value
      /\ \A k \in DOMAIN cache[s] : k # key => cache'[s][k] = cache[s][k]
  BY <1>3 DEF ReportsInv
<1>6. /\ r.pc = "answered" /\ r.ask = a /\ r.store = s
      /\ r.purged = query[q].purged /\ r.value = query[q].value
  BY <1>2, <1>3
<1>7. \A x \in Queries : Answered(x) => Answered(x)' /\ query'[x] = query[x]
  BY <1>1, <1>5 DEF Answered, Stage
<1>8. \A t \in Stores : \A k \in DOMAIN cache'[t] :
        \/ k \in DOMAIN cache[t] /\ cache'[t][k] = cache[t][k]
        \/ t = s /\ k = key /\ cache'[t][k].value.by = q
  BY <1>4, <1>5
<1>9. CacheHolds'
  <2>1. Answered(q)' /\ query'[q].store = s /\ Key(query'[q].ask) = key
    BY <1>3, <1>5, <1>6 DEF Answered, Stage
  <2>2. \A t \in Stores : \A k \in DOMAIN cache[t] :
          \E x \in Queries : x = cache[t][k].value.by /\ Answered(x)
                /\ query[x].store = t /\ Key(query[x].ask) = k
    BY DEF ReportsInv, CacheHolds
  <2>3. \A t \in Stores : \A k \in DOMAIN cache[t] :
          \E x \in Queries : x = cache[t][k].value.by /\ query'[x].pc = "answered"
                /\ query'[x].store = t /\ Key(query'[x].ask) = k
    BY <1>7, <2>2 DEF Answered, Stage
  <2>4. query'[q].pc = "answered" /\ query'[q].store = s /\ Key(query'[q].ask) = key
    BY <2>1 DEF Answered, Stage
  <2>5. \A t \in Stores : \A k \in DOMAIN cache'[t] :
          \E x \in Queries : x = cache'[t][k].value.by /\ query'[x].pc = "answered"
                /\ query'[x].store = t /\ Key(query'[x].ask) = k
    BY <1>8, <2>3, <2>4
  <2> QED BY <2>5 DEF CacheHolds, Answered, Stage
<1>10. ASSUME NEW x \in Queries
       PROVE  QueryHolds(x)'
  <2>1. CASE x = q
    BY <2>1, <1>2, <1>5, <1>6 DEF QueryHolds, Stage
  <2>2. CASE x # q
    BY <2>2, <1>5, <1>7 DEF ReportsInv, QueryHolds, Stage
  <2> QED BY <2>1, <2>2
<1>11. ASSUME NEW x \in Queries
       PROVE  ClearingHolds(x)'
  <2>1. CASE x = q
    BY <2>1, <1>5, <1>6, NotClearing
  <2>2. CASE x # q
    <3>1. query'[x] = query[x] /\ ClearingHolds(x) /\ QueryHolds(x)
      BY <2>2, <1>5 DEF ReportsInv
    <3>2. Stage(x, "clearing") \/ Stage(x, "emptying") => q \notin query[x].old
      BY <3>1, <1>1 DEF QueryHolds
    <3> QED BY <3>1, <3>2, <1>8 DEF ClearingHolds, Stage
  <2> QED BY <2>1, <2>2
<1>12. PurgedHolds'
  <2>1. q \notin purged /\ UNCHANGED purged
    BY <1>1 DEF ReportsInv, PurgedHolds
  <2>2. \A x \in purged : x \in Queries /\ Answered(x)'
    BY <1>7 DEF ReportsInv, PurgedHolds
  <2>3. \A t \in Stores : \A k \in DOMAIN cache'[t] :
          Fresh(k) => cache'[t][k].value.by \notin purged
    BY <1>8, <2>1 DEF ReportsInv, PurgedHolds
  <2> QED BY <2>1, <2>2, <2>3 DEF PurgedHolds
<1> QED BY <1>5, <1>9, <1>10, <1>11, <1>12 DEF ReportsInv

\* A clearing removes keys from a store; what it has removed counts as purged
\* when it ends.
LEMMA KeysRemoved ==
  ASSUME ReportsInv, NEW q \in Queries, ~Answered(q),
         NEW s \in Stores, NEW keys, CacheDelete(s, keys),
         NEW r, query' = [query EXCEPT ![q] = r],
         NEW gone, purged' = purged \cup gone,
         \A x \in gone : x \in Queries /\ Answered(x),
         \A t \in Stores : \A k \in DOMAIN cache'[t] :
            Fresh(k) => cache'[t][k].value.by \notin gone,
         QueryHolds(q)', ClearingHolds(q)'
  PROVE  ReportsInv'
<1>1. /\ DOMAIN query' = Queries /\ DOMAIN cache' = Stores
      /\ \A x \in Queries : x # q => query'[x] = query[x]
  BY DEF ReportsInv, CacheDelete
<1>2. \A t \in Stores : \A k \in DOMAIN cache'[t] : k \in DOMAIN cache[t] /\ cache'[t][k] = cache[t][k]
  BY DEF ReportsInv, CacheDelete
<1>3. \A x \in Queries : Answered(x) => Answered(x)' /\ query'[x] = query[x]
  BY <1>1 DEF Answered, Stage
<1>4. CacheHolds'
  <2>1. \A t \in Stores : \A k \in DOMAIN cache[t] :
          \E x \in Queries : x = cache[t][k].value.by /\ Answered(x)
                /\ query[x].store = t /\ Key(query[x].ask) = k
    BY DEF ReportsInv, CacheHolds
  <2>2. \A t \in Stores : \A k \in DOMAIN cache[t] :
          \E x \in Queries : x = cache[t][k].value.by /\ query'[x].pc = "answered"
                /\ query'[x].store = t /\ Key(query'[x].ask) = k
    BY <1>3, <2>1 DEF Answered, Stage
  <2>3. \A t \in Stores : \A k \in DOMAIN cache'[t] :
          \E x \in Queries : x = cache'[t][k].value.by /\ query'[x].pc = "answered"
                /\ query'[x].store = t /\ Key(query'[x].ask) = k
    BY <1>2, <2>2
  <2> QED BY <2>3 DEF CacheHolds, Answered, Stage
<1>5. ASSUME NEW x \in Queries, x # q
      PROVE  QueryHolds(x)'
  BY <1>1, <1>3, <1>5 DEF ReportsInv, QueryHolds, Stage
<1>6. ASSUME NEW x \in Queries, x # q
      PROVE  ClearingHolds(x)'
  <2>1. query'[x] = query[x] /\ ClearingHolds(x)
    BY <1>1, <1>6 DEF ReportsInv
  <2> QED BY <2>1, <1>2 DEF ClearingHolds, Stage
<1>7. PurgedHolds'
  <2>1. \A x \in purged' : x \in Queries /\ Answered(x)'
    BY <1>3 DEF ReportsInv, PurgedHolds
  <2>2. \A t \in Stores : \A k \in DOMAIN cache'[t] :
          Fresh(k) => cache'[t][k].value.by \notin purged
    BY <1>2 DEF ReportsInv, PurgedHolds
  <2> QED BY <2>1, <2>2 DEF PurgedHolds
<1> QED BY <1>1, <1>4, <1>5, <1>6, <1>7 DEF ReportsInv

LEMMA ClearCompanyKeeps ==
  ASSUME ReportsInv, NEW q \in Queries, ClearCompany(q)
  PROVE  ReportsInv'
<1>1. CASE Stage(q, "unsent")
  <2>1. PICK c \in Companies, s \in Stores :
          query' = [query EXCEPT ![q] =
            [pc |-> "clearing", store |-> s, keys |-> Matching(s, c), old |-> Telling(s, c)]]
    BY <1>1 DEF ClearCompany, Stage
  <2>2. UNCHANGED <<cache, purged>>
    BY <1>1 DEF ClearCompany, Stage
  <2> QED BY <1>1, <2>1, <2>2, ClearCompanyBegins
<1>2. CASE Stage(q, "clearing")
  <2>8. PICK s \in Stores : s = query[q].store
    BY <1>2 DEF ReportsInv, QueryHolds
  <2>9. PICK keys, gone : keys = query[q].keys /\ gone = query[q].old
    OBVIOUS
  <2>1. s = query[q].store /\ keys = query[q].keys /\ gone = query[q].old
    BY <2>8, <2>9
  <2>2. PICK r : r = [pc |-> "cleared"]
    OBVIOUS
  <2>3. CacheDelete(s, keys) /\ purged' = purged \cup gone /\ query' = [query EXCEPT ![q] = r]
        /\ ~Answered(q)
    BY <1>2, <2>1, <2>2 DEF ClearCompany, Stage, Answered
  <2>4. query'[q] = r /\ r.pc = "cleared"
    BY <2>2, <2>3 DEF ReportsInv
  <2>5. QueryHolds(q)' /\ ClearingHolds(q)'
    BY <2>4, NotClearing DEF QueryHolds, Stage
  <2>6. \A x \in gone : x \in Queries /\ Answered(x)
    BY <1>2, <2>1 DEF ReportsInv, QueryHolds
  <2>7. \A t \in Stores : \A k \in DOMAIN cache'[t] :
            Fresh(k) => cache'[t][k].value.by \notin gone
    <3>1. \A t \in Stores : \A k \in DOMAIN cache'[t] :
            k \in DOMAIN cache[t] /\ cache'[t][k] = cache[t][k] /\ (t = s => k \notin keys)
      BY <2>3 DEF ReportsInv, CacheDelete
    <3>2. \A t \in Stores : \A k \in DOMAIN cache[t] :
            Fresh(k) /\ cache[t][k].value.by \in gone => t = s /\ k \in keys
      BY <1>2, <2>1 DEF ReportsInv, ClearingHolds
    <3> QED BY <3>1, <3>2
  <2> QED BY <2>3, <2>5, <2>6, <2>7, KeysRemoved
<1> QED BY <1>1, <1>2 DEF ClearCompany

LEMMA ClearOwnerKeeps ==
  ASSUME ReportsInv, NEW q \in Queries, ClearOwner(q)
  PROVE  ReportsInv'
<1>1. CASE Stage(q, "unsent")
  <2>1. PICK s \in Stores :
          query' = [query EXCEPT ![q] =
            [pc |-> "emptying", store |-> s, at |-> 1, old |-> Telling(s, Owner)]]
    BY <1>1 DEF ClearOwner, Stage
  <2>2. UNCHANGED <<cache, purged>>
    BY <1>1 DEF ClearOwner, Stage
  <2> QED BY <1>1, <2>1, <2>2, ClearOwnerBegins
<1>2. CASE Stage(q, "emptying")
  <2>11. PICK s \in Stores, n \in 1 .. 5 : s = query[q].store /\ n = query[q].at
    BY <1>2 DEF ReportsInv, QueryHolds
  <2>12. PICK old : old = query[q].old
    OBVIOUS
  <2>1. s = query[q].store /\ n = query[q].at /\ old = query[q].old
    BY <2>11, <2>12
  <2>2. PICK keys : keys = {OwnerKeys[n]}
    OBVIOUS
  <2>3. CacheDelete(s, keys) /\ ~Answered(q)
    BY <1>2, <2>1, <2>2 DEF ClearOwner, Stage, Answered
  <2>4. \A x \in old : x \in Queries /\ Answered(x)
    BY <1>2, <2>1 DEF ReportsInv, QueryHolds
  <2>5. \A t \in Stores : \A k \in DOMAIN cache'[t] :
            k \in DOMAIN cache[t] /\ cache'[t][k] = cache[t][k] /\ (t = s => k # OwnerKeys[n])
    BY <2>2, <2>3 DEF ReportsInv, CacheDelete
  <2>6. \A t \in Stores : \A k \in DOMAIN cache[t] :
            Fresh(k) /\ cache[t][k].value.by \in old => t = s /\ \E m \in n .. 5 : OwnerKeys[m] = k
    BY <1>2, <2>1 DEF ReportsInv, ClearingHolds
  <2>7. \A t \in Stores : \A k \in DOMAIN cache'[t] :
            Fresh(k) /\ cache'[t][k].value.by \in old =>
                t = s /\ \E m \in n + 1 .. 5 : OwnerKeys[m] = k
    <3>1. \A m \in n .. 5 : m = n \/ m \in n + 1 .. 5
      OBVIOUS
    <3> QED BY <3>1, <2>5, <2>6
  <2>8. Len(OwnerKeys) = 5
    BY DEF OwnerKeys
  <2>9. CASE n < 5
    <3>1. PICK r : r = [query[q] EXCEPT !.at = n + 1]
      OBVIOUS
    <3>2. query' = [query EXCEPT ![q] = r] /\ purged' = purged \cup {}
      BY <1>2, <2>1, <2>8, <2>9, <3>1 DEF ClearOwner, Stage
    <3>3. query'[q] = r
      BY <3>2 DEF ReportsInv
    <3>4. DOMAIN query[q] = {"pc", "store", "at", "old"}
      BY <1>2 DEF ReportsInv, QueryHolds
    <3>5. /\ DOMAIN r = {"pc", "store", "at", "old"} /\ r.pc = "emptying" /\ r.store = s
          /\ r.at = n + 1 /\ r.old = old
      BY <1>2, <2>1, <3>1, <3>4 DEF Stage
    <3>6. \A x \in old : x \in Queries /\ Answered(x)'
      BY <2>3, <2>4, <3>2 DEF ReportsInv, Answered, Stage
    <3>7. n + 1 \in 1 .. 5
      BY <2>9
    <3>8. QueryHolds(q)'
      BY <3>3, <3>5, <3>6, <3>7 DEF QueryHolds, Stage
    <3>9. ClearingHolds(q)'
      BY <2>7, <3>3, <3>5 DEF ClearingHolds, Stage
    <3>10. PICK gone : gone = {}
      OBVIOUS
    <3>11. /\ purged' = purged \cup gone
           /\ \A x \in gone : x \in Queries /\ Answered(x)
           /\ \A t \in Stores : \A k \in DOMAIN cache'[t] :
                Fresh(k) => cache'[t][k].value.by \notin gone
      BY <3>2, <3>10
    <3> QED BY <2>3, <3>2, <3>8, <3>9, <3>11, KeysRemoved
  <2>10. CASE ~(n < 5)
    <3>1. PICK r : r = [pc |-> "cleared"]
      OBVIOUS
    <3>2. query' = [query EXCEPT ![q] = r] /\ purged' = purged \cup old
      BY <1>2, <2>1, <2>8, <2>10, <3>1 DEF ClearOwner, Stage
    <3>3. query'[q] = r /\ r.pc = "cleared"
      BY <3>1, <3>2 DEF ReportsInv
    <3>4. QueryHolds(q)' /\ ClearingHolds(q)'
      BY <3>3, NotClearing DEF QueryHolds, Stage
    <3>5. ~\E m \in n + 1 .. 5 : TRUE
      BY <2>10
    <3>6. \A t \in Stores : \A k \in DOMAIN cache'[t] :
            Fresh(k) => cache'[t][k].value.by \notin old
      BY <2>7, <3>5
    <3> QED BY <2>3, <2>4, <3>2, <3>4, <3>6, KeysRemoved
  <2> QED BY <2>9, <2>10
<1> QED BY <1>1, <1>2 DEF ClearOwner

LEMMA ReportsKeep == ReportsInv /\ [Next]_vars => ReportsInv'
<1> SUFFICES ASSUME ReportsInv, [Next]_vars
             PROVE  ReportsInv'
  OBVIOUS
<1>1. ASSUME NEW q \in Queries, Report(q)
      PROVE  ReportsInv'
  BY <1>1, AskKeeps, CountKeeps, StoreKeeps, FailKeeps, ClearCompanyKeeps, ClearOwnerKeeps
     DEF Report, MyAnalytics, MyDashboard, TeamAnalytics, AdminDashboard, PlatformAnalytics,
         OwnerDashboard
<1>2. CASE UNCHANGED reportVars
  BY <1>2 DEF reportVars, ReportsInv, CacheHolds, QueryHolds, ClearingHolds, PurgedHolds,
              Answered, Stage
<1>3. UNCHANGED vars => UNCHANGED reportVars
  BY DEF vars
<1> QED BY <1>1, <1>2, <1>3 DEF Next, ReportsNext

LEMMA ReportsStart == ReportsInit => ReportsInv
<1> SUFFICES ASSUME ReportsInit
             PROVE  ReportsInv
  OBVIOUS
<1>1. \A s \in Stores : DOMAIN cache[s] = {}
  BY EmptySeq, LenProperties DEF ReportsInit
<1> QED BY <1>1 DEF ReportsInit, ReportsInv, CacheHolds, QueryHolds, ClearingHolds, PurgedHolds,
                    Answered, Stage

\* Who asks for the report of a team, or for a report of the owner, after it
\* was cleared is not given one that was stored when the clearing began
\* (company/analytics.py:543, owner/analytics.py:297).
THEOREM ClearedStaysCleared == Spec => []ClearedIsFresh
<1>1. Init => ReportsInv
  BY ReportsStart DEF Init
<1>2. ReportsInv => ClearedIsFresh
  BY DEF ReportsInv, QueryHolds, ClearedIsFresh, Answered, Stage, AboutShared
<1> QED BY <1>1, <1>2, ReportsKeep, PTL DEF Spec

-----------------------------------------------------------------------------
(* Reports: plans *)

Measures ==
    {"call", "lead", "deal", "task", "funnelLeads", "funnel", "pipeline",
     "callsTrend", "revenueTrend", "hours"}

\* Steps, each of one of the given periods.
StepsOf(s, ps) == s \in Seq(ps \X Measures)

\* Calls are counted of a period before those of the periods counted after it.
Ordered(s) ==
    \A i, k \in 1 .. Len(s) :
        s[i][2] = "call" /\ s[k][2] = "call" /\ <<s[i][1], s[k][1]>> \in CountedAfter => i < k

PartOfPlan(s, ps) == StepsOf(s, ps) /\ Ordered(s) /\ Len(s) \in Nat \ {0}

LEMMA InSeq ==
  ASSUME NEW S, NEW T, NEW s \in Seq(S), \A i \in 1 .. Len(s) : s[i] \in T
  PROVE  s \in Seq(T)
OBVIOUS

LEMMA AllOfSteps ==
  ASSUME NEW p \in Periods, NEW kinds \in Seq(Measures), kinds # <<>>
  PROVE  PartOfPlan(AllOf(p, kinds), {p})
<1>1. PICK n \in Nat : n = Len(kinds) /\ DOMAIN kinds = 1 .. n /\ n # 0
  BY LenProperties, EmptySeq
<1>2. PICK s : s = AllOf(p, kinds)
  OBVIOUS
<1>3. s = [i \in 1 .. n |-> <<p, kinds[i]>>] /\ \A i \in 1 .. n : kinds[i] \in Measures
  BY <1>1, <1>2, ElementOfSeq DEF AllOf
<1>4. s \in [1 .. n -> {p} \X Measures]
  BY <1>3
<1>5. s \in Seq({p} \X Measures) /\ Len(s) = n
  BY <1>4
<1>6. Ordered(s)
  BY <1>3, <1>5 DEF Ordered, CountedAfter
<1> QED BY <1>1, <1>2, <1>5, <1>6 DEF PartOfPlan, StepsOf

\* No calls of the first are of a period that is to come after one of the second.
Follows(s, t) ==
    \A i \in 1 .. Len(s), k \in 1 .. Len(t) :
        s[i][2] = "call" /\ t[k][2] = "call" => <<t[k][1], s[i][1]>> \notin CountedAfter

NoneEarlier(A, B) == \A p \in A, r \in B : <<r, p>> \notin CountedAfter

LEMMA Joined ==
  ASSUME NEW A \in SUBSET Periods, NEW B \in SUBSET Periods, NEW s, NEW t,
         PartOfPlan(s, A), PartOfPlan(t, B), Follows(s, t)
  PROVE  PartOfPlan(s \o t, A \cup B)
<1>1. PICK T : T = (A \cup B) \X Measures
  OBVIOUS
<1>2. s \in Seq(T) /\ t \in Seq(T)
  <2>1. A \X Measures \subseteq T /\ B \X Measures \subseteq T
    BY <1>1
  <2>2. s \in Seq(A \X Measures) /\ t \in Seq(B \X Measures)
    BY DEF PartOfPlan, StepsOf
  <2>3. /\ \A i \in 1 .. Len(s) : s[i] \in T
        /\ \A i \in 1 .. Len(t) : t[i] \in T
    BY <2>1, <2>2, ElementOfSeq
  <2> QED BY <2>2, <2>3, InSeq
<1>3. PICK m \in Nat \ {0}, n \in Nat \ {0} : m = Len(s) /\ n = Len(t)
  BY DEF PartOfPlan
<1>4. PICK u : u = s \o t
  OBVIOUS
<1>5. /\ u \in Seq(T) /\ Len(u) = m + n
      /\ \A i \in 1 .. m + n : u[i] = IF i <= m THEN s[i] ELSE t[i - m]
  BY <1>2, <1>3, <1>4, ConcatProperties
<1>6. ASSUME NEW i \in 1 .. m + n, NEW k \in 1 .. m + n,
             u[i][2] = "call", u[k][2] = "call", <<u[i][1], u[k][1]>> \in CountedAfter
      PROVE  i < k
  <2>1. CASE i <= m /\ k <= m
    <3>1. u[i] = s[i] /\ u[k] = s[k] /\ i \in 1 .. m /\ k \in 1 .. m
      BY <1>5, <2>1
    <3> QED BY <3>1, <1>3, <1>6 DEF PartOfPlan, Ordered
  <2>2. CASE i > m /\ k > m
    <3>1. u[i] = t[i - m] /\ u[k] = t[k - m] /\ i - m \in 1 .. n /\ k - m \in 1 .. n
      BY <1>5, <2>2
    <3>2. i - m < k - m
      BY <3>1, <1>3, <1>6 DEF PartOfPlan, Ordered
    <3> QED BY <3>2
  <2>3. CASE i <= m /\ k > m
    BY <2>3
  <2>4. CASE i > m /\ k <= m
    <3>2. i - m \in 1 .. n /\ k \in 1 .. m /\ ~(i <= m)
      BY <2>4
    <3>1. u[i] = t[i - m] /\ u[k] = s[k] /\ i - m \in 1 .. n /\ k \in 1 .. m
      BY <1>5, <2>4, <3>2
    <3> QED BY <3>1, <1>3, <1>6 DEF Follows
  <2> QED BY <2>1, <2>2, <2>3, <2>4
<1>7. Ordered(u)
  BY <1>5, <1>6 DEF Ordered
<1>8. StepsOf(u, A \cup B)
  BY <1>1, <1>5 DEF StepsOf
<1>9. Len(u) \in Nat \ {0}
  BY <1>5
<1> QED BY <1>4, <1>7, <1>8, <1>9 DEF PartOfPlan

LEMMA JoinedLater ==
  ASSUME NEW A \in SUBSET Periods, NEW B \in SUBSET Periods, NEW s, NEW t,
         PartOfPlan(s, A), PartOfPlan(t, B), NoneEarlier(A, B)
  PROVE  PartOfPlan(s \o t, A \cup B)
<1>1. /\ \A i \in 1 .. Len(s) : s[i] \in A \X Measures
      /\ \A i \in 1 .. Len(t) : t[i] \in B \X Measures
  BY ElementOfSeq DEF PartOfPlan, StepsOf
<1>2. /\ \A i \in 1 .. Len(s) : s[i][1] \in A
      /\ \A i \in 1 .. Len(t) : t[i][1] \in B
  BY <1>1
<1>3. Follows(s, t)
  BY <1>2 DEF Follows, NoneEarlier
<1> QED BY <1>3, Joined

PlanHolds(s) == PartOfPlan(s, Periods)

LEMMA Widened ==
  ASSUME NEW A \in SUBSET Periods, NEW s, PartOfPlan(s, A)
  PROVE  PlanHolds(s)
<1>1. A \X Measures \subseteq Periods \X Measures
  OBVIOUS
<1>2. s \in Seq(A \X Measures)
  BY DEF PartOfPlan, StepsOf
<1>3. \A i \in 1 .. Len(s) : s[i] \in Periods \X Measures
  BY <1>1, <1>2, ElementOfSeq
<1>4. s \in Seq(Periods \X Measures)
  BY <1>2, <1>3, InSeq
<1> QED BY <1>4 DEF PlanHolds, PartOfPlan, StepsOf

LEMMA CountedKinds ==
  /\ Counted \in Seq(Measures) /\ Counted # <<>>
  /\ CountedOfAll \in Seq(Measures) /\ CountedOfAll # <<>>
<1>1. /\ Counted \in Seq({"call", "lead", "deal", "task"}) /\ Counted # <<>>
      /\ CountedOfAll \in Seq({"call", "lead", "deal"}) /\ CountedOfAll # <<>>
  BY ReportsAssumption
<1>2. /\ {"call", "lead", "deal", "task"} \subseteq Measures
      /\ {"call", "lead", "deal"} \subseteq Measures
  BY DEF Measures
<1>3. \A i \in 1 .. Len(Counted) : Counted[i] \in {"call", "lead", "deal", "task"}
  BY <1>1, ElementOfSeq
<1>4. \A i \in 1 .. Len(CountedOfAll) : CountedOfAll[i] \in {"call", "lead", "deal"}
  BY <1>1, ElementOfSeq
<1>5. \A i \in 1 .. Len(Counted) : Counted[i] \in Measures
  BY <1>2, <1>3
<1>6. \A i \in 1 .. Len(CountedOfAll) : CountedOfAll[i] \in Measures
  BY <1>2, <1>4
<1>7. Counted \in Seq(Measures)
  BY <1>1, <1>5, InSeq
<1>8. CountedOfAll \in Seq(Measures)
  BY <1>1, <1>6, InSeq
<1> QED BY <1>1, <1>7, <1>8

LEMMA CompanyPlan ==
  ASSUME NEW p \in Periods
  PROVE  PartOfPlan(OperatorAnalytics(p), {p}) /\ PartOfPlan(PlatformStats(p), {p})
BY CountedKinds, AllOfSteps DEF OperatorAnalytics, PlatformStats

LEMMA DashboardSteps == PartOfPlan(DashboardPlan, {"today", "week", "month"})
<1>1. PICK s, t, u : /\ s = OperatorAnalytics("today") /\ t = OperatorAnalytics("week")
                     /\ u = OperatorAnalytics("month")
  OBVIOUS
<1>2. PICK A \in SUBSET Periods, B \in SUBSET Periods, C \in SUBSET Periods :
        A = {"today"} /\ B = {"week"} /\ C = {"month"}
  BY DEF Periods
<1>3. PICK D \in SUBSET Periods : D = A \cup B
  OBVIOUS
<1>4. PartOfPlan(s, A) /\ PartOfPlan(t, B) /\ PartOfPlan(u, C)
  BY <1>1, <1>2, CompanyPlan DEF Periods
<1>5. NoneEarlier(A, B) /\ NoneEarlier(D, C)
  BY <1>2, <1>3 DEF NoneEarlier, CountedAfter
<1>6. PartOfPlan(s \o t, D)
  BY <1>3, <1>4, <1>5, JoinedLater
<1>7. PartOfPlan((s \o t) \o u, D \cup C)
  BY <1>4, <1>5, <1>6, JoinedLater
<1>8. D \cup C = {"today", "week", "month"}
  BY <1>2, <1>3
<1> QED BY <1>1, <1>7, <1>8 DEF DashboardPlan

LEMMA AdminSteps == PlanHolds(AdminPlan)
<1>1. PICK s, t, e1, e2, e3, e4, e5, e6 :
        /\ s = DashboardPlan /\ t = OperatorAnalytics("year")
        /\ e1 = <<"month", "funnelLeads">> /\ e2 = <<"month", "funnel">>
        /\ e3 = <<"month", "pipeline">> /\ e4 = <<"month", "callsTrend">>
        /\ e5 = <<"month", "revenueTrend">> /\ e6 = <<"month", "hours">>
  OBVIOUS
<1>2. PICK u : u = <<e1, e2, e3, e4, e5, e6>>
  OBVIOUS
<1>3. PICK A \in SUBSET Periods, B \in SUBSET Periods, C \in SUBSET Periods :
        A = {"today", "week", "month"} /\ B = {"year"} /\ C = {"month"}
  BY DEF Periods
<1>4. PartOfPlan(s, A) /\ PartOfPlan(t, B)
  BY <1>1, <1>3, DashboardSteps, CompanyPlan DEF Periods
<1>5. PICK T : T = C \X Measures
  OBVIOUS
<1>6. /\ e1 \in T /\ e2 \in T /\ e3 \in T /\ e4 \in T /\ e5 \in T /\ e6 \in T
      /\ e1[2] # "call" /\ e2[2] # "call" /\ e3[2] # "call"
      /\ e4[2] # "call" /\ e5[2] # "call" /\ e6[2] # "call"
  BY <1>1, <1>3, <1>5 DEF Measures
<1>7. u \in Seq(T) /\ Len(u) = 6
  BY <1>2, <1>6
<1>8. \A i \in 1 .. Len(u) : u[i][2] # "call"
  <2>1. \A i \in 1 .. 6 : i = 1 \/ i = 2 \/ i = 3 \/ i = 4 \/ i = 5 \/ i = 6
    OBVIOUS
  <2>2. u[1] = e1 /\ u[2] = e2 /\ u[3] = e3 /\ u[4] = e4 /\ u[5] = e5 /\ u[6] = e6
    BY <1>2
  <2> QED BY <1>6, <1>7, <2>1, <2>2
<1>9. PartOfPlan(u, C)
  BY <1>5, <1>7, <1>8 DEF PartOfPlan, StepsOf, Ordered
<1>10. NoneEarlier(A, B)
  BY <1>3 DEF NoneEarlier, CountedAfter
<1>11. PICK D \in SUBSET Periods : D = A \cup B
  OBVIOUS
<1>12. PartOfPlan(s \o t, D)
  BY <1>4, <1>10, <1>11, JoinedLater
<1>13. Follows(s \o t, u)
  BY <1>8 DEF Follows
<1>14. PICK E \in SUBSET Periods : E = D \cup C
  OBVIOUS
<1>15. PartOfPlan((s \o t) \o u, E)
  BY <1>9, <1>12, <1>13, <1>14, Joined
<1>16. AdminPlan = (s \o t) \o u
  BY <1>1, <1>2 DEF AdminPlan
<1> QED BY <1>15, <1>16, Widened

LEMMA OwnerSteps == PlanHolds(OwnerPlan)
<1>1. PICK s, t, u, w : /\ s = PlatformStats("today") /\ t = PlatformStats("week")
                        /\ u = PlatformStats("month") /\ w = PlatformStats("year")
  OBVIOUS
<1>2. PICK A \in SUBSET Periods, B \in SUBSET Periods, C \in SUBSET Periods, D \in SUBSET Periods :
        A = {"today"} /\ B = {"week"} /\ C = {"month"} /\ D = {"year"}
  BY DEF Periods
<1>3. PartOfPlan(s, A) /\ PartOfPlan(t, B) /\ PartOfPlan(u, C) /\ PartOfPlan(w, D)
  BY <1>1, <1>2, CompanyPlan DEF Periods
<1>4. PICK E \in SUBSET Periods : E = A \cup B
  OBVIOUS
<1>5. PICK F \in SUBSET Periods : F = E \cup C
  OBVIOUS
<1>6. PICK G \in SUBSET Periods : G = F \cup D
  OBVIOUS
<1>7. NoneEarlier(A, B) /\ NoneEarlier(E, C) /\ NoneEarlier(F, D)
  BY <1>2, <1>4, <1>5 DEF NoneEarlier, CountedAfter
<1>8. PartOfPlan(s \o t, E)
  BY <1>3, <1>4, <1>7, JoinedLater
<1>9. PartOfPlan((s \o t) \o u, F)
  BY <1>3, <1>5, <1>7, <1>8, JoinedLater
<1>10. PartOfPlan(((s \o t) \o u) \o w, G)
  BY <1>3, <1>6, <1>7, <1>9, JoinedLater
<1>11. OwnerPlan = ((s \o t) \o u) \o w
  BY <1>1 DEF OwnerPlan
<1> QED BY <1>10, <1>11, Widened

\* Every question has a plan, which counts calls period by period in order.
LEMMA PlansHold ==
  ASSUME NEW a \in Questions
  PROVE  PlanHolds(Plan(a))
<1>1. Askable(a)
  BY ReportsAssumption
<1>2. ASSUME NEW p \in Periods
      PROVE  PlanHolds(OperatorAnalytics(p)) /\ PlanHolds(PlatformStats(p))
  <2>1. PICK A \in SUBSET Periods : A = {p}
    OBVIOUS
  <2> QED BY <2>1, CompanyPlan, Widened
<1>3. CASE a.about \in {"me", "team"}
  BY <1>1, <1>2, <1>3 DEF Plan, Askable
<1>4. CASE a.about = "platform"
  BY <1>1, <1>2, <1>4 DEF Plan, Askable
<1>5. CASE a.about = "operator"
  <2>1. PICK A \in SUBSET Periods : A = {"today", "week", "month"}
    BY DEF Periods
  <2>2. PlanHolds(DashboardPlan)
    BY <2>1, DashboardSteps, Widened
  <2> QED BY <1>5, <2>2 DEF Plan
<1>6. CASE a.about = "admin"
  BY <1>6, AdminSteps DEF Plan
<1>7. CASE a.about = "owner"
  BY <1>7, OwnerSteps DEF Plan
<1> QED BY <1>1, <1>3, <1>4, <1>5, <1>6, <1>7 DEF Askable

-----------------------------------------------------------------------------
(* Reports: days and keys *)

LEMMA DaysPass ==
  ASSUME NEW t \in Nat, NEW u \in Nat, t <= u
  PROVE  DayOf(t) \in Nat /\ DayOf(u) \in Nat /\ DayOf(t) <= DayOf(u)
<1>1. PICK k \in Nat \ {0} : k = TicksPerDay
  BY ReportsAssumption
<1>2. PICK d \in Nat, e \in Nat : d = t \div k /\ e = u \div k
  BY <1>1
<1>3. d * k <= t /\ t < (d + 1) * k /\ e * k <= u /\ u < (e + 1) * k
  BY <1>1, <1>2
<1>4. d <= e
  <2>1. SUFFICES ASSUME e + 1 <= d
                 PROVE  FALSE
    OBVIOUS
  <2>2. (e + 1) * k <= d * k
    BY <2>1
  <2> QED BY <1>3, <2>2
<1> QED BY <1>1, <1>2, <1>4 DEF DayOf

LEMMA DaysBegin ==
  ASSUME NEW t \in Nat, NEW u \in Nat, t <= u, u <= MaxTime, NEW p \in Periods
  PROVE  /\ DayOf(t) \in Days /\ DayOf(u) \in Days /\ DayOf(t) <= DayOf(u)
         /\ PeriodStart[p][DayOf(t)] \in Nat /\ PeriodStart[p][DayOf(u)] \in Nat
         /\ PeriodStart[p][DayOf(t)] <= PeriodStart[p][DayOf(u)]
<1>1. MaxTime \in Nat /\ PeriodStart \in [Periods -> [Days -> Days]]
  BY ReportsAssumption
<1>2. /\ DayOf(t) \in Nat /\ DayOf(u) \in Nat /\ DayOf(MaxTime) \in Nat
      /\ DayOf(t) <= DayOf(u) /\ DayOf(u) <= DayOf(MaxTime)
  BY <1>1, DaysPass
<1>3. DayOf(t) \in 0 .. DayOf(MaxTime) /\ DayOf(u) \in 0 .. DayOf(MaxTime)
  BY <1>2
<1>4. DayOf(t) \in Days /\ DayOf(u) \in Days
  BY <1>3 DEF Days, DayOf
<1>5. Days \subseteq Nat
  <2>1. MaxTime \div TicksPerDay \in Nat
    BY <1>2 DEF DayOf
  <2> QED BY <2>1 DEF Days
<1>6. PeriodStart[p][DayOf(t)] \in Days /\ PeriodStart[p][DayOf(u)] \in Days
  BY <1>1, <1>4
<1>7. PeriodStart[p][DayOf(t)] <= PeriodStart[p][DayOf(u)]
  BY <1>2, <1>4, ReportsAssumption
<1> QED BY <1>2, <1>4, <1>5, <1>6, <1>7

\* Who is given what is stored under a key asked the same question.
LEMMA KeysTell ==
  ASSUME NEW a \in Questions, NEW b \in Questions, a.about # "me", b.about # "me",
         Key(a) = Key(b)
  PROVE  Plan(a) = Plan(b) /\ Scope(a) = Scope(b) /\ Counts(a) = Counts(b) /\ Ttl(a) = Ttl(b)
<1>1. Askable(a) /\ Askable(b)
  BY ReportsAssumption
<1>2. ASSUME NEW x \in Questions, x.about # "me", Askable(x)
      PROVE  /\ x.about \in {"team", "platform"} => Key(x)[1] = "analytics" /\ Key(x)[2] = x.about
             /\ x.about \in {"operator", "admin", "owner"} => Key(x)[1] = "dashboard" /\ Key(x)[2] = x.about
             /\ x.about = "team" => Key(x)[3] = x.company /\ Key(x)[4] = x.period
             /\ x.about = "platform" => Key(x)[4] = x.period
             /\ x.about \in {"operator", "admin"} => Key(x)[3] = x.user
  BY DEF Key, TeamKey, PlatformKey, DashboardKey
<1>3. a.about = b.about
  BY <1>1, <1>2 DEF Askable
<1>4. /\ a.about = "team" => a.company = b.company /\ a.period = b.period
      /\ a.about = "platform" => a.period = b.period
      /\ a.about \in {"operator", "admin"} => a.user = b.user
  BY <1>1, <1>2, <1>3
<1>5. Plan(a) = Plan(b)
  BY <1>1, <1>3, <1>4 DEF Plan, Askable
<1>6. Scope(a) = Scope(b)
  BY <1>1, <1>3, <1>4 DEF Scope, Askable
<1> QED BY <1>3, <1>5, <1>6 DEF Counts, Ttl

-----------------------------------------------------------------------------
(* Reports: the invariant of those that are counted *)

\* Rows are as old as they can be, and the time has an end.
BornBefore ==
    /\ now \in 0 .. MaxTime
    /\ \A x \in Ids : Stands(x) => row[x].born <= now

\* What a statement of a report counts among rows.
Within(a, step, r, span) ==
    /\ r.kind = step[2]
    /\ r.company \in Scope(a)
    /\ Counts(a) \in {None, r.owner}
    /\ DayOf(r.born) \in span.from .. span.to

\* Each figure counts, of the rows that are as they were, those of a period
\* that was taken while the report was counted.
FiguresTrue(a, f, there, begun, end) ==
    \A step \in DOMAIN f : step[2] \in Kinds =>
        \E t \in begun .. end : \A e \in there :
            e[1] \in f[step] <=> Within(a, step, e[2], PeriodDates(step[1], t))

\* The calls that were counted are still there.
CallsStand(a, f, begun) ==
    \A step \in DOMAIN f : step[2] = "call" =>
        \A x \in f[step] :
            /\ x \in Ids /\ Stands(x) /\ row[x].kind = "call" /\ row[x].company \in Scope(a)
            /\ Counts(a) \in {None, row[x].owner}
            /\ DayOf(row[x].born) \in PeriodStart[step[1]][DayOf(begun)] .. DayOf(now)

\* How the rows were when the counting began.
ThereAt(there, begun) ==
    \A e \in there :
        e[1] \in Ids /\ e[2] \in Rows /\ e[2].live /\ e[2].born <= begun

\* The first n statements of the report have been executed.
CountedSoFar(a, n, span, f, there, begun) ==
    /\ begun \in 0 .. now
    /\ ThereAt(there, begun)
    /\ DOMAIN f = {Plan(a)[i] : i \in 1 .. n}
    /\ n > 0 => \E t \in begun .. now : span = PeriodDates(Plan(a)[n][1], t)
    /\ FiguresTrue(a, f, there, begun, now)
    /\ CallsStand(a, f, begun)
    /\ DayOf(begun) = DayOf(now) => PeriodsNest(f, DayOf(begun))

LEMMA StepsCount ==
  ASSUME NEW a \in Questions, NEW i \in 1 .. Len(Plan(a))
  PROVE  /\ Plan(a)[i][1] \in Periods /\ Plan(a)[i][2] \in Measures
         /\ Plan(a)[i] = <<Plan(a)[i][1], Plan(a)[i][2]>>
<1>1. PICK s : s = Plan(a)
  OBVIOUS
<1>2. s \in Seq(Periods \X Measures)
  BY <1>1, PlansHold DEF PlanHolds, PartOfPlan, StepsOf
<1>3. s[i] \in Periods \X Measures
  BY <1>1, <1>2, ElementOfSeq
<1> QED BY <1>1, <1>3

\* What a statement counts of the rows that are as they were.
LEMMA RowsCounted ==
  ASSUME NEW a, NEW step, NEW span, NEW f, NEW there, NEW begun, ThereAt(there, begun),
         step[2] \in Measures, step[2] \in Kinds, NEW e \in there, row[e[1]] = e[2]
  PROVE  e[1] \in Count(a, step, span, f) <=> Within(a, step, e[2], span)
<1>1. PICK x \in Ids, r \in Rows : x = e[1] /\ r = e[2] /\ r.live /\ row[x] = r
  BY DEF ThereAt
<1>2. PICK k \in {"call", "lead", "deal", "task"} : k = step[2]
  BY DEF Measures, Kinds
<1>3. PICK cs, u : cs = Scope(a) /\ u = Counts(a)
  OBVIOUS
<1>4. x \in Created(k, cs, u, span) <=> Within(a, step, r, span)
  BY <1>1, <1>2, <1>3 DEF Created, Within, Stands
<1>5. Live(x)
  BY <1>1 DEF Live, Stands
<1>6. CASE k = "call"
  BY <1>1, <1>2, <1>3, <1>4, <1>6 DEF Count, CallStats
<1>7. CASE k = "lead"
  BY <1>1, <1>2, <1>3, <1>4, <1>5, <1>7 DEF Count, LeadStats
<1>8. CASE k = "deal"
  BY <1>1, <1>2, <1>3, <1>4, <1>5, <1>8 DEF Count, DealStats
<1>9. CASE k = "task"
  BY <1>1, <1>2, <1>3, <1>4, <1>5, <1>9 DEF Count, TaskStats
<1> QED BY <1>6, <1>7, <1>8, <1>9

\* The next statement of a report.
LEMMA CountsOn ==
  ASSUME RowsTyped, BornBefore, NEW a \in Questions, NEW n \in Nat, n < Len(Plan(a)),
         NEW span, NEW f, NEW there, NEW begun, CountedSoFar(a, n, span, f, there, begun),
         NEW next,
         next = IF n = 0 \/ Plan(a)[n][1] # Plan(a)[n + 1][1]
                THEN PeriodDates(Plan(a)[n + 1][1], now) ELSE span
  PROVE  CountedSoFar(a, n + 1, next,
                      Noted(f, Plan(a)[n + 1], Count(a, Plan(a)[n + 1], next, f)),
                      {e \in there : row[e[1]] = e[2]}, begun)
<1>1. PICK plan, step : plan = Plan(a) /\ step = plan[n + 1]
  OBVIOUS
<1>2. /\ n + 1 \in 1 .. Len(plan) /\ n \in 0 .. Len(plan)
      /\ step[1] \in Periods /\ step[2] \in Measures /\ step = <<step[1], step[2]>>
  <2>1. Len(plan) \in Nat
    BY <1>1, PlansHold DEF PlanHolds, PartOfPlan
  <2>2. n + 1 \in 1 .. Len(plan) /\ n \in 0 .. Len(plan)
    BY <1>1, <2>1
  <2> QED BY <1>1, <2>2, StepsCount
<1>3. PICK S, g, still :
        /\ S = Count(a, step, next, f) /\ g = Noted(f, step, S)
        /\ still = {e \in there : row[e[1]] = e[2]}
  OBVIOUS
<1>4. /\ begun \in 0 .. now /\ begun \in Nat /\ now \in Nat /\ now <= MaxTime
      /\ ThereAt(there, begun)
      /\ DOMAIN f = {plan[i] : i \in 1 .. n}
      /\ FiguresTrue(a, f, there, begun, now) /\ CallsStand(a, f, begun)
      /\ DayOf(begun) = DayOf(now) => PeriodsNest(f, DayOf(begun))
  <2>1. begun \in 0 .. now /\ now \in 0 .. MaxTime /\ MaxTime \in Nat
    BY ReportsAssumption DEF CountedSoFar, BornBefore
  <2>2. begun \in Nat /\ now \in Nat /\ now <= MaxTime
    BY <2>1
  <2> QED BY <1>1, <2>1, <2>2 DEF CountedSoFar
<1>5. PICK t \in begun .. now : next = PeriodDates(step[1], t)
  <2>1. CASE n = 0 \/ plan[n][1] # step[1]
    <3>1. now \in begun .. now
      BY <1>4
    <3> QED BY <1>1, <2>1, <3>1
  <2>2. CASE ~(n = 0 \/ plan[n][1] # step[1])
    <3>1. next = span /\ n > 0
      BY <1>1, <2>2
    <3>2. \E u \in begun .. now : span = PeriodDates(plan[n][1], u)
      BY <1>1, <3>1 DEF CountedSoFar
    <3> QED BY <2>2, <3>1, <3>2
  <2> QED BY <2>1, <2>2
<1>6. /\ t \in Nat /\ begun <= t /\ t <= now /\ t <= MaxTime
      /\ next.from = PeriodStart[step[1]][DayOf(t)] /\ next.to = DayOf(t)
  <2>1. t \in Nat /\ begun <= t /\ t <= now /\ t <= MaxTime
    BY <1>4, ReportsAssumption
  <2> QED BY <1>5, <2>1 DEF PeriodDates
<1>7. /\ DOMAIN g = DOMAIN f \cup {step} /\ g[step] = S
      /\ \A x \in DOMAIN f : x # step => g[x] = f[x]
  BY <1>3 DEF Noted
<1>8. DOMAIN g = {plan[i] : i \in 1 .. n + 1}
  <2>1. \A i \in 1 .. n + 1 : i = n + 1 \/ i \in 1 .. n
    OBVIOUS
  <2>2. n + 1 \in 1 .. n + 1 /\ \A i \in 1 .. n : i \in 1 .. n + 1
    OBVIOUS
  <2> QED BY <1>1, <1>4, <1>7, <2>1, <2>2
<1>9. still \subseteq there /\ \A e \in still : row[e[1]] = e[2]
  BY <1>3
<1>10. ThereAt(still, begun)
  BY <1>4, <1>9 DEF ThereAt
<1>11. FiguresTrue(a, g, still, begun, now)
  <2>1. SUFFICES ASSUME NEW x \in DOMAIN g, x[2] \in Kinds
                 PROVE  \E u \in begun .. now : \A e \in still :
                            e[1] \in g[x] <=> Within(a, x, e[2], PeriodDates(x[1], u))
    BY DEF FiguresTrue
  <2>2. CASE x = step
    <3>1. ASSUME NEW e \in still
          PROVE  e[1] \in g[x] <=> Within(a, x, e[2], PeriodDates(x[1], t))
      <4>1. e \in there /\ row[e[1]] = e[2]
        BY <1>9
      <4>2. e[1] \in S <=> Within(a, step, e[2], next)
        BY <1>2, <1>3, <1>4, <2>1, <2>2, <4>1, RowsCounted
      <4> QED BY <1>5, <1>7, <2>2, <4>2
    <3> QED BY <3>1
  <2>3. CASE x # step
    <3>1. x \in DOMAIN f /\ g[x] = f[x]
      BY <1>7, <2>3
    <3>2. \E u \in begun .. now : \A e \in there :
                            e[1] \in f[x] <=> Within(a, x, e[2], PeriodDates(x[1], u))
      BY <1>4, <2>1, <3>1 DEF FiguresTrue
    <3> QED BY <1>9, <3>1, <3>2
  <2> QED BY <2>2, <2>3
<1>12. ASSUME step[2] = "call"
       PROVE  S = Created("call", Scope(a), Counts(a), next)
  BY <1>3, <1>12 DEF Count, CallStats
<1>13. CallsStand(a, g, begun)
  <2>1. SUFFICES ASSUME NEW y \in DOMAIN g, y[2] = "call", NEW x \in g[y]
                 PROVE  /\ x \in Ids /\ Stands(x) /\ row[x].kind = "call"
                        /\ row[x].company \in Scope(a) /\ Counts(a) \in {None, row[x].owner}
                        /\ DayOf(row[x].born) \in PeriodStart[y[1]][DayOf(begun)] .. DayOf(now)
    BY DEF CallsStand
  <2>2. CASE y = step
    <3>1. x \in Created("call", Scope(a), Counts(a), next)
      BY <1>7, <1>12, <2>1, <2>2
    <3>2. /\ x \in Ids /\ Stands(x) /\ row[x].kind = "call"
          /\ row[x].company \in Scope(a) /\ Counts(a) \in {None, row[x].owner}
          /\ DayOf(row[x].born) \in next.from .. next.to
      BY <3>1 DEF Created
    <3>3. /\ PeriodStart[step[1]][DayOf(begun)] \in Nat /\ PeriodStart[step[1]][DayOf(t)] \in Nat
          /\ PeriodStart[step[1]][DayOf(begun)] <= PeriodStart[step[1]][DayOf(t)]
      BY <1>2, <1>4, <1>6, DaysBegin
    <3>4. DayOf(t) \in Nat /\ DayOf(now) \in Nat /\ DayOf(t) <= DayOf(now)
      BY <1>4, <1>6, DaysPass
    <3>7. PICK b : b = DayOf(row[x].born)
      OBVIOUS
    <3>5. PICK d \in Nat, e \in Nat, lo \in Nat, hi \in Nat :
            /\ d = PeriodStart[step[1]][DayOf(begun)] /\ e = DayOf(now)
            /\ lo = next.from /\ hi = next.to
      BY <1>6, <3>3, <3>4
    <3>6. b \in d .. e
      <4>1. b \in lo .. hi /\ d <= lo /\ hi <= e
        BY <1>6, <3>2, <3>3, <3>4, <3>5, <3>7
      <4> QED BY <3>5, <4>1
    <3> QED BY <2>2, <3>2, <3>5, <3>6, <3>7
  <2>3. CASE y # step
    <3>1. y \in DOMAIN f /\ x \in f[y]
      BY <1>7, <2>1, <2>3
    <3> QED BY <1>4, <2>1, <3>1 DEF CallsStand
  <2> QED BY <2>2, <2>3
<1>14. ASSUME DayOf(begun) = DayOf(now)
       PROVE  PeriodsNest(g, DayOf(begun))
  <2>1. PICK d \in Nat : d = DayOf(begun) /\ d = DayOf(t) /\ d = DayOf(now)
    <3>1. /\ DayOf(begun) \in Nat /\ DayOf(t) \in Nat /\ DayOf(now) \in Nat
          /\ DayOf(begun) <= DayOf(t) /\ DayOf(t) <= DayOf(now)
      BY <1>4, <1>6, DaysPass
    <3> QED BY <1>14, <3>1
  <2>2. SUFFICES ASSUME NEW p \in Periods, NEW r \in Periods, <<p, r>> \in CountedAfter,
                        <<p, "call">> \in DOMAIN g, <<r, "call">> \in DOMAIN g,
                        PeriodStart[r][d] <= PeriodStart[p][d],
                        NEW x \in g[<<p, "call">>]
                 PROVE  x \in g[<<r, "call">>]
    BY <2>1 DEF PeriodsNest
  <2>3. p # r
    BY <2>2 DEF CountedAfter
  <2>4. CASE step = <<r, "call">>
    <3>1. <<p, "call">> # step
      BY <2>3, <2>4
    <3>2. <<p, "call">> \in DOMAIN f /\ x \in f[<<p, "call">>]
      BY <1>7, <2>2, <3>1
    <3>3. /\ x \in Ids /\ Stands(x) /\ row[x].kind = "call"
          /\ row[x].company \in Scope(a) /\ Counts(a) \in {None, row[x].owner}
          /\ DayOf(row[x].born) \in PeriodStart[p][d] .. d
      <4>1. PICK y : y = <<p, "call">>
        OBVIOUS
      <4>2. y \in DOMAIN f /\ x \in f[y] /\ y[2] = "call" /\ y[1] = p
        BY <3>2, <4>1
      <4> QED BY <1>4, <2>1, <4>2 DEF CallsStand
    <3>4. DayOf(row[x].born) \in PeriodStart[r][d] .. d
      <4>1. PeriodStart[p][d] \in Nat /\ PeriodStart[r][d] \in Nat
        BY <1>4, <1>6, <2>1, DaysBegin
      <4> QED BY <2>2, <3>3, <4>1
    <3>5. next.from = PeriodStart[r][d] /\ next.to = d
      BY <1>6, <2>1, <2>4
    <3>6. x \in Created("call", Scope(a), Counts(a), next)
      BY <3>3, <3>4, <3>5 DEF Created
    <3>7. x \in S
      BY <1>12, <2>4, <3>6
    <3> QED BY <1>7, <2>4, <3>7
  <2>5. CASE step = <<p, "call">>
    <3>1. step # <<r, "call">>
      BY <2>3, <2>5
    <3>2. <<r, "call">> \in DOMAIN f
      BY <1>7, <2>2, <3>1
    <3>3. PICK i \in 1 .. n : plan[i] = <<r, "call">>
      BY <1>4, <3>2
    <3>4. Ordered(plan) /\ Len(plan) \in Nat
      BY <1>1, PlansHold DEF PlanHolds, PartOfPlan
    <3>5. /\ i \in 1 .. Len(plan) /\ n + 1 \in 1 .. Len(plan)
          /\ plan[n + 1][2] = "call" /\ plan[i][2] = "call"
          /\ plan[n + 1][1] = p /\ plan[i][1] = r
      <4>1. i \in 1 .. Len(plan)
        BY <1>2, <3>4
      <4> QED BY <1>1, <1>2, <2>5, <3>3, <4>1
    <3>6. n + 1 < i
      BY <2>2, <3>4, <3>5 DEF Ordered
    <3> QED BY <3>6
  <2>6. CASE step # <<p, "call">> /\ step # <<r, "call">>
    <3>1. /\ <<p, "call">> \in DOMAIN f /\ <<r, "call">> \in DOMAIN f
          /\ g[<<p, "call">>] = f[<<p, "call">>] /\ g[<<r, "call">>] = f[<<r, "call">>]
      BY <1>7, <2>2, <2>6
    <3>2. PeriodsNest(f, d)
      BY <1>4, <1>14, <2>1
    <3> QED BY <2>2, <3>1, <3>2 DEF PeriodsNest
  <2> QED BY <2>4, <2>5, <2>6
<1>15. n + 1 > 0 => \E u \in begun .. now : next = PeriodDates(plan[n + 1][1], u)
  BY <1>1, <1>5
<1>16. CountedSoFar(a, n + 1, next, g, still, begun)
  BY <1>1, <1>4, <1>8, <1>10, <1>11, <1>13, <1>14, <1>15 DEF CountedSoFar
<1> QED BY <1>1, <1>3, <1>16

\* While others take their steps.
LEMMA CountedStands ==
  ASSUME BornBefore, BornBefore', now <= now',
         \A x \in Ids : Stands(x) /\ row[x].kind = "call" => row'[x] = row[x],
         NEW a \in Questions, NEW n \in 0 .. Len(Plan(a)), NEW span, NEW f, NEW there, NEW begun,
         CountedSoFar(a, n, span, f, there, begun)
  PROVE  CountedSoFar(a, n, span, f, there, begun)'
<1>1. /\ begun \in 0 .. now /\ ThereAt(there, begun)
      /\ DOMAIN f = {Plan(a)[i] : i \in 1 .. n}
      /\ n > 0 => \E t \in begun .. now : span = PeriodDates(Plan(a)[n][1], t)
      /\ FiguresTrue(a, f, there, begun, now) /\ CallsStand(a, f, begun)
      /\ DayOf(begun) = DayOf(now) => PeriodsNest(f, DayOf(begun))
  BY DEF CountedSoFar
<1>2. PICK m \in Nat, e \in Nat : m = now /\ e = now' /\ m <= e /\ m <= MaxTime
  BY ReportsAssumption DEF BornBefore
<1>3. begun \in Nat /\ begun \in 0 .. m /\ begun \in 0 .. e
  BY <1>1, <1>2
<1>4. \A t : t \in begun .. m => t \in begun .. e
  BY <1>2, <1>3
<1>5. FiguresTrue(a, f, there, begun, e)
  <2>1. SUFFICES ASSUME NEW x \in DOMAIN f, x[2] \in Kinds
                 PROVE  \E u \in begun .. e : \A y \in there :
                            y[1] \in f[x] <=> Within(a, x, y[2], PeriodDates(x[1], u))
    BY DEF FiguresTrue
  <2>2. \E u \in begun .. m : \A y \in there :
                            y[1] \in f[x] <=> Within(a, x, y[2], PeriodDates(x[1], u))
    BY <1>1, <1>2, <2>1 DEF FiguresTrue
  <2> QED BY <1>4, <2>2
<1>6. /\ DayOf(begun) \in Nat /\ DayOf(m) \in Nat /\ DayOf(e) \in Nat
      /\ DayOf(begun) <= DayOf(m) /\ DayOf(m) <= DayOf(e)
  BY <1>2, <1>3, DaysPass
<1>7. CallsStand(a, f, begun)'
  <2>1. SUFFICES ASSUME NEW y \in DOMAIN f, y[2] = "call", NEW x \in f[y]
                 PROVE  /\ x \in Ids /\ Stands(x)' /\ row'[x].kind = "call"
                        /\ row'[x].company \in Scope(a) /\ Counts(a) \in {None, row'[x].owner}
                        /\ DayOf(row'[x].born) \in PeriodStart[y[1]][DayOf(begun)] .. DayOf(e)
    BY <1>2 DEF CallsStand
  <2>2. /\ x \in Ids /\ Stands(x) /\ row[x].kind = "call"
        /\ row[x].company \in Scope(a) /\ Counts(a) \in {None, row[x].owner}
        /\ DayOf(row[x].born) \in PeriodStart[y[1]][DayOf(begun)] .. DayOf(m)
    BY <1>1, <1>2, <2>1 DEF CallsStand
  <2>3. row'[x] = row[x]
    BY <2>2
  <2>4. y[1] \in Periods
    <3>1. PICK i \in 1 .. n : y = Plan(a)[i]
      BY <1>1, <2>1
    <3>2. n \in 0 .. Len(Plan(a)) /\ Len(Plan(a)) \in Nat
      BY PlansHold DEF PlanHolds, PartOfPlan
    <3>3. i \in 1 .. Len(Plan(a))
      BY <3>2
    <3> QED BY <3>1, <3>3, StepsCount
  <2>5. PeriodStart[y[1]][DayOf(begun)] \in Nat
    BY <1>2, <1>3, <2>4, DaysBegin
  <2>6. DayOf(row[x].born) \in PeriodStart[y[1]][DayOf(begun)] .. DayOf(e)
    BY <1>6, <2>2, <2>5
  <2> QED BY <2>2, <2>3, <2>6 DEF Stands
<1>8. DayOf(begun) = DayOf(e) => PeriodsNest(f, DayOf(begun))
  BY <1>1, <1>2, <1>6
<1>9. n > 0 => \E t \in begun .. e : span = PeriodDates(Plan(a)[n][1], t)
  BY <1>1, <1>2, <1>4
<1> QED BY <1>1, <1>2, <1>3, <1>5, <1>7, <1>8, <1>9 DEF CountedSoFar

\* What is right of a report that was counted to its end.
Tells(a, v) ==
    /\ CountsWhatIsMeant(a, v)
    /\ DayOf(v.begun) = DayOf(v.ended) => PeriodsNest(v.figures, DayOf(v.begun))

LEMMA CountedTells ==
  ASSUME BornBefore, NEW a \in Questions, NEW span, NEW f, NEW there, NEW begun,
         CountedSoFar(a, Len(Plan(a)), span, f, there, begun),
         NEW v, v.figures = f, v.there = there, v.begun = begun, v.ended = now
  PROVE  Tells(a, v)
<1>1. PICK n \in Nat \ {0} : n = Len(Plan(a)) /\ DOMAIN Plan(a) = 1 .. n
  <2>1. PICK s : s = Plan(a)
    OBVIOUS
  <2>2. s \in Seq(Periods \X Measures) /\ Len(s) \in Nat \ {0}
    BY <2>1, PlansHold DEF PlanHolds, PartOfPlan, StepsOf
  <2> QED BY <2>1, <2>2, LenProperties
<1>2. /\ begun \in 0 .. now /\ ThereAt(there, begun)
      /\ DOMAIN f = {Plan(a)[i] : i \in 1 .. n}
      /\ FiguresTrue(a, f, there, begun, now)
      /\ DayOf(begun) = DayOf(now) => PeriodsNest(f, DayOf(begun))
  BY <1>1 DEF CountedSoFar
<1>3. begun \in Nat /\ now \in Nat /\ begun <= now /\ now <= MaxTime
  BY <1>2, ReportsAssumption DEF BornBefore
<1>4. DOMAIN f = Range(Plan(a))
  BY <1>1, <1>2 DEF Range
<1>5. ASSUME NEW step \in DOMAIN f, NEW e \in there, step[2] \in Kinds
      PROVE  /\ Meant(a, step, e[2], DayOf(now)) => e[1] \in f[step]
             /\ e[1] \in f[step] => Meant(a, step, e[2], DayOf(begun))
  <2>1. PICK t \in begun .. now :
            e[1] \in f[step] <=> Within(a, step, e[2], PeriodDates(step[1], t))
    BY <1>2, <1>5 DEF FiguresTrue
  <2>2. PICK p \in Periods : p = step[1]
    <3>1. PICK i \in 1 .. n : step = Plan(a)[i]
      BY <1>2
    <3> QED BY <1>1, <3>1, StepsCount
  <2>3. t \in Nat /\ begun <= t /\ t <= now /\ t <= MaxTime
    BY <1>3, ReportsAssumption
  <2>4. PICK r \in Rows : r = e[2] /\ r.born <= begun
    BY <1>2 DEF ThereAt
  <2>5. r.born \in Nat
    BY DEF Rows
  <2>6. PICK b \in Nat, d \in Nat : b = DayOf(r.born) /\ d = DayOf(t) /\ b <= d
    <3>1. r.born <= t
      BY <1>3, <2>3, <2>4, <2>5
    <3> QED BY <2>3, <2>5, <3>1, DaysPass
  <2>7. PICK lo \in Nat, from \in Nat, hi \in Nat :
            /\ lo = PeriodStart[p][DayOf(begun)] /\ from = PeriodStart[p][d]
            /\ hi = PeriodStart[p][DayOf(now)] /\ lo <= from /\ from <= hi
    BY <1>3, <2>2, <2>3, <2>6, DaysBegin
  <2>8. PeriodDates(p, t).from = from /\ PeriodDates(p, t).to = d
    BY <2>6, <2>7 DEF PeriodDates
  <2>9. PICK good : good = (/\ r.kind = step[2] /\ r.company \in Scope(a)
                            /\ Counts(a) \in {None, r.owner})
    OBVIOUS
  <2>10. /\ e[1] \in f[step] <=> good /\ b \in from .. d
         /\ Meant(a, step, e[2], DayOf(now)) <=> good /\ b >= hi
         /\ Meant(a, step, e[2], DayOf(begun)) <=> good /\ b >= lo
    <3>1. e[1] \in f[step] <=> good /\ b \in from .. d
      BY <2>1, <2>2, <2>4, <2>6, <2>8, <2>9 DEF Within
    <3>2. Meant(a, step, e[2], DayOf(now)) <=> good /\ b >= hi
      BY <2>2, <2>4, <2>6, <2>7, <2>9 DEF Meant
    <3>3. Meant(a, step, e[2], DayOf(begun)) <=> good /\ b >= lo
      BY <2>2, <2>4, <2>6, <2>7, <2>9 DEF Meant
    <3> QED BY <3>1, <3>2, <3>3
  <2>11. (b >= hi => b \in from .. d) /\ (b \in from .. d => b >= lo)
    BY <2>6, <2>7
  <2> QED BY <2>10, <2>11
<1>6. CountsWhatIsMeant(a, v)
  BY <1>4, <1>5 DEF CountsWhatIsMeant
<1> QED BY <1>2, <1>6 DEF Tells

-----------------------------------------------------------------------------
(* Reports: the invariant of those that are counted, stored and given *)

CountingHolds(q) ==
    Stage(q, "counting") =>
        /\ query[q].ask \in Questions
        /\ query[q].at \in 1 .. Len(Plan(query[q].ask))
        /\ CountedSoFar(query[q].ask, query[q].at - 1, query[q].span, query[q].figures,
                        query[q].there, query[q].begun)

\* The value of a report that was counted to its end.
WellMade(v) == DOMAIN v = {"figures", "by", "begun", "ended", "stored", "there"}

AnswerHolds(q) ==
    /\ Stage(q, "storing") =>
        /\ query[q].ask \in Questions
        /\ WellMade(query[q].value) /\ Tells(query[q].ask, query[q].value)
    /\ Stage(q, "answered") =>
        /\ Tells(query[q].ask, query[q].value)
        /\ query[q].value.by # q => query[q].asked <= query[q].value.stored + Ttl(query[q].ask)

\* What is stored under a key answers a question with that key.
Kept(k, c) ==
    \E a \in Questions :
        /\ a.about # "me" /\ Key(a) = k /\ Tells(a, c.value)
        /\ c.until = c.value.stored + Ttl(a)

CacheTells == \A s \in Stores : \A k \in DOMAIN cache[s] : Kept(k, cache[s][k])

AnswersInv ==
    /\ BornBefore
    /\ \A q \in Queries : CountingHolds(q) /\ AnswerHolds(q)
    /\ CacheTells

-----------------------------------------------------------------------------
(* Reports: the steps of the records and of the clock *)

LEMMA NoTimeTaken ==
  ASSUME NEW j \in Jobs, NEW c \in Companies, Requests(j, c)
  PROVE  UNCHANGED now
<1>1. CreateContacts(j, c) => UNCHANGED now
  BY DEF CreateContacts, CheckEmail, CheckBatch, CheckPhone, InsertContacts
<1>2. ASSUME NEW u, NEW k, NEW op, NEW edit, Load(j, c, u, k, op, edit)
      PROVE  UNCHANGED now
  BY <1>2 DEF Load
<1>3. ASSUME NEW op, NEW k, NEW r, Put(j, op, k, r)
      PROVE  UNCHANGED now
  BY <1>3 DEF Put
<1>4. ASSUME NEW k, Delete(j, c, k)
      PROVE  UNCHANGED now
  BY <1>2, <1>3, <1>4 DEF Delete
<1>5. CASE UpdateContact(j, c)
  BY <1>2, <1>3, <1>5 DEF UpdateContact, CheckChange
<1>6. CASE UpdateTask(j, c)
  BY <1>2, <1>3, <1>6 DEF UpdateTask
<1>7. CASE CompleteTask(j, c)
  BY <1>2, <1>3, <1>7 DEF CompleteTask
<1>8. CASE UpdateNote(j, c)
  BY <1>2, <1>3, <1>8 DEF UpdateNote
<1>9. CASE AssignLead(j, c)
  BY <1>2, <1>3, <1>9 DEF AssignLead
<1>10. CASE \E u \in Users, d \in DueDates : CreateTask(j, c, u, d)
  BY <1>10 DEF CreateTask, Insert
<1>11. CASE \E u \in Users : CreateNote(j, c, u)
  BY <1>11 DEF CreateNote, Insert
<1> QED BY <1>1, <1>4, <1>5, <1>6, <1>7, <1>8, <1>9, <1>10, <1>11
        DEF Requests, DeleteContact, DeleteTask, DeleteNote

\* Time goes on at most by a tick, in which the rows stand.
LEMMA TimeTaken ==
  ASSUME [Next]_vars
  PROVE  UNCHANGED now \/ (now < MaxTime /\ now' = now + 1 /\ UNCHANGED row)
<1>1. CASE \E j \in Jobs, c \in Companies : Requests(j, c)
  BY <1>1, NoTimeTaken
<1>2. CASE \E c \in Companies : Arrivals(c)
  BY <1>2 DEF Arrivals, Arrive, Insert
<1>3. CASE \E w \in Walks : ReadLists(w)
  BY <1>3, ListsRead
<1>4. CASE Tick
  BY <1>4 DEF Tick
<1>5. ReportsNext => UNCHANGED now
  BY ReportsRead DEF ReportsNext, recordVars
<1>6. UNCHANGED recordVars => UNCHANGED now
  BY DEF recordVars
<1>7. UNCHANGED vars => UNCHANGED recordVars
  BY DEF vars
<1> QED BY <1>1, <1>2, <1>3, <1>4, <1>5, <1>6, <1>7 DEF Next, RecordsNext

CallsAsTheyWere == \A x \in Ids : Stands(x) /\ row[x].kind = "call" => row'[x] = row[x]

LEMMA TimePasses ==
  ASSUME RecordsInv, BornBefore, [Next]_vars
  PROVE  BornBefore' /\ now <= now' /\ CallsAsTheyWere
<1>1. now \in Nat /\ now \in 0 .. MaxTime /\ MaxTime \in Nat
  BY ReportsAssumption DEF BornBefore
<1>2. UNCHANGED now \/ (now < MaxTime /\ now' = now + 1 /\ UNCHANGED row)
  BY TimeTaken
<1>3. now' \in 0 .. MaxTime /\ now <= now' /\ now' \in Nat
  BY <1>1, <1>2
<1>4. UNCHANGED row \/ RowsMove
  BY StepsMove
<1>5. CallsAsTheyWere
  BY <1>4 DEF RowsMove, CallsAsTheyWere
<1>6. \A x \in Ids : Stands(x) => row[x].born <= now /\ row[x].born \in Nat
  BY DEF BornBefore, Stands, Rows
<1>7. \A x \in Ids : Stands(x)' => row'[x].born <= now'
  <2>1. CASE UNCHANGED row
    BY <1>1, <1>3, <1>6, <2>1 DEF Stands
  <2>2. CASE ~UNCHANGED row
    <3>1. RowsMove /\ UNCHANGED now
      BY <1>2, <1>4, <2>2
    <3>2. \A x \in Ids : Stands(x)' =>
            row'[x].born = now \/ (Stands(x) /\ row'[x].born = row[x].born)
      BY <3>1 DEF RowsMove, Stands
    <3> QED BY <1>1, <1>6, <3>1, <3>2
  <2> QED BY <2>1, <2>2
<1> QED BY <1>3, <1>5, <1>7 DEF BornBefore

LEMMA CountingStands ==
  ASSUME BornBefore, BornBefore', now <= now', CallsAsTheyWere,
         NEW q \in Queries, CountingHolds(q), query'[q] = query[q]
  PROVE  CountingHolds(q)'
<1>1. CASE ~Stage(q, "counting")
  BY <1>1 DEF CountingHolds, Stage
<1>2. CASE Stage(q, "counting")
  <2>1. PICK a \in Questions : a = query[q].ask
    BY <1>2 DEF CountingHolds
  <2>2. PICK n, span, f, there, begun :
          /\ n = query[q].at - 1 /\ span = query[q].span
          /\ f = query[q].figures /\ there = query[q].there /\ begun = query[q].begun
    OBVIOUS
  <2>3. query[q].at \in 1 .. Len(Plan(a)) /\ CountedSoFar(a, n, span, f, there, begun)
    BY <1>2, <2>1, <2>2 DEF CountingHolds
  <2>4. n \in 0 .. Len(Plan(a))
    <3>1. Len(Plan(a)) \in Nat
      BY PlansHold DEF PlanHolds, PartOfPlan
    <3> QED BY <2>2, <2>3, <3>1
  <2>5. CountedSoFar(a, n, span, f, there, begun)'
    BY <2>3, <2>4, CountedStands DEF CallsAsTheyWere
  <2> QED BY <2>1, <2>2, <2>3, <2>5 DEF CountingHolds, CountedSoFar, CallsStand
<1> QED BY <1>1, <1>2

LEMMA AnswerStands ==
  ASSUME NEW q \in Queries, AnswerHolds(q), query'[q] = query[q]
  PROVE  AnswerHolds(q)'
BY DEF AnswerHolds, Stage

\* A request takes a step of its own.
LEMMA AnswersMove ==
  ASSUME ReportsInv, AnswersInv, UNCHANGED <<row, now>>,
         NEW q \in Queries, NEW r, query' = [query EXCEPT ![q] = r],
         CountingHolds(q)', AnswerHolds(q)', CacheTells'
  PROVE  AnswersInv'
<1>1. BornBefore /\ BornBefore' /\ now <= now' /\ CallsAsTheyWere
  <2>1. now \in Nat
    BY ReportsAssumption DEF AnswersInv, BornBefore
  <2> QED BY <2>1 DEF AnswersInv, BornBefore, CallsAsTheyWere, Stands
<1>2. ASSUME NEW x \in Queries
      PROVE  CountingHolds(x)' /\ AnswerHolds(x)'
  <2>1. CASE x = q
    BY <2>1
  <2>2. CASE x # q
    <3>1. query'[x] = query[x] /\ CountingHolds(x) /\ AnswerHolds(x)
      BY <2>2 DEF ReportsInv, AnswersInv
    <3> QED BY <1>1, <3>1, CountingStands, AnswerStands
  <2> QED BY <2>1, <2>2
<1> QED BY <1>1, <1>2 DEF AnswersInv

\* Neither counted nor stored nor given.
LEMMA NothingTold ==
  ASSUME NEW q \in Queries, query'[q].pc \notin {"counting", "storing", "answered"}
  PROVE  CountingHolds(q)' /\ AnswerHolds(q)'
BY DEF CountingHolds, AnswerHolds, Stage

\* What answers a question answers the others with its key.
LEMMA TellsAlike ==
  ASSUME NEW a \in Questions, NEW b \in Questions, a.about # "me", b.about # "me",
         Key(a) = Key(b), NEW v, Tells(b, v)
  PROVE  Tells(a, v)
<1>1. Plan(a) = Plan(b) /\ Scope(a) = Scope(b) /\ Counts(a) = Counts(b)
  BY KeysTell
<1>2. \A step, r, d : Meant(a, step, r, d) <=> Meant(b, step, r, d)
  BY <1>1 DEF Meant
<1> QED BY <1>1, <1>2 DEF Tells, CountsWhatIsMeant

LEMMA CountingBegins ==
  ASSUME BornBefore, NEW a \in Questions
  PROVE  CountedSoFar(a, 0, 0, <<>>, {<<x, row[x]>> : x \in {x \in Ids : Live(x)}}, now)
<1>1. PICK there : there = {<<x, row[x]>> : x \in {x \in Ids : Live(x)}}
  OBVIOUS
<1>2. PICK f : f = <<>> /\ DOMAIN f = {}
  BY EmptySeq, LenProperties
<1>3. ThereAt(there, now)
  BY <1>1 DEF BornBefore, ThereAt, Live, Stands
<1>4. now \in 0 .. now
  BY ReportsAssumption DEF BornBefore
<1>5. DOMAIN f = {Plan(a)[i] : i \in 1 .. 0}
  BY <1>2
<1>6. FiguresTrue(a, f, there, now, now) /\ CallsStand(a, f, now) /\ PeriodsNest(f, DayOf(now))
  BY <1>2 DEF FiguresTrue, CallsStand, PeriodsNest
<1>7. CountedSoFar(a, 0, 0, f, there, now)
  BY <1>3, <1>4, <1>5, <1>6 DEF CountedSoFar
<1> QED BY <1>1, <1>2, <1>7

LEMMA AskAnswers ==
  ASSUME ReportsInv, AnswersInv, UNCHANGED <<row, now>>,
         NEW q \in Queries, NEW a \in Questions, NEW s \in Stores, Ask(q, a, s)
  PROVE  AnswersInv'
<1>1. BornBefore /\ CacheTells /\ CacheTells'
  BY DEF AnswersInv, CacheTells, Ask
<1>2. CASE a.about # "me" /\ Cached(s, Key(a))
  <2>1. PICK k, v : k = Key(a) /\ v = cache[s][k].value
    OBVIOUS
  <2>2. PICK r : r = [pc |-> "answered", ask |-> a, store |-> s, asked |-> now,
                      purged |-> purged, value |-> v]
    OBVIOUS
  <2>3. query' = [query EXCEPT ![q] = r]
    BY <1>2, <2>1, <2>2 DEF Ask
  <2>4. query'[q] = r
    BY <2>3 DEF ReportsInv
  <2>5. k \in DOMAIN cache[s] /\ now <= cache[s][k].until
    BY <1>2, <2>1 DEF Cached
  <2>6. PICK b \in Questions : /\ b.about # "me" /\ Key(b) = k /\ Tells(b, v)
                               /\ cache[s][k].until = v.stored + Ttl(b)
    BY <1>1, <2>1, <2>5 DEF CacheTells, Kept
  <2>7. Tells(a, v) /\ Ttl(a) = Ttl(b)
    BY <1>2, <2>1, <2>6, TellsAlike, KeysTell
  <2>8. now <= v.stored + Ttl(a)
    BY <2>5, <2>6, <2>7
  <2>9. CountingHolds(q)' /\ AnswerHolds(q)'
    BY <2>2, <2>4, <2>7, <2>8 DEF CountingHolds, AnswerHolds, Stage
  <2> QED BY <1>1, <2>3, <2>9, AnswersMove
<1>3. CASE ~(a.about # "me" /\ Cached(s, Key(a)))
  <2>1. PICK there, begun : there = {<<x, row[x]>> : x \in {x \in Ids : Live(x)}} /\ begun = now
    OBVIOUS
  <2>2. PICK f : f = <<>>
    OBVIOUS
  <2>3. PICK r : r = [pc |-> "counting", ask |-> a, store |-> s, asked |-> now,
                  purged |-> purged, at |-> 1, span |-> 0, begun |-> begun,
                  there |-> there, figures |-> f]
    OBVIOUS
  <2>4. query' = [query EXCEPT ![q] = r]
    BY <1>3, <2>1, <2>2, <2>3 DEF Ask
  <2>5. query'[q] = r
    BY <2>4 DEF ReportsInv
  <2>6. CountedSoFar(a, 0, 0, f, there, begun)
    BY <1>1, <2>1, <2>2, CountingBegins
  <2>7. CountedSoFar(a, 0, 0, f, there, begun)'
    BY <2>6 DEF CountedSoFar, CallsStand, Stands
  <2>8. /\ r.pc = "counting" /\ r.ask = a /\ r.at = 1 /\ r.at - 1 = 0 /\ r.span = 0
        /\ r.figures = f /\ r.there = there /\ r.begun = begun
    BY <2>3
  <2>9. 1 \in 1 .. Len(Plan(a))
    BY PlansHold DEF PlanHolds, PartOfPlan
  <2>10. CountedSoFar(r.ask, r.at - 1, r.span, r.figures, r.there, r.begun)'
    BY <2>7, <2>8
  <2>11. CountingHolds(q)'
    BY <2>5, <2>8, <2>9, <2>10 DEF CountingHolds, CountedSoFar, CallsStand
  <2>12. AnswerHolds(q)'
    BY <2>5, <2>8 DEF AnswerHolds, Stage
  <2> QED BY <1>1, <2>4, <2>11, <2>12, AnswersMove
<1> QED BY <1>2, <1>3

LEMMA CountAnswers ==
  ASSUME RecordsInv, ReportsInv, AnswersInv, UNCHANGED <<row, now>>,
         NEW q \in Queries, CountNext(q)
  PROVE  AnswersInv'
<1>1. Stage(q, "counting") /\ BornBefore /\ RowsTyped /\ CacheTells /\ CacheTells'
  BY DEF AnswersInv, RecordsInv, CacheTells, CountNext
<1>2. PICK a \in Questions : a = query[q].ask
  BY <1>1 DEF ReportsInv, QueryHolds
<1>3. PICK plan, at, old, f, there, begun :
        /\ plan = Plan(a) /\ at = query[q].at /\ old = query[q].span
        /\ f = query[q].figures /\ there = query[q].there /\ begun = query[q].begun
  OBVIOUS
<1>4. PICK len \in Nat : len = Len(plan)
  BY <1>2, <1>3, PlansHold DEF PlanHolds, PartOfPlan
<1>5. at \in 1 .. len /\ CountedSoFar(a, at - 1, old, f, there, begun)
  BY <1>1, <1>2, <1>3, <1>4 DEF AnswersInv, CountingHolds
<1>6. PICK n \in Nat : n = at - 1 /\ n < len /\ n + 1 = at /\ (n = 0 <=> at = 1)
  BY <1>5
<1>7. PICK span : span = SpanAt(q)
  OBVIOUS
<1>8. span = IF n = 0 \/ Plan(a)[n][1] # Plan(a)[n + 1][1]
             THEN PeriodDates(Plan(a)[n + 1][1], now) ELSE old
  BY <1>2, <1>3, <1>6, <1>7 DEF SpanAt
<1>9. PICK g, still : /\ g = Noted(f, Plan(a)[n + 1], Count(a, Plan(a)[n + 1], span, f))
                      /\ still = {e \in there : row[e[1]] = e[2]}
  OBVIOUS
<1>10. CountedSoFar(a, n + 1, span, g, still, begun)
  <2>1. CountedSoFar(a, n, old, f, there, begun) /\ n < Len(Plan(a))
    BY <1>3, <1>4, <1>5, <1>6
  <2>2. CountedSoFar(a, n + 1, span,
                      Noted(f, Plan(a)[n + 1], Count(a, Plan(a)[n + 1], span, f)),
                      {e \in there : row[e[1]] = e[2]}, begun)
    BY <1>1, <1>8, <2>1, CountsOn
  <2> QED BY <1>9, <2>2
<1>11. StillThere(q) = still
  BY <1>3, <1>9 DEF StillThere
<1>12. Noted(f, plan[at], Count(a, plan[at], span, f)) = g
  BY <1>3, <1>6, <1>9
<1>13. CASE at < len
  <2>1. query' = [query EXCEPT ![q] =
            [query[q] EXCEPT !.at = at + 1, !.span = span, !.figures = g, !.there = still]]
    BY <1>2, <1>3, <1>4, <1>7, <1>11, <1>12, <1>13 DEF CountNext
  <2>2. PICK r : r = [query[q] EXCEPT !.at = at + 1, !.span = span, !.figures = g, !.there = still]
    OBVIOUS
  <2>3. query' = [query EXCEPT ![q] = r]
    BY <2>1, <2>2
  <2>4. query'[q] = r
    BY <2>3 DEF ReportsInv
  <2>5. DOMAIN query[q] = {"pc", "ask", "store", "asked", "purged", "at", "span", "begun",
                           "there", "figures"}
    BY <1>1 DEF ReportsInv, QueryHolds
  <2>6. /\ r.pc = "counting" /\ r.ask = a /\ r.at = at + 1 /\ r.span = span
        /\ r.figures = g /\ r.there = still /\ r.begun = begun
    BY <1>1, <1>2, <1>3, <2>2, <2>5 DEF Stage
  <2>7. at \in Nat /\ at + 1 \in 1 .. len /\ at = n + 1
    BY <1>5, <1>6, <1>13
  <2>8. CountedSoFar(a, n + 1, span, g, still, begun)'
    BY <1>10 DEF CountedSoFar, CallsStand, Stands
  <2>9. r.at - 1 = n + 1 /\ r.at \in 1 .. len
    <3>1. r.at = at + 1
      BY <2>6
    <3>2. r.at - 1 = at /\ r.at \in 1 .. len
      BY <2>7, <3>1
    <3> QED BY <2>7, <3>2
  <2>10. CountedSoFar(r.ask, r.at - 1, r.span, r.figures, r.there, r.begun)'
    BY <2>6, <2>8, <2>9
  <2>11. CountingHolds(q)'
    BY <1>3, <1>4, <2>4, <2>6, <2>9, <2>10 DEF CountingHolds, CountedSoFar, CallsStand
  <2>12. AnswerHolds(q)'
    BY <2>4, <2>6 DEF AnswerHolds, Stage
  <2> QED BY <1>1, <2>3, <2>11, <2>12, AnswersMove
<1>14. CASE ~(at < len)
  <2>1. PICK v : v = [figures |-> g, by |-> q, begun |-> begun, ended |-> now,
                      stored |-> now, there |-> still]
    OBVIOUS
  <2>2. PICK r : r = [pc |-> IF a.about = "me" THEN "answered" ELSE "storing",
                  ask |-> a, store |-> query[q].store, asked |-> query[q].asked,
                  purged |-> query[q].purged, value |-> v]
    OBVIOUS
  <2>3. query' = [query EXCEPT ![q] = r]
    BY <1>2, <1>3, <1>4, <1>7, <1>11, <1>12, <1>14, <2>1, <2>2 DEF CountNext
  <2>4. query'[q] = r
    BY <2>3 DEF ReportsInv
  <2>5. /\ r.pc \in {"answered", "storing"} /\ r.ask = a /\ r.value = v
    BY <2>2
  <2>6. n + 1 = Len(Plan(a))
    BY <1>3, <1>4, <1>5, <1>6, <1>14
  <2>7. CountedSoFar(a, Len(Plan(a)), span, g, still, begun)
    BY <1>10, <2>6
  <2>8. /\ v.figures = g /\ v.there = still /\ v.begun = begun /\ v.ended = now
        /\ v.by = q /\ WellMade(v)
    BY <2>1 DEF WellMade
  <2>9. Tells(a, v)
    BY <1>1, <2>7, <2>8, CountedTells
  <2>10. CountingHolds(q)' /\ AnswerHolds(q)'
    BY <2>4, <2>5, <2>8, <2>9 DEF CountingHolds, AnswerHolds, Stage
  <2> QED BY <1>1, <2>3, <2>10, AnswersMove
<1> QED BY <1>13, <1>14

LEMMA StoreAnswers ==
  ASSUME ReportsInv, AnswersInv, UNCHANGED <<row, now>>, NEW q \in Queries, Store(q)
  PROVE  AnswersInv'
<1>1. Stage(q, "storing") /\ CacheTells
  BY DEF AnswersInv, Store
<1>15. PICK v : v = query[q].value
  OBVIOUS
<1>2. PICK a \in Questions, s \in Stores :
        /\ a = query[q].ask /\ s = query[q].store /\ a.about # "me"
        /\ v = query[q].value /\ v.by = q
        /\ DOMAIN query[q] = {"pc", "ask", "store", "asked", "purged", "value"}
  BY <1>1, <1>15 DEF ReportsInv, QueryHolds
<1>3. WellMade(v) /\ Tells(a, v)
  BY <1>1, <1>2 DEF AnswersInv, AnswerHolds
<1>4. PICK key, value, until, r :
        /\ key = Key(a) /\ value = [v EXCEPT !.stored = now]
        /\ r = [query[q] EXCEPT !.pc = "answered"] /\ until = now + Ttl(a)
  OBVIOUS
<1>5. cache' = [cache EXCEPT ![s] =
                [k \in DOMAIN cache[s] \cup {key} |->
                    IF k = key THEN [value |-> value, until |-> until] ELSE cache[s][k]]]
  <2>1. CacheSet(s, key, value, Ttl(a))
    BY <1>2, <1>4 DEF Store
  <2> QED BY <2>1, <1>4 DEF CacheSet
<1>6. query' = [query EXCEPT ![q] = r]
  BY <1>4 DEF Store
<1>7. query'[q] = r
  BY <1>6 DEF ReportsInv
<1>8. r.pc = "answered" /\ r.ask = a /\ r.value = v
  BY <1>2, <1>4
<1>9. CountingHolds(q)' /\ AnswerHolds(q)'
  BY <1>2, <1>3, <1>7, <1>8 DEF CountingHolds, AnswerHolds, Stage
<1>10. /\ value.stored = now /\ value.figures = v.figures /\ value.there = v.there
       /\ value.begun = v.begun /\ value.ended = v.ended
  BY <1>3, <1>4 DEF WellMade
<1>11. Tells(a, value)
  BY <1>3, <1>10 DEF Tells, CountsWhatIsMeant
<1>12. Kept(key, [value |-> value, until |-> until])
  BY <1>2, <1>4, <1>10, <1>11 DEF Kept
<1>13. \A t \in Stores : \A k \in DOMAIN cache'[t] :
        \/ k \in DOMAIN cache[t] /\ cache'[t][k] = cache[t][k]
        \/ k = key /\ cache'[t][k] = [value |-> value, until |-> until]
  BY <1>5 DEF ReportsInv
<1>14. CacheTells'
  BY <1>1, <1>12, <1>13 DEF CacheTells, Kept
<1> QED BY <1>6, <1>9, <1>14, AnswersMove

LEMMA LessIsKept ==
  ASSUME ReportsInv, CacheTells, NEW s, NEW keys, CacheDelete(s, keys)
  PROVE  CacheTells'
<1>1. \A t \in Stores : \A k \in DOMAIN cache'[t] :
        k \in DOMAIN cache[t] /\ cache'[t][k] = cache[t][k]
  BY DEF ReportsInv, CacheDelete
<1> QED BY <1>1 DEF CacheTells, Kept

LEMMA ClearAnswers ==
  ASSUME ReportsInv, AnswersInv, UNCHANGED <<row, now>>, NEW q \in Queries,
         CacheFails(q) \/ ClearCompany(q) \/ ClearOwner(q)
  PROVE  AnswersInv'
<1>1. CacheTells
  BY DEF AnswersInv
<1>2. CacheTells'
  <2>1. UNCHANGED cache \/ \E s, keys : CacheDelete(s, keys)
    BY DEF CacheFails, ClearCompany, ClearOwner
  <2> QED BY <1>1, <2>1, LessIsKept DEF CacheTells
<1>3. ASSUME NEW r, query' = [query EXCEPT ![q] = r],
             r.pc \in {"failed", "clearing", "cleared", "emptying"}
      PROVE  AnswersInv'
  <2>1. query'[q] = r
    BY <1>3 DEF ReportsInv
  <2> QED BY <1>2, <1>3, <2>1, NothingTold, AnswersMove
<1>4. \E r : /\ query' = [query EXCEPT ![q] = r]
             /\ r.pc \in {"failed", "clearing", "cleared", "emptying"}
  <2>1. CASE CacheFails(q)
    <3>1. PICK r : r = [pc |-> "failed"]
      OBVIOUS
    <3>2. query' = [query EXCEPT ![q] = r]
      BY <2>1, <3>1 DEF CacheFails
    <3>3. r.pc = "failed"
      BY <3>1
    <3> QED BY <3>2, <3>3
  <2>2. CASE ClearCompany(q)
    <3>1. CASE Stage(q, "unsent") /\ \E c \in Companies, s \in Stores :
            query' = [query EXCEPT ![q] =
                [pc |-> "clearing", store |-> s, keys |-> Matching(s, c),
                 old |-> Telling(s, c)]]
      <4>1. PICK keys, old, s : query' = [query EXCEPT ![q] =
                [pc |-> "clearing", store |-> s, keys |-> keys, old |-> old]]
        BY <3>1
      <4>2. PICK r : r = [pc |-> "clearing", store |-> s, keys |-> keys, old |-> old]
        OBVIOUS
      <4>3. query' = [query EXCEPT ![q] = r]
        BY <4>1, <4>2
      <4>4. r.pc = "clearing"
        BY <4>2
      <4> QED BY <4>3, <4>4
    <3>2. CASE query' = [query EXCEPT ![q] = [pc |-> "cleared"]]
      <4>1. PICK r : r = [pc |-> "cleared"]
        OBVIOUS
      <4>2. query' = [query EXCEPT ![q] = r]
        BY <3>2, <4>1
      <4>3. r.pc = "cleared"
        BY <4>1
      <4> QED BY <4>2, <4>3
    <3> QED BY <2>2, <3>1, <3>2 DEF ClearCompany
  <2>3. CASE ClearOwner(q)
    <3>1. CASE Stage(q, "unsent") /\ \E s \in Stores :
            query' = [query EXCEPT ![q] =
                [pc |-> "emptying", store |-> s, at |-> 1, old |-> Telling(s, Owner)]]
      <4>1. PICK old, s : query' = [query EXCEPT ![q] =
                [pc |-> "emptying", store |-> s, at |-> 1, old |-> old]]
        BY <3>1
      <4>2. PICK r : r = [pc |-> "emptying", store |-> s, at |-> 1, old |-> old]
        OBVIOUS
      <4>3. query' = [query EXCEPT ![q] = r]
        BY <4>1, <4>2
      <4>4. r.pc = "emptying"
        BY <4>2
      <4> QED BY <4>3, <4>4
    <3>2. CASE query' = [query EXCEPT ![q] = [pc |-> "cleared"]]
      <4>1. PICK r : r = [pc |-> "cleared"]
        OBVIOUS
      <4>2. query' = [query EXCEPT ![q] = r]
        BY <3>2, <4>1
      <4>3. r.pc = "cleared"
        BY <4>1
      <4> QED BY <4>2, <4>3
    <3>3. CASE Stage(q, "emptying") /\ query' = [query EXCEPT ![q].at = @ + 1]
      <4>1. PICK r : r = [query[q] EXCEPT !.at = query[q].at + 1]
        OBVIOUS
      <4>2. query' = [query EXCEPT ![q] = r]
        BY <3>3, <4>1
      <4>3. DOMAIN query[q] = {"pc", "store", "at", "old"} /\ query[q].pc = "emptying"
        BY <3>3 DEF ReportsInv, QueryHolds, Stage
      <4>4. r.pc = "emptying"
        BY <4>1, <4>3
      <4> QED BY <4>2, <4>4
    <3> QED BY <2>3, <3>1, <3>2, <3>3 DEF ClearOwner
  <2> QED BY <2>1, <2>2, <2>3
<1> QED BY <1>3, <1>4

LEMMA AnswersKeep ==
  ASSUME RecordsInv, ReportsInv, AnswersInv, [Next]_vars
  PROVE  AnswersInv'
<1>1. ASSUME NEW q \in Queries, Report(q)
      PROVE  AnswersInv'
  <2>1. UNCHANGED <<row, now>>
    BY <1>1, ReportsRead DEF recordVars
  <2>2. \A a \in Questions, s \in Stores : Ask(q, a, s) => AnswersInv'
    BY <2>1, AskAnswers
  <2> QED BY <1>1, <2>1, <2>2, CountAnswers, StoreAnswers, ClearAnswers
          DEF Report, MyAnalytics, MyDashboard, TeamAnalytics, AdminDashboard, PlatformAnalytics,
              OwnerDashboard
<1>2. CASE UNCHANGED reportVars
  <2>1. UNCHANGED <<cache, query>>
    BY <1>2 DEF reportVars
  <2>2. BornBefore /\ BornBefore' /\ now <= now' /\ CallsAsTheyWere
    BY TimePasses DEF AnswersInv
  <2>3. ASSUME NEW q \in Queries
        PROVE  CountingHolds(q)' /\ AnswerHolds(q)'
    <3>1. CountingHolds(q) /\ AnswerHolds(q) /\ query'[q] = query[q]
      BY <2>1 DEF AnswersInv
    <3> QED BY <2>2, <3>1, CountingStands, AnswerStands
  <2>4. CacheTells'
    BY <2>1 DEF AnswersInv, CacheTells
  <2> QED BY <2>2, <2>3, <2>4 DEF AnswersInv
<1>3. UNCHANGED vars => UNCHANGED reportVars
  BY DEF vars
<1> QED BY <1>1, <1>2, <1>3 DEF Next, ReportsNext

LEMMA AnswersStart ==
  ASSUME RecordsInit, ReportsInit
  PROVE  AnswersInv
<1>1. BornBefore
  BY RecordsAssumption, ReportsAssumption DEF RecordsInit, BornBefore, Stands
<1>2. \A s \in Stores : DOMAIN cache[s] = {}
  BY EmptySeq, LenProperties DEF ReportsInit
<1> QED BY <1>1, <1>2 DEF ReportsInit, AnswersInv, CountingHolds, AnswerHolds, CacheTells, Stage

\* A report, counted now or taken from the cache, is about what was asked for,
\* its figures agree, and from the cache it was stored no longer ago than such
\* reports may be given (company/analytics.py:84, 277; owner/analytics.py:51):
\* for every number of rows, requests and stores, whatever kinds are counted
\* in whatever order, and whenever days pass while a report is counted.
THEOREM ReportsAnswer == Spec => []AnswersTheQuestion
<1>1. Init => RecordsInv /\ ReportsInv /\ AnswersInv
  BY RecordsStart, ReportsStart, AnswersStart DEF Init
<1>2. RecordsInv /\ ReportsInv /\ AnswersInv /\ [Next]_vars => AnswersInv'
  BY AnswersKeep
<1>3. AnswersInv => AnswersTheQuestion
  BY DEF AnswersInv, AnswerHolds, Tells, AnswersTheQuestion, Answered
<1> QED BY <1>1, <1>2, <1>3, RecordsKeep, ReportsKeep, PTL DEF Spec

=============================================================================
