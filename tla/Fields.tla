------------------------------- MODULE Fields -------------------------------
(***************************************************************************)
(* The custom fields that a company defines for one kind of record         *)
(* (company/custom_fields.py, db/models/custom_field.py). Reordering       *)
(* writes one definition after the other in one transaction: a row that a  *)
(* transaction has changed is locked until it ends, and what it wrote is   *)
(* seen by others only when it commits.                                    *)
(***************************************************************************)
EXTENDS Naturals, FiniteSets, Sequences, Functions

CONSTANTS
    FieldIds, Names,
    Orders,         \* lists of ids that a reorder sends
    Places,         \* sort orders that a create or an update sends
    Editors,        \* requests, each sent at most once
    MaxFields,      \* live fields of one kind of record (20)
    NoField         \* no row yet, nobody, nothing to set

FieldRows == [name : Names, place : Nat, live : BOOLEAN]

ASSUME FieldsAssumption ==
    /\ MaxFields \in Nat
    /\ Places \subseteq Nat
    /\ \A o \in Orders : o \in Seq(FieldIds)
    /\ NoField \notin FieldIds \cup Names \cup Places \cup Editors \cup FieldRows

VARIABLES
    field,      \* field[f]: the committed row or NoField
    editor,     \* editor[e]: how far a request is
    lock,       \* lock[f]: the transaction that has changed the row
    placedBy,   \* history: placedBy[f]: the request that placed it last
    standing    \* history: the last accepted order, until a field of it moves

fieldVars == <<field, editor, lock, placedBy, standing>>

FieldsInit ==
    /\ field = [f \in FieldIds |-> NoField]
    /\ editor = [e \in Editors |-> [pc |-> "unsent"]]
    /\ lock = [f \in FieldIds |-> NoField]
    /\ placedBy = [f \in FieldIds |-> NoField]
    /\ standing = <<>>

-----------------------------------------------------------------------------

Defined(f) == field[f] # NoField

LiveFields == {f \in FieldIds : Defined(f) /\ field[f].live}

Named(n) == {f \in LiveFields : field[f].name = n}

Is(e, pc) == editor[e].pc = pc

Reply(e, how) == editor' = [editor EXCEPT ![e] = [pc |-> how]]

Free(f) == lock[f] = NoField

Ordering(e) == editor[e].pc \in {"reading", "writing", "committing"}

\* The request e ends well and has placed the fields fs, whose rows are these by
\* now. They are then not for the reorders under way alone.
Place(e, fs, rows) ==
    /\ field' = [f \in FieldIds |-> IF f \in fs THEN rows[f] ELSE field[f]]
    /\ placedBy' = [f \in FieldIds |-> IF f \in fs THEN e ELSE placedBy[f]]
    /\ editor' = [x \in Editors |->
            IF x = e THEN [pc |-> "done"]
            ELSE IF Ordering(x) /\ Range(editor[x].order) \cap fs # {}
                 THEN [editor[x] EXCEPT !.alone = FALSE]
                 ELSE editor[x]]

\* The unique constraint counts deleted rows, which the look does not.
Taken(n, f) == \E g \in FieldIds \ {f} : Defined(g) /\ field[g].name = n

\* The number of fields and the name, in two statements.
CheckField(e, n, p) ==
    /\ Is(e, "unsent")
    /\ IF Cardinality(LiveFields) >= MaxFields
       THEN Reply(e, "refused")
       ELSE editor' = [editor EXCEPT ![e] = [pc |-> "naming", name |-> n, place |-> p]]
    /\ UNCHANGED <<field, lock, placedBy, standing>>

CheckName(e) ==
    /\ Is(e, "naming")
    /\ IF Named(editor[e].name) # {}
       THEN Reply(e, "refused")
       ELSE editor' = [editor EXCEPT ![e].pc = "creating"]
    /\ UNCHANGED <<field, lock, placedBy, standing>>

InsertField(e) ==
    /\ Is(e, "creating")
    /\ IF Taken(editor[e].name, NoField)
       THEN Reply(e, "refused") /\ UNCHANGED <<field, placedBy>>
       ELSE /\ \E f \in FieldIds :
                /\ ~Defined(f)
                /\ field' = [field EXCEPT ![f] =
                    [name |-> editor[e].name, place |-> editor[e].place, live |-> TRUE]]
                /\ placedBy' = [placedBy EXCEPT ![f] = e]
            /\ Reply(e, "done")
    /\ UNCHANGED <<lock, standing>>

CreateField(e) ==
    \/ \E n \in Names, p \in Places : CheckField(e, n, p)
    \/ CheckName(e)
    \/ InsertField(e)

\* An update sends a name, a place or both. A new name is looked for; the row
\* may change until it is written.
LoadField(e, n, p) ==
    /\ Is(e, "unsent")
    /\ \E f \in FieldIds :
        IF f \notin LiveFields \/ (n \notin {NoField, field[f].name} /\ Named(n) # {})
        THEN Reply(e, "refused")
        ELSE editor' = [editor EXCEPT ![e] =
                [pc |-> "saving", field |-> f, loaded |-> field[f],
                 name |-> n, place |-> p]]
    /\ UNCHANGED <<field, lock, placedBy, standing>>

Changed(new, old) == new \notin {NoField, old}

SaveName(e, f, n) ==
    /\ field' = [field EXCEPT ![f].name = n]
    /\ Reply(e, "done")
    /\ UNCHANGED <<placedBy, standing>>

SavePlace(e, f, n, p) ==
    /\ Place(e, {f}, [g \in {f} |-> [field[g] EXCEPT !.name = n, !.place = p]])
    /\ standing' = IF f \in Range(standing) THEN <<>> ELSE standing

SaveField(e) ==
    LET f == editor[e].field
        old == editor[e].loaded
        n == editor[e].name
        p == editor[e].place
    IN  /\ Is(e, "saving")
        /\ Changed(n, old.name) \/ Changed(p, old.place) => Free(f)
        /\ \/ /\ Changed(n, old.name) /\ Taken(n, f)
              /\ Reply(e, "refused")
              /\ UNCHANGED <<field, placedBy, standing>>
           \/ /\ Changed(n, old.name) /\ ~Taken(n, f)
              /\ IF Changed(p, old.place) THEN SavePlace(e, f, n, p) ELSE SaveName(e, f, n)
           \/ /\ ~Changed(n, old.name) /\ Changed(p, old.place)
              /\ SavePlace(e, f, field[f].name, p)
           \/ /\ ~Changed(n, old.name) /\ ~Changed(p, old.place)
              /\ Reply(e, "done")
              /\ UNCHANGED <<field, placedBy, standing>>
        /\ UNCHANGED lock

UpdateField(e) ==
    \/ \E n \in Names \cup {NoField}, p \in Places \cup {NoField} : LoadField(e, n, p)
    \/ SaveField(e)

DeleteField(e) ==
    \/ /\ Is(e, "unsent")
       /\ \E f \in FieldIds :
            IF f \in LiveFields
            THEN editor' = [editor EXCEPT ![e] = [pc |-> "deleting", field |-> f]]
            ELSE Reply(e, "refused")
       /\ UNCHANGED <<field, lock, placedBy, standing>>
    \/ /\ Is(e, "deleting")
       /\ Free(editor[e].field)
       /\ field' = [field EXCEPT ![editor[e].field].live = FALSE]
       /\ Reply(e, "done")
       /\ UNCHANGED <<lock, placedBy, standing>>

-----------------------------------------------------------------------------
(* Reordering.                                                              *)

StartReorder(e) ==
    /\ Is(e, "unsent")
    /\ \E o \in Orders : editor' = [editor EXCEPT ![e] =
            [pc |-> IF o = <<>> THEN "committing" ELSE "reading", order |-> o, at |-> 1,
             loaded |-> 0, wrote |-> [f \in {} |-> 0], alone |-> TRUE]]
    /\ UNCHANGED <<field, lock, placedBy, standing>>

Release(e) == lock' = [f \in FieldIds |-> IF lock[f] = e THEN NoField ELSE lock[f]]

Rollback(e) ==
    /\ Release(e)
    /\ Reply(e, "refused")
    /\ UNCHANGED <<field, placedBy, standing>>

NextInOrder(e) == editor[e].order[editor[e].at]

\* The row as committed, with what the transaction itself wrote to it.
ReadPlace(e) ==
    LET f == NextInOrder(e)
        mine == editor[e].wrote
    IN  /\ Is(e, "reading")
        /\ IF f \notin LiveFields
           THEN Rollback(e)
           ELSE /\ editor' = [editor EXCEPT ![e].pc = "writing",
                        ![e].loaded = IF f \in DOMAIN mine THEN mine[f]
                                      ELSE field[f].place]
                /\ UNCHANGED <<field, lock, placedBy, standing>>

Advance(e, wrote) ==
    editor' = [editor EXCEPT
        ![e].pc = IF editor[e].at = Len(editor[e].order) THEN "committing" ELSE "reading",
        ![e].at = @ + 1,
        ![e].wrote = wrote]

With(wrote, f, p) == [g \in DOMAIN wrote \cup {f} |-> IF g = f THEN p ELSE wrote[g]]

\* Mutant: each definition is committed as it is placed.
WriteAndCommit(e) ==
    LET f == NextInOrder(e)
        p == editor[e].at - 1
    IN  /\ Is(e, "writing")
        /\ Free(f)
        /\ field' = [field EXCEPT ![f].place = p]
        /\ placedBy' = [placedBy EXCEPT ![f] = e]
        /\ Advance(e, With(editor[e].wrote, f, p))
        /\ UNCHANGED <<lock, standing>>

\* A place that is as loaded is not written, and locks nothing.
WritePlace(e) ==
    LET f == NextInOrder(e)
        p == editor[e].at - 1
    IN  /\ Is(e, "writing")
        /\ IF editor[e].loaded = p
           THEN Advance(e, editor[e].wrote) /\ UNCHANGED lock
           ELSE /\ lock[f] \in {NoField, e}
                /\ lock' = [lock EXCEPT ![f] = e]
                /\ Advance(e, With(editor[e].wrote, f, p))
        /\ UNCHANGED <<field, placedBy, standing>>

WaitsFor(e) ==
    IF Is(e, "writing") /\ editor[e].loaded # editor[e].at - 1
    THEN lock[NextInOrder(e)] ELSE NoField

\* The database ends one of the transactions that wait for one another.
Deadlocked(e) ==
    \E S \in SUBSET Editors : e \in S /\ \A x \in S : WaitsFor(x) \in S \ {x}

CommitOrder(e) ==
    LET wrote == editor[e].wrote
    IN  /\ Is(e, "committing")
        /\ Place(e, DOMAIN wrote,
                [f \in DOMAIN wrote |-> [field[f] EXCEPT !.place = wrote[f]]])
        /\ Release(e)
        /\ standing' =
            IF editor[e].alone /\ IsInjective(editor[e].order) THEN editor[e].order
            ELSE IF DOMAIN wrote \cap Range(standing) # {} THEN <<>> ELSE standing

Reorder(e) ==
    \/ StartReorder(e)
    \/ ReadPlace(e)
    \/ WritePlace(e)
    \/ Deadlocked(e) /\ Rollback(e)
    \/ CommitOrder(e)

Edit(e) == CreateField(e) \/ UpdateField(e) \/ DeleteField(e) \/ Reorder(e)

FieldsNext == \E e \in Editors : Edit(e)

-----------------------------------------------------------------------------
(* Properties.                                                              *)

\* A reorder takes effect as a whole: no field is where a refused one put it,
\* and after an accepted one that names each field once its live fields stand
\* in its order until another request moves one of them, unless such a request
\* committed while it ran (custom_fields.py:140-155).
ReorderWhole ==
    /\ \A f \in FieldIds : placedBy[f] \in Editors => ~Is(placedBy[f], "refused")
    /\ \A i, k \in DOMAIN standing :
        i < k /\ {standing[i], standing[k]} \subseteq LiveFields =>
            field[standing[i]].place < field[standing[k]].place

=============================================================================
