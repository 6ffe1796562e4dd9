-------------------------- MODULE RelationConstraints --------------------------
(***************************************************************************)
(* How a relation keeps callers to its own instances: the constraint on the *)
(* foreign key is joined to their filters (WhereBuilder and FilterBuilder   *)
(* of packages/filter/src/query.ts) and to their data                       *)
(* (packages/repository/src/repositories/constraint-utils.ts).              *)
(*                                                                          *)
(* A where object has conditions on properties, and may have an "and" and   *)
(* an "or" clause: a record of a function from some properties to the       *)
(* values they may have, and of two sequences of where objects, empty if    *)
(* the clause is not there.                                                 *)
(***************************************************************************)
EXTENDS Naturals, SequencesExt, Subject

CONSTANTS
    Properties,  \* the names of a model's properties
    Values,      \* the values they may have
    Nesting      \* how deep clauses are nested in the clauses of a where object

ASSUME ConstraintConstants == Nesting \in Nat /\ Nesting >= 2

NoClause == <<>>
Condition(props) == [props |-> props, and |-> NoClause, or |-> NoClause]
NoCondition == Condition(<<>>)

\* Object.keys
Keys(w) == DOMAIN w.props \cup (IF w.and = NoClause THEN {} ELSE {"and"})
                          \cup (IF w.or = NoClause THEN {} ELSE {"or"})

\* Object.assign of objects without a key in common
Merged(w, x) == [props |-> [p \in DOMAIN w.props \cup DOMAIN x.props |->
                                IF p \in DOMAIN x.props THEN x.props[p] ELSE w.props[p]],
                 and |-> w.and \o x.and, or |-> w.or \o x.or]

\* Mutant: the constraint replaces conditions with its keys, and clauses are joined.
AddAssigned(w, x) == Merged(w, x)

\* WhereBuilder.add: an "and" of both if they have a key in common.
Add(w, x) == IF Keys(w) \cap Keys(x) # {}
             THEN [NoCondition EXCEPT !.and = <<w, x>>]
             ELSE Merged(w, x)

\* WhereBuilder.impose of a builder made with the caller's where object or none.
ConstrainWhere(w, constraint) == Add(w, constraint)

\* WhereBuilder.or
ConstrainWhereOr(w, clauses) == Add(w, [NoCondition EXCEPT !.or = clauses])

\* The properties of a filter object other than "where".
NonWhereFields == {"fields", "order", "limit", "skip", "offset", "include"}

\* isFilter: an object with no property but those of a filter, be it a constraint on a
\* model whose properties have these names.
IsFilter(constraint) == Keys(constraint) \subseteq NonWhereFields \cup {"where"}

\* FilterBuilder.impose throws for a constraint that it takes for a filter: no merging is
\* implemented for its fields, and an empty one has no where object to impose.
ConstrainFilterThrows(constraint) == IsFilter(constraint)
ConstrainFilter(where, constraint) == ConstrainWhere(where, constraint)

\* constrainDataObject throws where the data has another value than the constraint, and
\* adds what it does not have.
ConstrainDataThrows(data, constraint) ==
    \E p \in DOMAIN constraint \cap DOMAIN data : data[p] # constraint[p]

ConstrainDataObject(data, constraint) ==
    [p \in DOMAIN data \cup DOMAIN constraint |->
        IF p \in DOMAIN data THEN data[p] ELSE constraint[p]]

---------------------------------------------------------------------------
(* What a where object means to a database: the instances it selects.        *)

Instances == [Properties -> Values]
PropFunctions(S) == UNION {[ps -> S] : ps \in SUBSET Properties}

\* Where objects with these as clauses, and what one selects where selected[c] is what a
\* clause c does.
WhereObjects(clauses) ==
    [props : PropFunctions(SUBSET Values), and : Seq(clauses), or : Seq(clauses)]
SelectedBy(w, selected) ==
    {row \in Instances :
        /\ \A p \in DOMAIN w.props : row[p] \in w.props[p]
        /\ \A i \in 1..Len(w.and) : row \in selected[w.and[i]]
        /\ w.or # NoClause => \E i \in 1..Len(w.or) : row \in selected[w.or[i]]}

\* The same for all where objects, n deep.
Selects[n \in 0..Nesting] ==
    IF n = 0 THEN <<>>
    ELSE [w \in WhereObjects(DOMAIN Selects[n - 1]) |-> SelectedBy(w, Selects[n - 1])]
Selected(w) == Selects[Nesting][w]

(* Properties, of a caller's where object and data, and a constraint. *)

\* What a relation is asked: to be imposed, as an or-clause and beside other clauses, a
\* where object is less deep than any.
ConstrainedCalls ==
    [where : DOMAIN Selects[Nesting - 2], constraint : DOMAIN Selects[Nesting - 2],
     data : PropFunctions(Values), key : PropFunctions(Values)]

\* What the constrained filter selects is what the caller's selects of the instances of
\* the relation, whatever keys and clauses the two have in common.
ConstraintAlwaysHolds(w, constraint) ==
    /\ Selected(ConstrainWhere(w, constraint)) = Selected(w) \cap Selected(constraint)
    /\ ~ConstrainFilterThrows(constraint) =>
            Selected(ConstrainFilter(w, constraint)) \subseteq Selected(constraint)
    /\ Selected(ConstrainWhereOr(w, <<constraint>>)) = Selected(w) \cap Selected(constraint)

\* Data that is written through a relation carries its key, and is otherwise the caller's;
\* data that says otherwise is refused, never overwritten.
DataCarriesConstraint(data, constraint) ==
    LET written == ConstrainDataObject(data, constraint)
    IN  /\ ~ConstrainDataThrows(data, constraint) =>
                /\ \A p \in DOMAIN constraint : written[p] = constraint[p]
                /\ \A p \in DOMAIN data : written[p] = data[p]
        /\ ConstrainDataThrows(data, constraint) =
                ~\E row \in [DOMAIN written -> Values] :
                    /\ \A p \in DOMAIN constraint : row[p] = constraint[p]
                    /\ \A p \in DOMAIN data : row[p] = data[p]

\* ConstraintAlwaysHolds and DataCarriesConstraint: a filter narrows the constraint of the
\* relation, and data is given its key or refused.
ConstraintsHold ==
    subject = "constraints" =>
        /\ ConstraintAlwaysHolds(input.where, input.constraint)
        /\ DataCarriesConstraint(input.data, input.key)
=============================================================================
