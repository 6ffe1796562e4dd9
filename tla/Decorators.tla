------------------------------ MODULE Decorators ------------------------------
(***************************************************************************)
(* The metadata that decorators leave at a class and its subclass            *)
(* (packages/metadata/src/decorator-factory.ts): a decorator copies the      *)
(* metadata its class inherits, or adds to what the class has already, and   *)
(* both may be objects that other members or decorators refer to as well.    *)
(*                                                                           *)
(* A member is a property, a method or a parameter of a method; a class      *)
(* decorator is a property decorator with one member.  Every spec is an      *)
(* object with a field of its own and field 0, or, for decorators that add   *)
(* up, an array of one item: as a value, the field or item is the number of  *)
(* the spec.  Object n + Specs is the copy of object n.                      *)
(***************************************************************************)
EXTENDS Integers, SequencesExt, Selection

CONSTANTS
    Specs,    \* the number of spec objects
    SpecOf,   \* SpecOf[d]: the spec of decorator d; without cloneInputSpec they may share one
    Members,
    MaxDecorations  \* bound: the decorations of a behaviour

ASSUME DecoratorAssumption == Specs \in Nat /\ \A d \in DOMAIN SpecOf : SpecOf[d] \in 1..Specs

VARIABLES
    factory,   \* the factory of the decorators and its option allowInheritance
    object,    \* object[o]: what it holds and its hidden property "target"
    metadata,  \* metadata[cls]: is it there, and the object of each member
    \* history
    applied,   \* the decorations, in order
    refused    \* the decorations that threw

decoratorVars == <<factory, object, metadata, applied, refused>>

Factories == {"property", "method", "parameter", "multi"}
Classes == {"base", "sub"}
NoObject == 0
NoMetadata == [is |-> FALSE, of |-> [m \in Members |-> NoObject]]

SpecValue(s) == IF factory.kind = "multi" THEN <<s>> ELSE [f \in {0, s} |-> s]

DecoratorInit ==
    /\ factory \in [kind : Factories, allowInheritance : BOOLEAN]
    /\ object = [o \in 1..(2 * Specs) |->
                    [value |-> IF o > Specs THEN <<>> ELSE SpecValue(o), target |-> "none"]]
    /\ metadata = [cls \in Classes |-> NoMetadata]
    /\ applied = <<>>
    /\ refused = {}

\* Object.assign, and push() of an array
Assigned(target, source) ==
    [f \in DOMAIN target \cup DOMAIN source |->
        IF f \in DOMAIN source THEN source[f] ELSE target[f]]

\* Results of a merge: the objects after it, the object of the member, and the one that is
\* given its class by withTarget().
MergeOf(objects, o, target) == [objects |-> objects, of |-> o, target |-> target]

\* inherit(): an inherited object is changed and kept.
Inherit(objects, inherited, s) ==
    IF inherited = NoObject \/ ~factory.allowInheritance THEN MergeOf(objects, s, s)
    ELSE MergeOf([objects EXCEPT ![inherited].value = Assigned(@, objects[s].value)],
               inherited, inherited)

\* _mergeArray(): the first array is kept, and grows.
MergeArray(objects, result, s) ==
    IF result = NoObject THEN MergeOf(objects, s, s)
    ELSE MergeOf([objects EXCEPT ![result].value = @ \o objects[s].value], result, s)

\* Mutant: the subclass is given the objects of the base class.
NotCloned(objects, of) == [objects |-> objects, of |-> of]

\* cloneDeep() of a map keeps what its members share, and loses their targets, which are
\* not enumerable.
CloneDeep(objects, of) ==
    [objects |-> [o \in 1..(2 * Specs) |->
                    IF o > Specs THEN [objects[o - Specs] EXCEPT !.target = "none"]
                    ELSE objects[o]],
     of |-> [m \in Members |-> IF of[m] = NoObject THEN NoObject ELSE of[m] + Specs]]

Refuse(d, cls, m) ==
    /\ refused' = refused \cup {[by |-> d, at |-> cls, member |-> m]}
    /\ UNCHANGED <<object, metadata, applied>>

\* withTarget() throws for an object that has the target of another class; otherwise the
\* metadata is defined.
Define(d, cls, m, of, merge) ==
    IF merge.objects[merge.target].target \notin {"none", cls} THEN Refuse(d, cls, m)
    ELSE /\ object' = [merge.objects EXCEPT ![merge.target].target = cls]
         /\ metadata' = [metadata EXCEPT ![cls] =
                            [is |-> TRUE, of |-> [of EXCEPT ![m] = merge.of]]]
         /\ applied' = Append(applied, [by |-> d, at |-> cls, member |-> m])
         /\ UNCHANGED refused

MergeWithInherited(d, cls, m) ==
    LET inherited == IF cls = "sub" THEN metadata["base"].of ELSE NoMetadata.of
        copy == CloneDeep(object, inherited)
    IN  Define(d, cls, m, copy.of,
            IF factory.kind = "multi" THEN MergeArray(copy.objects, copy.of[m], SpecOf[d])
            ELSE Inherit(copy.objects, copy.of[m], SpecOf[d]))

\* What a member has already: a duplicate is refused, for properties also what the class
\* has inherited; the spec replaces what methods have inherited, and is merged into that
\* of parameters.
MergeWithOwn(d, cls, m) ==
    LET own == metadata[cls].of
        duplicate == own[m] # NoObject /\ (factory.kind = "property" \/ object[own[m]].target = cls)
    IN  IF factory.kind # "multi" /\ duplicate THEN Refuse(d, cls, m)
        ELSE Define(d, cls, m, own,
                CASE factory.kind = "multi" -> MergeArray(object, own[m], SpecOf[d])
                  [] factory.kind = "parameter" -> Inherit(object, own[m], SpecOf[d])
                  [] OTHER -> MergeOf(object, SpecOf[d], SpecOf[d]))

\* A decorator is applied: to members of the base class, which is there first, or of its
\* subclass.
Decorate(d, cls, m) ==
    /\ cls = "base" => \A i \in 1..Len(applied) : applied[i].at = "base"
    /\ IF ~metadata[cls].is /\ factory.allowInheritance
       THEN MergeWithInherited(d, cls, m)
       ELSE MergeWithOwn(d, cls, m)
    /\ UNCHANGED factory

\* A decorator that throws ends the definition of the classes.
DecoratorNext ==
    /\ Len(applied) < MaxDecorations /\ refused = {}
    /\ \E d \in DOMAIN SpecOf, cls \in Classes, m \in Members : Decorate(d, cls, m)

DecoratorSpec == DecoratorInit /\ [][DecoratorNext]_decoratorVars

---------------------------------------------------------------------------
\* What MetadataInspector gets for a member, also where the class has inherited all.
GetMetadata(cls, m) ==
    LET of == IF metadata[cls].is THEN metadata[cls].of[m] ELSE metadata["base"].of[m]
    IN  IF of = NoObject THEN <<>> ELSE object[of].value

DecorationsIn(classes, members) == [by : DOMAIN SpecOf, at : classes, member : members]

\* The decorations of a member, and the first of a class.
DecorationsOf(cls, m) == Within(applied, DecorationsIn({cls}, {m}))
FirstOf(cls) == Within(applied, DecorationsIn({cls}, Members))[1]

\* No object is the spec of two decorations: each has a decorator and a spec of its own.
NothingShared(decorations) ==
    \A i, j \in 1..Len(decorations) :
        SpecOf[decorations[i].by] = SpecOf[decorations[j].by] => i = j

\* What the decorations of a member alone would give it.
OwnValue(cls, m) ==
    LET own == DecorationsOf(cls, m)
        specs == [i \in 1..Len(own) |-> SpecOf[own[i].by]]
    IN  IF own = <<>> THEN <<>>
        ELSE IF factory.kind = "multi" THEN specs ELSE SpecValue(specs[1])

\* What a member of the subclass gets: what it inherits where it is not decorated, its own
\* spec otherwise, merged into what it inherits by the first decoration of the subclass and
\* by those of parameters.  Of what other decorations leave of the inherited value this says
\* nothing (see SpecsMergeIntoInherited).
SubGets(m, value) ==
    LET own == OwnValue("sub", m)
        inherited == OwnValue("base", m)
        merges == factory.kind = "parameter" \/ FirstOf("sub").member = m
    IN  IF ~metadata["sub"].is THEN value = inherited
        ELSE IF ~factory.allowInheritance THEN value = own
        ELSE IF factory.kind = "multi" THEN value = inherited \o own
        ELSE IF own = <<>> THEN value = inherited
        ELSE IF merges THEN value = Assigned(inherited, own)
        ELSE \A f \in DOMAIN own : f \in DOMAIN value /\ value[f] = own[f]

\* A property of the subclass that it inherits, and not the first that is decorated.
LaterInherited(r) ==
    /\ factory.kind = "property" /\ r.at = "sub" /\ metadata["sub"].is
    /\ DecorationsOf("base", r.member) # <<>>

\* Where nothing is shared, decorating a subclass leaves the base class and the other
\* members as they are, a member of the subclass has what its decorators give it, and a
\* decoration is refused only where the member is decorated already (nothing is said of
\* inherited properties that are decorated later).
DecoratorsInherit ==
    /\ NothingShared(applied) => \A m \in Members :
          /\ GetMetadata("base", m) = OwnValue("base", m)
          /\ SubGets(m, GetMetadata("sub", m))
          /\ factory.kind # "multi" => \A cls \in Classes : Len(DecorationsOf(cls, m)) <= 1
    /\ \A r \in refused : NothingShared(Append(applied, r)) /\ ~LaterInherited(r) =>
          factory.kind # "multi" /\ DecorationsOf(r.at, r.member) # <<>>

\* "If the metadata is an object, we merge the spec argument from the decorator function into
\* the inherited value from base classes" (packages/metadata/README.md), and a decorator is
\* refused only where it "cannot be applied more than once".  The code does so for the first
\* member of a subclass that is decorated (mergeWithInherited), not for the later ones
\* (mergeWithOwn): a method loses what it inherits, a property is refused.
SpecsMergeIntoInherited ==
    factory.allowInheritance /\ factory.kind # "multi" =>
        /\ NothingShared(applied) => \A m \in Members :
              DecorationsOf("sub", m) # <<>> =>
                 GetMetadata("sub", m) = Assigned(OwnValue("base", m), OwnValue("sub", m))
        /\ \A r \in refused : NothingShared(Append(applied, r)) =>
              DecorationsOf(r.at, r.member) # <<>>
=============================================================================
