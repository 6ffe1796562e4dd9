------------------------------ MODULE Inclusion ------------------------------
(***************************************************************************)
(* The inclusion resolvers of packages/repository/src/relations: for every  *)
(* entity of a list the instances related to it, found by few queries and   *)
(* put back in the place of the entity they belong to.                      *)
(*                                                                          *)
(* A table is the sequence of its rows in the order the database returns    *)
(* them; a row has a key, the property the query asks for.  Keys are        *)
(* numbers, among them 0, which is false for JavaScript, and NoKey for an   *)
(* undefined one.  Of the scope of an inclusion its limits are kept, 0 for  *)
(* none.  Keys are of one kind in code and database (normalizeKey, for      *)
(* MongoDB, is left out), and all fields are included.                      *)
(***************************************************************************)
EXTENDS Integers, SequencesExt, Selection, Subject

NoKey == -1
Truthy(key) == key \notin {0, NoKey}

\* For no related instance, and for no list of them: undefined.
Nothing == [key |-> NoKey, id |-> NoKey]
NoList == <<Nothing>>

NoScope == [limit |-> 0, totalLimit |-> 0]

WithKeys(rows, keys) == Within(rows, {row \in ToSet(rows) : row.key \in keys})

\* What a repository finds: the rows with one of the keys, up to a limit if there is one.
Limited(rows, limit) ==
    IF limit = 0 \/ Len(rows) <= limit THEN rows ELSE SubSeq(rows, 1, limit)
Query(table, keys, limit) == Limited(WithKeys(table, ToSet(keys)), limit)

\* Mutant: a query for each key whenever there is a limit.
FindForEach(table, keys, scope, throughInclude) ==
    LET limit == IF scope.totalLimit > 0 THEN scope.totalLimit ELSE scope.limit
    IN  IF scope.limit = 0 THEN Query(table, keys, limit)
        ELSE FlattenSeq([i \in 1..Len(keys) |-> Query(table, <<keys[i]>>, limit)])

\* findByForeignKeys: one query, or one for each key if each has its own limit.
FindByForeignKeys(table, keys, scope, throughInclude) ==
    LET once == throughInclude \/ scope.limit = 0 \/ scope.totalLimit > 0
        limit == IF scope.totalLimit > 0 THEN scope.totalLimit ELSE scope.limit
    IN  IF once THEN Query(table, keys, limit)
        ELSE FlattenSeq([i \in 1..Len(keys) |-> Query(table, <<keys[i]>>, limit)])

\* deduplicate
Deduplicate(keys) == Distinct(keys)

\* The keys that are asked for: undefined and 0 are not.
Asked(keys) == Within(Deduplicate(keys), {k \in ToSet(keys) : Truthy(k)})

\* flattenTargetsOfOneToManyRelation: all the rows found for a key.
FlattenMany(keys, found) ==
    [i \in 1..Len(keys) |->
        LET own == WithKeys(found, {keys[i]})
        IN  IF own = <<>> THEN NoList ELSE own]

\* flattenTargetsOfOneToOneRelation: the last row found for a key.
FlattenOne(keys, found) ==
    [i \in 1..Len(keys) |->
        LET own == WithKeys(found, {keys[i]})
        IN  IF own = <<>> THEN Nothing ELSE own[Len(own)]]

KeysOf(entities) == [i \in 1..Len(entities) |-> entities[i].key]

\* createHasManyInclusionResolver
HasMany(entities, table, scope) ==
    LET keys == KeysOf(entities)
    IN  FlattenMany(keys, FindByForeignKeys(table, keys, scope, FALSE))

\* createReferencesManyInclusionResolver.  An entity has a list of keys.
ReferencesMany(entities, table, scope) ==
    LET found == FindByForeignKeys(table, Asked(FlattenSeq(KeysOf(entities))), scope, FALSE)
        targets(i) == FlattenOne(entities[i].key, found)
    IN  [i \in 1..Len(entities) |-> Within(targets(i), ToSet(targets(i)) \ {Nothing})]

TypesOf(entities) == {e.type : e \in ToSet(entities)}
OfType(entities, type) == Within(entities, {e \in ToSet(entities) : e.type = type})

\* Which of the entities, or rows, of its type the n-th is.
PlaceInType(rows, n) == Len(OfType(SubSeq(rows, 1, n), rows[n].type))

\* How a list by type is merged: each entity takes, by shift(), the next one of its type.
Merge(entities, lists) ==
    [i \in 1..Len(entities) |-> lists[entities[i].type][PlaceInType(entities, i)]]

\* createBelongsToInclusionResolver, with a table for each type.
BelongsTo(entities, tables, scope) ==
    LET targets == [type \in TypesOf(entities) |->
            LET keys == KeysOf(OfType(entities, type))
            IN  FlattenOne(keys, FindByForeignKeys(tables[type], Asked(keys), scope, FALSE))]
    IN  Merge(entities, targets)

\* createHasOneInclusionResolver, with a table for each type.
HasOne(entities, tables, scope) ==
    LET targets == [type \in TypesOf(entities) |->
            LET keys == KeysOf(OfType(entities, type))
            IN  FlattenOne(keys, FindByForeignKeys(tables[type], keys, scope, FALSE))]
    IN  Merge(entities, targets)

TargetKeys(links) == [i \in 1..Len(links) |-> links[i].to]

\* createHasManyThroughInclusionResolver for targets of one type: the rows of the through
\* table for each entity, then a query for the targets of each.
HasManyThrough(entities, through, table, scope) ==
    LET links == HasMany(entities, through, NoScope)
    IN  [i \in 1..Len(entities) |->
            IF links[i] = NoList THEN NoList
            ELSE FindByForeignKeys(table, TargetKeys(links[i]), scope, TRUE)]

\* The same for targets of several types: a query for each type, whose targets are dealt
\* out, by shift(), to the rows of that type of all the entities.  A row that comes when
\* there are no more gets none.
HasManyThroughTypes(entities, through, tables, scope) ==
    LET links == HasMany(entities, through, NoScope)
        lists == [i \in 1..Len(links) |-> IF links[i] = NoList THEN <<>> ELSE links[i]]
        listed == FlattenSeq(lists)
        found(type) == FindByForeignKeys(tables[type], TargetKeys(OfType(listed, type)), scope,
                                         FALSE)
        before(i) == Len(FlattenSeq(SubSeq(lists, 1, i - 1)))
        \* what the n-th of all the rows gets
        dealt(n) == LET type == listed[n].type
                        place == PlaceInType(listed, n)
                    IN  IF place <= Len(found(type)) THEN <<found(type)[place]>> ELSE <<>>
    IN  [i \in 1..Len(entities) |->
            IF links[i] = NoList THEN NoList
            ELSE FlattenSeq([j \in 1..Len(links[i]) |-> dealt(before(i) + j)])]

---------------------------------------------------------------------------
(* What an inclusion is asked: the entities of a list, keys and types of     *)
(* theirs, and tables with the rows of each type.                            *)
RowsWith(keys) == [key : keys, id : Nat]
Scopes == [limit : Nat, totalLimit : Nat]
IncludedCalls(keys, types) ==
    [kind : {"hasMany"}, entities : Seq([key : keys]), table : Seq(RowsWith(keys)),
     scope : Scopes]
    \cup [kind : {"byType"}, entities : Seq([key : keys, type : types]),
          tables : [types -> Seq(RowsWith(keys))], scope : Scopes]
    \cup [kind : {"references"}, entities : Seq([key : Seq(keys)]), table : Seq(RowsWith(keys)),
          scope : Scopes]
    \cup [kind : {"through"}, entities : Seq([key : keys]),
          through : Seq([key : keys, to : keys, type : types]),
          tables : [types -> Seq(RowsWith(keys))], scope : Scopes]

---------------------------------------------------------------------------
(* Properties, of the entities of one query and the tables. *)

Own(table, key) == WithKeys(table, {key})
DistinctKeys(entities) == IsInjective(KeysOf(entities))

\* Every entity gets all its instances and no other's, up to the limit of the scope, in
\* the order of the table; with a limit per key only if no two entities have one key.
HasManyGetsOwn(entities, table, scope) ==
    (scope.totalLimit = 0 /\ (scope.limit = 0 \/ DistinctKeys(entities))) =>
        \A i \in 1..Len(entities) :
            LET own == Limited(Own(table, entities[i].key), scope.limit)
            IN  HasMany(entities, table, scope)[i] = IF own = <<>> THEN NoList ELSE own

\* A total limit holds for all entities together, and what they get is their own.
TotalLimitHolds(entities, table, scope) ==
    (scope.totalLimit > 0 /\ DistinctKeys(entities)) =>
        LET got == HasMany(entities, table, scope)
            all == FlattenSeq(Within(got, ToSet(got) \ {NoList}))
        IN  /\ Len(all) <= scope.totalLimit
            /\ \A i \in 1..Len(entities) : got[i] # NoList =>
                    IsPrefix(got[i], Own(table, entities[i].key))

\* Every entity gets the instance of its own type and key, also when instances of one key
\* are of several types, keys repeat or are missing; a key of 0 is taken for none.
BelongsToGetsOwn(entities, tables, scope) ==
    (scope.totalLimit = 0 /\ \A t \in DOMAIN tables : IsInjective(KeysOf(tables[t]))) =>
        \A i \in 1..Len(entities) :
            LET own == Own(tables[entities[i].type], entities[i].key)
            IN  BelongsTo(entities, tables, scope)[i] =
                    IF own = <<>> \/ ~Truthy(entities[i].key) THEN Nothing ELSE own[1]

\* Every entity that has an instance gets one of its own.
HasOneGetsOwn(entities, tables, scope) ==
    scope.totalLimit = 0 =>
        \A i \in 1..Len(entities) :
            LET own == Own(tables[entities[i].type], entities[i].key)
                got == HasOne(entities, tables, scope)[i]
            IN  IF own = <<>> THEN got = Nothing ELSE got \in ToSet(own)

\* Every entity gets the instances its list refers to, in the order of the list.
ReferencesInOrder(entities, table, scope) ==
    (scope.totalLimit = 0 /\ IsInjective(KeysOf(table))) =>
        \A i \in 1..Len(entities) :
            KeysOf(ReferencesMany(entities, table, scope)[i]) =
                Within(entities[i].key, {k \in ToSet(entities[i].key) :
                                            Truthy(k) /\ Own(table, k) # <<>>})

\* Every entity gets the targets its links lead to, each once and in the order of their
\* table, up to the limit of the scope; targets may be shared.
ThroughGetsLinked(entities, through, table, scope) ==
    scope.totalLimit = 0 =>
        \A i \in 1..Len(entities) :
            LET links == Own(through, entities[i].key)
                linked == Within(table, {row \in ToSet(table) :
                            \E j \in 1..Len(links) : links[j].to = row.key})
            IN  HasManyThrough(entities, through, table, scope)[i] =
                    IF links = <<>> THEN NoList ELSE Limited(linked, scope.limit)

\* With targets of several types every entity gets what its links lead to as long as no
\* target is shared or missing, and the tables have the targets in the order of the links
\* of the entities: the order in which the code takes them to be found.
ThroughTypesGetLinked(entities, through, tables) ==
    LET links == FlattenSeq([i \in 1..Len(entities) |-> Own(through, entities[i].key)])
        keys(type) == TargetKeys(OfType(links, type))
        inOrder(type) == KeysOf(WithKeys(tables[type], ToSet(keys(type)))) = keys(type)
    IN  (\A t \in DOMAIN tables : inOrder(t)) =>
        \A i \in 1..Len(entities) :
            LET own == Own(through, entities[i].key)
                got == HasManyThroughTypes(entities, through, tables, NoScope)[i]
            IN  IF own = <<>> THEN got = NoList
                ELSE /\ Len(got) = Len(own)
                     /\ \A j \in 1..Len(own) :
                            got[j] \in ToSet(Own(tables[own[j].type], own[j].to))

OfKind(kind) == subject = "inclusion" /\ input.kind = kind

\* HasManyGetsOwn, TotalLimitHolds, BelongsToGetsOwn, HasOneGetsOwn, ReferencesInOrder,
\* ThroughGetsLinked and ThroughTypesGetLinked: every entity is given the targets its own
\* key or keys, or the through model, lead to, each under the condition that its definition
\* names. Where the targets of a through model are of several types that is a narrow one:
\* the code takes them to be found in the order of the links ("Why the order is correct"),
\* as they are if none is shared or missing and each table has that order. Key 0 is taken
\* for none.
IncludesOwn ==
    /\ OfKind("hasMany") =>
          /\ HasManyGetsOwn(input.entities, input.table, input.scope)
          /\ TotalLimitHolds(input.entities, input.table, input.scope)
    /\ OfKind("byType") =>
          /\ BelongsToGetsOwn(input.entities, input.tables, input.scope)
          /\ HasOneGetsOwn(input.entities, input.tables, input.scope)
    /\ OfKind("references") => ReferencesInOrder(input.entities, input.table, input.scope)
    /\ OfKind("through") =>
          /\ \A type \in DOMAIN input.tables :
                ThroughGetsLinked(input.entities, input.through, input.tables[type], input.scope)
          /\ ThroughTypesGetLinked(input.entities, input.through, input.tables)
=============================================================================
