----------------------------- MODULE JsonSchemas -----------------------------
(***************************************************************************)
(* The JSON schemas of models (packages/repository-json-schema), as the     *)
(* OpenAPI spec of an application collects them.  The schema of a model     *)
(* refers to those of its properties and relations by title and carries     *)
(* their definitions; schemas are kept with the model and are the same      *)
(* objects everywhere, so that who includes a schema takes its definitions  *)
(* from it.  Models refer to each other in circles, and to themselves.      *)
(*                                                                          *)
(* All of it is one synchronous recursion: a frame is a call of             *)
(* modelToJsonSchema.  Of the options only includeRelations is kept; every  *)
(* class is a model, and none has a title in a jsonSchema of its own.       *)
(***************************************************************************)
EXTENDS Integers, SequencesExt, Selection

CONSTANTS
    Models,
    MaxAsked  \* bound: how many schemas are asked for

VARIABLES
    edges,       \* edges[m]: properties, then relations of m, each to a model
    schemas,     \* the schema objects: title, references and definitions
    kept,        \* kept[m][key]: the object in the metadata of m, or 0
    visited,     \* options.visited: titles and their objects
    frames,      \* the calls under way, the innermost last
    components,  \* the titles defined in the OpenAPI spec
    \* history
    referredTo,  \* the titles that the schemas of the OpenAPI spec refer to
    lost,        \* the definitions that models that refer to themselves have lost
    asked

schemaVars == <<edges, schemas, kept, visited, frames, components, referredTo, lost, asked>>

ModelEdges == [to : Models, relation : BOOLEAN]
Titles == [of : Models, withRelations : BOOLEAN]
Title(m, withRelations) == [of |-> m, withRelations |-> withRelations]
\* buildModelCacheKey: only who asks for a schema has no options at all.
SchemaKeys == {"modelOnly", "model", "modelWithRelations"}
NoSchemas == [k \in SchemaKeys |-> 0]

\* For models that refer to each other as one of these graphs has it.
SchemaInit(graphs) ==
    /\ edges \in graphs
    /\ schemas = <<>>
    /\ kept = [m \in Models |-> NoSchemas]
    /\ visited = <<>>
    /\ frames = <<>>
    /\ components = {} /\ referredTo = {} /\ lost = {}
    /\ asked = 0

\* What a schema has to describe: relations only if they are asked for.
EdgesOf(title) ==
    Within(edges[title.of], {e \in ModelEdges : e.relation => title.withRelations})

\* A call of modelToJsonSchema begins; getJsonSchema has read the metadata of the model
\* before it, and there may have been none.
Called(title, key) ==
    LET s == Len(schemas) + 1
    IN  /\ schemas' = Append(schemas, [title |-> title, refs |-> {}, definitions |-> <<>>])
        /\ frames' = Append(frames, [schema |-> s, key |-> key, fresh |-> kept[title.of] = NoSchemas,
                                    todo |-> EdgesOf(title)])
        /\ visited' = [t \in DOMAIN visited \cup {title} |->
                          IF t = title THEN s ELSE visited[t]]

\* Mutant: the definitions of what is included are not promoted.
IncludedAlone(p, s) ==
    LET name == schemas[s].title
        own == [schemas EXCEPT ![s].definitions = <<>>, ![p].refs = @ \cup {name}]
    IN  IF p = s THEN own
        ELSE [own EXCEPT ![p].definitions =
                [t \in DOMAIN @ \cup {name} |-> IF t = name THEN s ELSE @[t]]]

\* A property of p refers to s, and includeReferencedSchema: the definitions of s become
\* those of p, and s is one of them.
Included(p, s) ==
    LET name == schemas[s].title
        promoted == DOMAIN schemas[s].definitions \ {schemas[p].title}
        own == [schemas EXCEPT ![s].definitions = <<>>, ![p].refs = @ \cup {name}]
    IN  IF p = s THEN own
        ELSE [own EXCEPT ![p].definitions =
                [t \in DOMAIN @ \cup promoted \cup {name} |->
                    IF t = name THEN s
                    ELSE IF t \in promoted THEN schemas[s].definitions[t] ELSE @[t]]]

Lost(p, s) == IF p = s THEN DOMAIN schemas[s].definitions ELSE {}

\* getJsonSchemaRef and assignRelatedSchemas: the schema and its definitions go into the
\* OpenAPI spec of the application.
Documented(s) ==
    LET definitions == {s} \cup Range(schemas[s].definitions)
    IN  /\ components' = components \cup {schemas[d].title : d \in definitions}
        /\ referredTo' = referredTo \cup UNION {schemas[d].refs : d \in definitions}

---------------------------------------------------------------------------
\* getModelSchemaRef of a decorator asks for the schema of a model.
AskSchema(m, withRelations) ==
    LET key == IF withRelations THEN "modelWithRelations" ELSE "modelOnly"
    IN  /\ frames = <<>> /\ asked < MaxAsked
        /\ asked' = asked + 1
        /\ IF kept[m][key] # 0
           THEN /\ Documented(kept[m][key])
                /\ UNCHANGED <<schemas, frames, visited>>
           ELSE /\ Called(Title(m, withRelations), key)
                /\ UNCHANGED <<components, referredTo>>
        /\ UNCHANGED <<edges, kept, lost>>

\* The next property or relation of the innermost call: its schema is kept, is being made
\* (which is kept as well), or has to be made.
Refer ==
    /\ frames # <<>> /\ Last(frames).todo # <<>>
    /\ LET p == Last(frames).schema
           e == Head(Last(frames).todo)
           title == Title(e.to, e.relation)
           key == IF e.relation THEN "modelWithRelations" ELSE "model"
           s == IF kept[e.to][key] # 0 THEN kept[e.to][key]
                ELSE IF title \in DOMAIN visited THEN visited[title] ELSE 0
       IN  IF s # 0
           THEN /\ schemas' = Included(p, s)
                /\ lost' = lost \cup Lost(p, s)
                /\ kept' = [kept EXCEPT ![e.to][key] = s]
                /\ frames' = [frames EXCEPT ![Len(frames)].todo = Tail(@)]
                /\ UNCHANGED visited
           ELSE Called(title, key) /\ UNCHANGED <<kept, lost>>
    /\ UNCHANGED <<edges, components, referredTo, asked>>

\* getJsonSchema keeps s with m.  Metadata that was missing is defined anew: what a circle
\* has kept with m in the meantime is dropped.
Keep(m, key, s, fresh) ==
    kept' = [kept EXCEPT ![m] = [IF fresh THEN NoSchemas ELSE @ EXCEPT ![key] = s]]

\* The innermost call returns: its schema is kept, and included where it was needed.
ReturnSchema ==
    /\ frames # <<>> /\ Last(frames).todo = <<>>
    /\ LET s == Last(frames).schema
           callers == Front(frames)
       IN  /\ Keep(schemas[s].title.of, Last(frames).key, s, Last(frames).fresh)
           /\ IF callers = <<>>
              THEN /\ Documented(s)
                   /\ frames' = <<>> /\ visited' = <<>>
                   /\ UNCHANGED <<schemas, lost>>
              ELSE /\ schemas' = Included(Last(callers).schema, s)
                   /\ lost' = lost \cup Lost(Last(callers).schema, s)
                   /\ frames' = [callers EXCEPT ![Len(callers)].todo = Tail(@)]
                   /\ UNCHANGED <<visited, components, referredTo>>
    /\ UNCHANGED <<edges, asked>>

SchemaNext ==
    \/ \E m \in Models, withRelations \in BOOLEAN : AskSchema(m, withRelations)
    \/ Refer
    \/ ReturnSchema

SchemaSpec(graphs) == SchemaInit(graphs) /\ [][SchemaNext]_schemaVars

---------------------------------------------------------------------------
\* The OpenAPI spec defines every schema that its schemas refer to, in whatever order they
\* were asked for and although each has its definitions in one place only.  Lost are those
\* of a model that refers to itself after it has referred to others.
SchemasDefined == referredTo \ lost \subseteq components
=============================================================================
