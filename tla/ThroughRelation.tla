--------------------------- MODULE ThroughRelation ---------------------------
(***************************************************************************)
(* A has-many-through relation (packages/repository/src/relations/has-many) *)
(* over a database with a table of targets and a table of rows that link    *)
(* sources to targets.  Every operation of the relation is a series of      *)
(* statements with an await between each two; the database executes one     *)
(* statement at a time, keeps no constraint between the tables and no       *)
(* transaction around a series, and every statement may fail.               *)
(*                                                                          *)
(* The targets are of one type (no polymorphism).  Of a target only its     *)
(* colour is kept, the property that filters ask for and patches change.    *)
(* The rows are a set: the relation reads and removes all the rows with the *)
(* same ends together.                                                      *)
(***************************************************************************)
EXTENDS Naturals, FiniteSets

CONSTANTS
    Callers,    \* each makes one call
    Sources,    \* ids of the sources, each with a repository of its own
    TargetIds,  \* ids the database gives to targets
    Colours,    \* what targets can be told apart by
    NewColours, \* the colours create() and patch() are called with
    Filters     \* the filters callers pass, as the sets of colours they accept

ASSUME ColoursAssumption ==
    /\ NewColours \subseteq Colours /\ NewColours # {}
    /\ "none" \notin Colours /\ "gone" \notin Colours

ASSUME FiltersAssumption == Filters \subseteq SUBSET Colours

ASSUME SourcesAssumption == Sources # {}

VARIABLES
    targets,  \* id -> "none" until it is created, a colour, or "gone"
    rows,     \* the rows of the through table
    call,     \* caller -> its call: see CallType
    \* history
    alone,    \* caller -> the tables when its call began, as long as no other call ran
    by,       \* target -> the source and filter of the delete() that removed it
    raced     \* targets that were linked, or patched, in the middle of a delete()

vars == <<targets, rows, call, alone, by, raced>>

Row == [from : Sources, to : TargetIds]
Ops == {"create", "find", "delete", "patch", "link", "unlink", "unlinkAll"}
AllTargets == [filtered |-> FALSE, accepts |-> Colours]
Wheres == {AllTargets} \cup {[filtered |-> TRUE, accepts |-> f] : f \in Filters}

\* Where a call stands: which of its statements comes next.
Running == {"begun", "linking", "unlinking", "finding", "patching",
            "matching", "dropping", "deleting"}
CallType == [op : Ops, source : Sources, where : Wheres, colour : NewColours,
             at : {"idle", "done", "failed"} \cup Running,
             keys : SUBSET TargetIds,   \* targets of the rows it has read
             ids : SUBSET TargetIds,    \* targets that matched its filter
             found : SUBSET TargetIds]  \* what it returns or counts
Tables == [is : BOOLEAN, rows : SUBSET Row,
           targets : [TargetIds -> {"none", "gone"} \cup Colours]]

Exists(t) == targets[t] \in Colours

\* The rows and targets a constraint or a filter selects.
TargetsOf(s, rs) == {r.to : r \in {x \in rs : x.from = s}}

Accepted(where, tgts) == {t \in TargetIds : tgts[t] \in where.accepts}

\* What is kept of a call that has not begun, or has ended.
Idle(at, result) ==
    [op |-> "find", source |-> CHOOSE s \in Sources : TRUE, where |-> AllTargets,
     colour |-> CHOOSE k \in NewColours : TRUE, at |-> at, keys |-> {}, ids |-> {},
     found |-> result]
NotAlone == [is |-> FALSE, rows |-> {}, targets |-> [t \in TargetIds |-> "none"]]

\* The tables hold anything that ended calls of one at a time without filters leave.
Init ==
    /\ targets \in [TargetIds -> {"none"} \cup Colours]
    /\ rows \in SUBSET {r \in Row : Exists(r.to)}
    /\ call = [c \in Callers |-> Idle("idle", {})]
    /\ alone = [c \in Callers |-> NotAlone]
    /\ by = [t \in TargetIds |-> [source |-> CHOOSE s \in Sources : TRUE, filtered |-> FALSE]]
    /\ raced = {}

IsRunning(c) == call[c].at \in Running
At(c, ops, at) == call[c].op \in ops /\ call[c].at = at
Ends(c, at, result) ==
    /\ call' = [call EXCEPT ![c] = Idle(at, result)]
    /\ alone' = [alone EXCEPT ![c] = NotAlone]
Returns(c, result) == Ends(c, "done", result)

\* A delete() that has read its rows, and will delete what they lead to.
Deletes(c, t) == call[c].op = "delete" /\ IsRunning(c) /\ t \in call[c].keys
\* A filtered delete() that no longer looks at what matches its filter.
HasMatched(c, t) == Deletes(c, t) /\ call[c].where.filtered /\ call[c].at # "matching"

---------------------------------------------------------------------------
(* The operations: the call, and a statement each. *)

\* A call: the repository of the through model is awaited first.  link() and unlink()
\* are given a target that exists.
Begin(c) ==
    /\ call[c].at = "idle"
    /\ \E op \in Ops, s \in Sources, where \in Wheres, colour \in NewColours,
          given \in {{}} \cup {{t} : t \in {x \in TargetIds : Exists(x)}} :
        /\ (op \in {"link", "unlink"}) = (given # {})
        /\ op \notin {"find", "delete", "patch"} => where = AllTargets
        /\ op \notin {"create", "patch"} => colour = Idle("idle", {}).colour
        /\ call' = [call EXCEPT ![c] =
                [op |-> op, source |-> s, where |-> where, colour |-> colour,
                 at |-> "begun", keys |-> given, ids |-> {}, found |-> {}]]
    /\ alone' = [d \in Callers |->
            IF d = c /\ \A e \in Callers : ~IsRunning(e)
            THEN [is |-> TRUE, rows |-> rows, targets |-> targets]
            ELSE NotAlone]
    /\ UNCHANGED <<targets, rows, by, raced>>

\* create(): the target first ...
CreateTarget(c) ==
    /\ At(c, {"create"}, "begun")
    /\ \E t \in TargetIds :
        /\ targets[t] = "none"
        /\ targets' = [targets EXCEPT ![t] = call[c].colour]
        /\ call' = [call EXCEPT ![c].at = "linking", ![c].keys = {t}, ![c].found = {t}]
    /\ UNCHANGED <<rows, alone, by, raced>>

\* ... then link(), which a caller may call by itself.
Link(c) ==
    /\ At(c, {"create"}, "linking") \/ At(c, {"link"}, "begun")
    /\ rows' = rows \cup {[from |-> call[c].source, to |-> t] : t \in call[c].keys}
    /\ raced' = raced \cup {t \in call[c].keys :
                    ~Exists(t) \/ \E d \in Callers : Deletes(d, t)}
    /\ Returns(c, call[c].found)
    /\ UNCHANGED <<targets, by>>

\* unlink()
Unlink(c) ==
    /\ At(c, {"unlink"}, "begun")
    /\ rows' = {r \in rows : ~(r.from = call[c].source /\ r.to \in call[c].keys)}
    /\ Returns(c, {})
    /\ UNCHANGED <<targets, by, raced>>

\* The other operations read the rows of the source.  Where there are none unlinkAll()
\* throws, as no constraint can be made of no keys, and the others have nothing to do.
ReadRows(c) ==
    /\ At(c, {"find", "delete", "patch", "unlinkAll"}, "begun")
    /\ LET keys == TargetsOf(call[c].source, rows)
           next == CASE call[c].op = "find" -> "finding"
                     [] call[c].op = "patch" -> "patching"
                     [] call[c].op = "unlinkAll" -> "unlinking"
                     [] OTHER -> IF call[c].where.filtered THEN "matching" ELSE "dropping"
       IN  \/ /\ keys # {}
              /\ call' = [call EXCEPT ![c].keys = keys, ![c].at = next]
              /\ UNCHANGED alone
           \/ /\ keys = {}
              /\ Ends(c, IF call[c].op = "unlinkAll" THEN "failed" ELSE "done", {})
    /\ UNCHANGED <<targets, rows, by, raced>>

\* unlinkAll()
UnlinkAll(c) ==
    /\ At(c, {"unlinkAll"}, "unlinking")
    /\ rows' = {r \in rows : ~(r.from = call[c].source /\ r.to \in call[c].keys)}
    /\ Returns(c, {})
    /\ UNCHANGED <<targets, by, raced>>

\* find()
Find(c) ==
    /\ At(c, {"find"}, "finding")
    /\ Returns(c, call[c].keys \cap Accepted(call[c].where, targets))
    /\ UNCHANGED <<targets, rows, by, raced>>

\* patch()
Patch(c) ==
    /\ At(c, {"patch"}, "patching")
    /\ LET patched == call[c].keys \cap Accepted(call[c].where, targets)
       IN  /\ targets' = [t \in TargetIds |->
                            IF t \in patched THEN call[c].colour ELSE targets[t]]
           /\ raced' = raced \cup {t \in patched : \E d \in Callers : HasMatched(d, t)}
           /\ Returns(c, patched)
    /\ UNCHANGED <<rows, by>>

\* delete(where): which targets match, of whatever source.
MatchTargets(c) ==
    /\ At(c, {"delete"}, "matching")
    /\ LET ids == Accepted(call[c].where, targets)
       IN  call' = [call EXCEPT ![c].ids = ids,
                        ![c].at = IF ids = {} THEN "deleting" ELSE "dropping"]
    /\ UNCHANGED <<targets, rows, alone, by, raced>>

\* Mutant: the rows of the source alone.
OwnRows(c) ==
    {r \in rows : r.from = call[c].source
                   /\ (call[c].where.filtered => r.to \in call[c].ids)}

\* The rows delete() drops: those of the source that lead to a match, or, without a
\* filter, all of the source and all that lead to where its rows lead.
DroppedRows(c) ==
    {r \in rows : IF call[c].where.filtered
                  THEN r.from = call[c].source /\ r.to \in call[c].ids
                  ELSE r.from = call[c].source \/ r.to \in call[c].keys}

DropRows(c) ==
    /\ At(c, {"delete"}, "dropping")
    /\ rows' = rows \ DroppedRows(c)
    /\ call' = [call EXCEPT ![c].at = "deleting"]
    /\ UNCHANGED <<targets, alone, by, raced>>

\* Mutant: the constraint is left out.
AllAccepted(c) == Accepted(call[c].where, targets)

\* The targets delete() deletes, of those the rows it has read lead to.
DeletedTargets(c) == call[c].keys \cap Accepted(call[c].where, targets)

DeleteTargets(c) ==
    /\ At(c, {"delete"}, "deleting")
    /\ targets' = [t \in TargetIds |-> IF t \in DeletedTargets(c) THEN "gone" ELSE targets[t]]
    /\ by' = [t \in TargetIds |->
                IF t \in DeletedTargets(c)
                THEN [source |-> call[c].source, filtered |-> call[c].where.filtered]
                ELSE by[t]]
    /\ Returns(c, DeletedTargets(c))
    /\ UNCHANGED <<rows, raced>>

\* The statement a call waits for fails, and the call with it.
Fail(c) ==
    /\ IsRunning(c)
    /\ Ends(c, "failed", {})
    /\ UNCHANGED <<targets, rows, by, raced>>

Statement(c) ==
    \/ CreateTarget(c) \/ Link(c) \/ Unlink(c) \/ ReadRows(c) \/ UnlinkAll(c) \/ Find(c)
    \/ Patch(c) \/ MatchTargets(c) \/ DropRows(c) \/ DeleteTargets(c)

Next == \E c \in Callers : Begin(c) \/ Statement(c) \/ Fail(c)

Spec == Init /\ [][Next]_vars

---------------------------------------------------------------------------
(* Properties. *)

\* The types of the variables.
RelationTypeOK ==
    /\ targets \in [TargetIds -> {"none", "gone"} \cup Colours]
    /\ rows \subseteq Row
    /\ call \in [Callers -> CallType]
    /\ alone \in [Callers -> Tables]
    /\ by \in [TargetIds -> [source : Sources, filtered : BOOLEAN]]
    /\ raced \subseteq TargetIds

\* What a delete() leaves behind: a row that leads to a target that is gone belongs to a
\* source other than the one whose filtered delete() removed the target, or the target
\* was linked or patched while a delete() was under way.
DanglingOnlyIf ==
    \A r \in rows : targets[r.to] = "gone" =>
        \/ r.to \in raced
        \/ by[r.to].filtered /\ by[r.to].source # r.from

\* What holds of the tables whatever calls overlap or fail: the types, and which rows may
\* lead nowhere after a delete().
RelationInv == RelationTypeOK /\ DanglingOnlyIf

\* What an operation promises when it has the tables to itself, from before it (old) to
\* after it, for its source and filter.
Contract(op, s, where, colour, old, found) ==
    LET linked == TargetsOf(s, old.rows)
        selected == linked \cap Accepted(where, old.targets)
        others == {r \in old.rows : r.from # s}
    IN  CASE op = "find" ->
                found = selected /\ rows' = old.rows /\ targets' = old.targets
          [] op = "patch" ->
                /\ rows' = old.rows
                /\ targets' = [t \in TargetIds |->
                                IF t \in selected THEN colour ELSE old.targets[t]]
          [] op = "delete" ->
                /\ found = selected
                /\ targets' = [t \in TargetIds |->
                                IF t \in selected THEN "gone" ELSE old.targets[t]]
                /\ TargetsOf(s, rows') = IF where.filtered THEN linked \ selected ELSE {}
                /\ rows' \subseteq old.rows
                /\ others \ rows' \subseteq {r \in others : r.to \in linked /\ ~where.filtered}
          [] op = "create" ->
                \E t \in TargetIds :
                    /\ old.targets[t] = "none" /\ found = {t}
                    /\ targets' = [old.targets EXCEPT ![t] = colour]
                    /\ rows' = old.rows \cup {[from |-> s, to |-> t]}
          [] op = "unlinkAll" ->
                rows' = others /\ targets' = old.targets
          [] OTHER -> targets' = old.targets /\ others \subseteq rows'

\* The relation keeps what its interface promises of each operation (create, find,
\* delete, patch, link, unlink and unlinkAll of DefaultHasManyThroughRepository)
\* whenever no other call runs in between.
AloneKeepsContract ==
    [][\A c \in Callers :
        (IsRunning(c) /\ call[c]'.at = "done" /\ alone[c].is) =>
            Contract(call[c].op, call[c].source, call[c].where, call[c].colour,
                     alone[c], call[c]'.found)]_vars
=============================================================================
