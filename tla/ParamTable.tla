----------------------------- MODULE ParamTable -----------------------------
(***************************************************************************)
(* The parameters of a document: named expressions that refer to one       *)
(* another, some of them bound to a numeric field of a feature.  Every     *)
(* edit ends with a recompute that evaluates the table in the order of its *)
(* references and writes the bound fields, each as it takes a value: a     *)
(* count as a whole number from its minimum on, an offset or an angle as a *)
(* magnitude on the side it is on.  Undo, redo and Open bring a document   *)
(* back as it was and recompute nothing.                                   *)
(*                                                                         *)
(* An expression typed by the user is checked when it is typed and lands   *)
(* when the commits before it have landed.  A file may hold any table.     *)
(*                                                                         *)
(* An expression is a number plus the values of the names it mentions, one *)
(* after the other; a sum beyond MaxValue stands for a result that is not  *)
(* finite.  Numbers count halves.                                          *)
(***************************************************************************)
EXTENDS Integers, FiniteSets, Sequences, FiniteSetsExt

CONSTANTS
    User,       \* names a user may give
    MaxAuto,    \* bound: the names d1, d2, ... the program makes
    Field,      \* fields a parameter can be bound to
    Null,
    Minimum,    \* the least number of each field that takes whole numbers only
    Signed,     \* fields whose sign is the side of an offset or an angle
    Typed,      \* expressions a user types
    Entered,    \* numbers a user enters, or draws a feature with
    Loaded,     \* documents that a session may start from, or open
    MaxValue,   \* the largest number
    UndoCap,    \* length of the undo stack
    MaxEdits,   \* bound: edits the user makes
    MaxQueued   \* bound: commits waiting

VARIABLES
    doc,        \* the table and the fields that exist, with their numbers
    issues,     \* name -> why it keeps the value it had
    past,       \* documents that undo brings back
    future,     \* documents that redo brings back
    chain,      \* commits that were checked and have not landed
    edits       \* counter: edits made

document == <<doc, issues, past, future>>
vars == <<document, chain, edits>>

Name == User \cup 1..MaxAuto
Number == -MaxValue..MaxValue

Expr == {expr \in [refs : Seq(Name), plus : Int, parses : BOOLEAN] :
            expr.parses \/ expr.refs = <<>>}
ParamDef == [expr : Expr, value : Number, target : Field \cup {Null}]
Commit ==
    [kind : {"param"}, target : {Null}, name : Name, expr : Typed, alone : BOOLEAN] \cup
    [kind : {"field"}, target : Field, name : {Null}, expr : Typed, alone : BOOLEAN] \cup
    [kind : {"named"}, target : Field, name : User, expr : Typed, alone : BOOLEAN]

\* A table with the fields there are; a field has one parameter at most.
IsDocument(d) ==
    /\ d = [defs |-> d.defs, fields |-> d.fields]
    /\ d.defs \in [DOMAIN d.defs -> ParamDef] /\ DOMAIN d.defs \subseteq Name
    /\ d.fields \in [DOMAIN d.fields -> Int] /\ DOMAIN d.fields \subseteq Field
    /\ \A m, n \in DOMAIN d.defs :
           d.defs[m].target = d.defs[n].target /\ d.defs[m].target # Null => m = n

ASSUME NamesAreApart ==
    IsFiniteSet(User) /\ User \cap 1..MaxAuto = {} /\ Null \notin Name \cup Field
ASSUME KindsAreApart ==
    /\ DOMAIN Minimum \subseteq Field /\ Signed \subseteq Field \ DOMAIN Minimum
    /\ \A f \in DOMAIN Minimum : Minimum[f] \in Int /\ Minimum[f] % 2 = 0
ASSUME BoundsAreNumbers == {MaxAuto, MaxValue, MaxEdits, MaxQueued, UndoCap} \subseteq Nat
ASSUME InputsAreTyped ==
    Typed \subseteq Expr /\ Entered \subseteq Number /\ \A d \in Loaded : IsDocument(d)

Over(f, g) == [x \in DOMAIN f \cup DOMAIN g |-> IF x \in DOMAIN g THEN g[x] ELSE f[x]]
Less(f, S) == [x \in DOMAIN f \ S |-> f[x]]
One(x, y) == [z \in {x} |-> y]

------------------------------------------------------------------------
\* Evaluation.

Values(defs) == [n \in DOMAIN defs |-> defs[n].value]

Deps(defs, n) == Range(defs[n].expr.refs) \cap DOMAIN defs

Sum(expr, values) ==
    expr.plus + SumFunction([i \in DOMAIN expr.refs |-> values[expr.refs[i]]])

\* Why an expression has no value; its names are evaluated before it.
Fault(expr, values) ==
    IF ~expr.parses THEN "invalid"
    ELSE IF ~(Range(expr.refs) \subseteq DOMAIN values) THEN "unknown"
    ELSE IF Sum(expr, values) \notin Number THEN "not finite" ELSE "none"

\* Mutant: every name is evaluated with the values of before.
EvaluatedAtOnce(defs) ==
    LET cached == Values(defs)
    IN [order |-> DOMAIN defs,
        values |-> [n \in DOMAIN defs |->
            IF Fault(defs[n].expr, cached) = "none" THEN Sum(defs[n].expr, cached) ELSE cached[n]]]

\* One rank more: the names whose references are all in an earlier one are evaluated, the
\* ones without a value keep the one they had.
Advanced(defs, before) ==
    LET ready == {n \in DOMAIN defs : Deps(defs, n) \subseteq before.order}
    IN [order |-> ready,
        values |-> [n \in DOMAIN defs |->
            IF n \in ready /\ Fault(defs[n].expr, before.values) = "none"
            THEN Sum(defs[n].expr, before.values) ELSE defs[n].value]]

\* Kahn's order, one rank after the other.
Evaluated(defs) ==
    LET Rank[k \in 0..Cardinality(DOMAIN defs)] ==
            IF k = 0 THEN [order |-> {}, values |-> Values(defs)]
            ELSE LET before == Rank[k - 1] IN Advanced(defs, before)
    IN Rank[Cardinality(DOMAIN defs)]

References(defs, S) == UNION {Deps(defs, n) : n \in S \cap DOMAIN defs}

Dangling(d) == {n \in DOMAIN d.defs : d.defs[n].target \notin DOMAIN d.fields \cup {Null}}

\* Dangling names that nothing refers to are dropped.
Collected(d) == Dangling(d) \ References(d.defs, DOMAIN d.defs)

\* coerceForField: Math.round, and at least the minimum.
Whole(f, value) == LET rounded == 2 * ((value + 1) \div 2) IN
                   IF rounded < Minimum[f] THEN Minimum[f] ELSE rounded

\* Mutant: every field takes the value as it comes.
TakenAsItComes(f, was, value) == value

\* The number a value becomes in field f, which held `was`.
Taken(f, was, value) ==
    LET size == IF value < 0 THEN -value ELSE value
    IN CASE f \in DOMAIN Minimum -> Whole(f, value)
         [] f \in Signed -> IF was < 0 THEN -size ELSE size
         [] OTHER -> value

\* writeTarget, for every parameter that is bound.
Written(fields, defs) ==
    [f \in DOMAIN fields |->
        IF \E n \in DOMAIN defs : defs[n].target = f
        THEN Taken(f, fields[f], defs[CHOOSE n \in DOMAIN defs : defs[n].target = f].value)
        ELSE fields[f]]

Recompute(d) ==
    LET defs == Less(d.defs, Collected(d))
        end == Evaluated(defs)
        new == [n \in DOMAIN defs |-> [defs[n] EXCEPT !.value = end.values[n]]]
        Why(n) == LET fault == Fault(defs[n].expr, end.values) IN
                  IF n \in end.order /\ fault # "none" THEN fault
                  ELSE IF n \in Dangling(d) THEN "target gone"
                  ELSE IF n \notin end.order THEN "circular" ELSE "none"
    IN [doc |-> [defs |-> new, fields |-> Written(d.fields, new)],
        issues |-> [n \in {m \in DOMAIN defs : Why(m) # "none"} |-> Why(n)]]

\* pushUndo.
Pushed == LET longer == Append(past, doc)
          IN IF Len(longer) > UndoCap THEN Tail(longer) ELSE longer

Recomputed(d) == doc' = Recompute(d).doc /\ past' = Pushed /\ future' = <<>>

\* Every change of the document ends in a recompute.
Mutate(d) == Recomputed(d) /\ issues' = Recompute(d).issues

\* But if it never had a parameter: its issues stay.
MutateFields(fields) ==
    LET d == [doc EXCEPT !.fields = fields]
    IN /\ Recomputed(d)
       /\ issues' = Recompute(d).issues \/ (doc.defs = <<>> /\ UNCHANGED issues)

------------------------------------------------------------------------
\* The check of what is typed, for the parameter `name` or a new one.

\* Mutant: the table is not searched for a way back.
ReachesItself(defs, refs) == refs

\* findCycle: the names refs lead to.
Reaches(defs, refs) ==
    LET Within[k \in 0..Cardinality(DOMAIN defs)] ==
            IF k = 0 THEN refs
            ELSE LET before == Within[k - 1] IN before \cup References(defs, before)
    IN Within[Cardinality(DOMAIN defs)]

ValidateExpr(name, expr) ==
    /\ Fault(expr, Values(doc.defs)) = "none"
    /\ name \notin Reaches(doc.defs, Range(expr.refs))

BoundTo(defs, f) == {n \in DOMAIN defs : defs[n].target = f}
BoundParam(defs, f) ==
    IF BoundTo(defs, f) = {} THEN Null ELSE CHOOSE n \in BoundTo(defs, f) : TRUE

NextDName(defs) == Max({0} \cup (DOMAIN defs \cap 1..MaxAuto)) + 1

------------------------------------------------------------------------
\* Commits: what lands is made of the table that is there then.

WithExpr(defs, n, expr, target) ==
    Over(defs, One(n, IF n \in DOMAIN defs THEN [defs[n] EXCEPT !.expr = expr]
                      ELSE [expr |-> expr, value |-> 0, target |-> target]))

CommitParamExpr(defs, c) == WithExpr(defs, c.name, c.expr, Null)

\* Mutant: a field gets a new parameter each time.
CommitFieldExprAnew(defs, c) == WithExpr(defs, NextDName(defs), c.expr, c.target)

CommitFieldExpr(defs, c) ==
    LET bound == BoundParam(defs, c.target) IN
    WithExpr(defs, IF bound = Null THEN NextDName(defs) ELSE bound, c.expr, c.target)

\* commitRenameParam: with the references to it.
RenamedExpr(expr, from, to) ==
    [expr EXCEPT !.refs = [i \in DOMAIN @ |-> IF @[i] = from THEN to ELSE @[i]]]

Renamed(defs, from, to) ==
    LET new == [n \in DOMAIN defs |-> [defs[n] EXCEPT !.expr = RenamedExpr(@, from, to)]]
    IN Over(Less(new, {from}), One(to, new[from]))

\* `name=expr` typed into a field: a name that another commit took is overwritten.
CommitNamedFieldExpr(defs, c) ==
    LET bound == BoundParam(defs, c.target) IN
    WithExpr(IF bound = Null THEN Less(defs, {c.name}) ELSE Renamed(defs, bound, c.name),
             c.name, c.expr, c.target)

\* A rename to the name a parameter has would delete it: the commit throws.
Fails(defs, c) ==
    \/ c.kind = "named" /\ BoundParam(defs, c.target) = c.name
    \/ c.kind = "field" /\ NextDName(defs) > MaxAuto   \* the bound on names

Committed(d, c) ==
    [d EXCEPT !.defs = CASE c.kind = "param" -> CommitParamExpr(@, c)
                         [] c.kind = "field" -> CommitFieldExpr(@, c)
                         [] c.kind = "named" -> CommitNamedFieldExpr(@, c)]

MayEdit == edits < MaxEdits
Edited == edits' = edits + 1

\* `alone`: nothing lands between the check and the commit.
Queue(kind, target, name, expr) ==
    /\ MayEdit /\ Edited /\ Len(chain) < MaxQueued
    /\ chain' = Append(chain, [kind |-> kind, target |-> target, name |-> name,
                               expr |-> expr, alone |-> chain = <<>>])
    /\ UNCHANGED document

SetParamExpr ==
    \E name \in DOMAIN doc.defs \cup User, expr \in Typed :
        ValidateExpr(name, expr) /\ Queue("param", Null, name, expr)

SetTargetExpr ==
    \E f \in DOMAIN doc.fields, expr \in Typed :
        /\ ValidateExpr(BoundParam(doc.defs, f), expr)
        /\ Queue("field", f, Null, expr)

NameTarget ==
    \E f \in DOMAIN doc.fields, name \in User \ DOMAIN doc.defs, expr \in Typed :
        /\ ValidateExpr(BoundParam(doc.defs, f), expr)
        /\ Queue("named", f, name, expr)

\* commitWithCascade: recomputed in a draft, and again as the draft replaces the document.
Land ==
    /\ chain # <<>> /\ ~Fails(doc.defs, Head(chain)) /\ chain' = Tail(chain)
    /\ Mutate(Recompute(Committed(doc, Head(chain))).doc)
    /\ UNCHANGED edits

\* A sketch cannot take the value, or the commit fails.
Refused ==
    /\ chain # <<>> /\ chain' = Tail(chain) /\ UNCHANGED <<document, edits>>

------------------------------------------------------------------------
\* Changes at once.  Nothing else changes the document while a commit is solved.

AtOnce == MayEdit /\ Edited /\ chain = <<>> /\ UNCHANGED chain

RenameParam(from, to) ==
    AtOnce /\ Mutate([doc EXCEPT !.defs = Renamed(@, from, to)])

\* deleteBlockers.
DeleteAllowed(name) == \A n \in DOMAIN doc.defs \ {name} : name \notin Deps(doc.defs, n)

DeleteParam(name) ==
    AtOnce /\ DeleteAllowed(name) /\ Mutate([doc EXCEPT !.defs = Less(@, {name})])

SetTargetValue ==
    /\ AtOnce
    /\ \E f \in DOMAIN doc.fields, v \in Entered :
           /\ BoundParam(doc.defs, f) = Null
           /\ MutateFields(Over(doc.fields, One(f, Taken(f, doc.fields[f], v))))

\* Features come and go with their fields; a new one may take the name of an old one.
RemoveField ==
    AtOnce /\ \E f \in DOMAIN doc.fields : MutateFields(Less(doc.fields, {f}))
AddField ==
    AtOnce /\ \E f \in Field \ DOMAIN doc.fields, v \in Entered :
        MutateFields(Over(doc.fields, One(f, Taken(f, v, v))))

Rename == \E from \in DOMAIN doc.defs, to \in User \ DOMAIN doc.defs : RenameParam(from, to)
Delete == \E name \in DOMAIN doc.defs : DeleteParam(name)

\* The issues stay those of the last recompute.
Undo ==
    /\ AtOnce /\ past # <<>>
    /\ doc' = past[Len(past)] /\ past' = SubSeq(past, 1, Len(past) - 1)
    /\ future' = Append(future, doc)
    /\ UNCHANGED issues

Redo ==
    /\ AtOnce /\ future # <<>>
    /\ doc' = future[Len(future)] /\ future' = SubSeq(future, 1, Len(future) - 1)
    /\ past' = Pushed
    /\ UNCHANGED issues

\* New and Open.
Replace == AtOnce /\ doc' \in Loaded /\ past' = <<>> /\ future' = <<>> /\ UNCHANGED issues

Init ==
    /\ doc \in Loaded /\ issues = <<>> /\ past = <<>> /\ future = <<>>
    /\ chain = <<>> /\ edits = 0

Next ==
    \/ SetParamExpr \/ SetTargetExpr \/ NameTarget \/ Land \/ Refused
    \/ Rename \/ Delete \/ SetTargetValue \/ RemoveField \/ AddField
    \/ Undo \/ Redo \/ Replace

Spec == Init /\ [][Next]_vars

------------------------------------------------------------------------
Reason == {"invalid", "unknown", "not finite", "target gone", "circular"}

\* A sequence of documents.
IsStack(s) == s \in Seq(Range(s)) /\ \A d \in Range(s) : IsDocument(d)

\* The shape of the state; a field has one parameter at most.
TypeOK ==
    /\ IsDocument(doc) /\ IsStack(past) /\ IsStack(future) /\ Len(past) <= UndoCap
    /\ issues \in [DOMAIN issues -> Reason] /\ DOMAIN issues \subseteq Name
    /\ chain \in Seq(Commit) /\ Len(chain) <= MaxQueued
    /\ edits \in 0..MaxEdits

\* Names that lead to a cycle: each refers to another of them.
Stuck(defs) ==
    UNION {S \in SUBSET DOMAIN defs : \A n \in S : Deps(defs, n) \cap S # {}}

\* What field f may hold for a value, whatever it held.
Fits(f, number, value) ==
    CASE f \in DOMAIN Minimum ->
             /\ number >= Minimum[f] /\ number % 2 = 0
             /\ number \in IF value < Minimum[f] THEN {Minimum[f]} ELSE {value, value + 1}
      [] f \in Signed -> number \in {value, -value}
      [] OTHER -> number = value

\* The numbers and issues of `after`, made of `before`.
Consistent(before, after, why) ==
    LET defs == after.defs
        values == Values(defs)
        Same(n) == /\ n \in DOMAIN before.defs
                   /\ before.defs[n].expr = defs[n].expr /\ before.defs[n].target = defs[n].target
        Keeps(n) == Same(n) => values[n] = before.defs[n].value
        Is(n, reason) == n \in DOMAIN why /\ why[n] = reason
        Faulty(n) == Fault(defs[n].expr, values) # "none"
    IN /\ \A n \in Stuck(defs) :
             Keeps(n) /\ (Is(n, "circular") \/ (Is(n, "target gone") /\ n \in Dangling(after)))
       /\ \A n \in DOMAIN defs \ Stuck(defs) :
             IF Faulty(n) THEN Keeps(n) /\ Is(n, Fault(defs[n].expr, values))
             ELSE values[n] = Sum(defs[n].expr, values) /\ (n \in DOMAIN why <=> n \in Dangling(after))
       /\ \A n \in DOMAIN defs : defs[n].target \in DOMAIN after.fields =>
             LET f == defs[n].target
                 number == after.fields[f]
             IN /\ Fits(f, number, values[n])
                /\ f \in Signed \cap DOMAIN before.fields /\ number # 0 =>
                       (number < 0 <=> before.fields[f] < 0)

Restores == Undo \/ Redo \/ Replace

\* After every change that the user makes to a document each name has the value of its
\* expression, or an issue that is true of it and the value it had; a bound field holds
\* the value as it takes it, on the side it was on.  Undo, redo and Open change no number
\* of what they bring back: EveryTableHolds is of those.
TableIsConsistent ==
    [][<<doc, issues>>' # <<doc, issues>> /\ ~Restores => Consistent(doc, doc', issues')]_vars

\* A document whose names have the values of their expressions, if they have one, and
\* whose bound fields fit.
Holds(d) ==
    /\ \A n \in DOMAIN d.defs \ Stuck(d.defs) :
           Fault(d.defs[n].expr, Values(d.defs)) = "none" =>
               d.defs[n].value = Sum(d.defs[n].expr, Values(d.defs))
    /\ \A n \in DOMAIN d.defs : d.defs[n].target \in DOMAIN d.fields =>
           Fits(d.defs[n].target, d.fields[d.defs[n].target], d.defs[n].value)

\* So does every document on screen, or that undo or redo can bring back, but one as it
\* was loaded: what is in a file is believed until the first change.
EveryTableHolds ==
    \A d \in {doc} \cup Range(past) \cup Range(future) : d \in Loaded \/ Holds(d)

\* What a check accepted does what it promised, in a table where nothing is broken: the
\* name committed has a value and nothing becomes broken; a rename changes no value and
\* a deletion breaks nothing.
Broken(d) ==
    Stuck(d.defs) \cup
    {n \in DOMAIN d.defs : Fault(d.defs[n].expr, Values(d.defs)) \in {"invalid", "unknown"}}
Healthy(d) == Recompute(d).doc = d /\ Broken(d) = {}

\* The parameter that a commit is about.
Of(d, c) == IF c.kind = "param" THEN c.name ELSE BoundParam(d.defs, c.target)

EditsKeepMeaning ==
    [][Healthy(doc) =>
       /\ Land /\ doc' # doc /\ Head(chain).alone =>
             /\ Broken(doc') = {}
             /\ Of(doc', Head(chain)) \in DOMAIN issues' =>
                    issues'[Of(doc', Head(chain))] = "target gone"
       /\ \A from \in DOMAIN doc.defs, to \in User \ DOMAIN doc.defs :
             RenameParam(from, to) =>
                /\ doc'.fields = doc.fields /\ doc'.defs[to].value = doc.defs[from].value
                /\ \A n \in DOMAIN doc'.defs \ {to} : doc'.defs[n].value = doc.defs[n].value
       /\ \A name \in DOMAIN doc.defs : DeleteParam(name) => Broken(doc') = {}]_vars
=============================================================================
