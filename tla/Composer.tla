------------------------------ MODULE Composer ------------------------------
(***************************************************************************)
(* The composer: GET /api/v2/indicators/{code}/latest turns an indicator     *)
(* code into a number.  A code is a tenant's indicator or, failing that, one *)
(* of the catalog; a direct indicator has its newest reading, a composite    *)
(* one the value of a formula over other codes.  The Go functions evalFormula*)
(* and latestReadingByCode call each other; here the work that is left is a  *)
(* stack.  Each statement reads what is committed then, so readings and      *)
(* definitions change while one evaluation runs.  They are in one transaction*)
(* of PostgreSQL, which refuses every statement after one that failed.       *)
(***************************************************************************)
EXTENDS Integers, Sequences, FiniteSets

CONSTANTS
    Codes,
    Formulas,   \* the formulas that may be stored, and their operands
    Catalog,    \* the definition each code has in the catalog
    Drafts,     \* <<code, definition>>: indicators the tenant may create
    Prices,     \* values a reading may have
    MaxDepth    \* calls that fit on the stack of the gateway

\* Definitions are nodes: of a formula, "direct", or "none".  JSON that is no formula
\* is found out when it is evaluated.
Missing == [kind |-> "none"]
Direct == [kind |-> "direct"]
Malformed == [kind |-> "malformed"]
Code(c) == [kind |-> "code", code |-> c]
Scalar(n) == [kind |-> "scalar", n |-> n]
Op(op, l, r) == [kind |-> "op", op |-> op, left |-> l, right |-> r]

Parameters ==
    /\ \A f \in Formulas :
          \/ f = Malformed
          \/ f.kind = "scalar" /\ f = Scalar(f.n) /\ f.n \in Int
          \/ f.kind = "code" /\ f = Code(f.code) /\ f.code \in Codes
          \/ f.kind = "op" /\ f = Op(f.op, f.left, f.right) /\ {f.left, f.right} \subseteq Formulas
    /\ \A c \in Codes : Code(c) \in Formulas
    /\ DOMAIN Catalog = Codes /\ \A c \in Codes : Catalog[c] \in Formulas \cup {Missing, Direct}
    /\ \A d \in Drafts : d[1] \in Codes /\ d[2] \in Formulas \cup {Direct}
    /\ Prices \subseteq Int /\ MaxDepth \in Nat
ASSUME ComposerAssumption == Parameters

VARIABLES
    readings,   \* newest reading of each catalog indicator ({}: none)
    tenant,     \* the tenant's indicators
    pc, todo,   \* the request; nodes to visit, each with its depth
    values,     \* operands computed so far
    tx,         \* the transaction of the request: "aborted" once a statement failed
    asked, answer, \* the code asked for, and what the client got
    sawReadings, sawDefs \* history: what each code had at some moment of the request

vars == <<readings, tenant, pc, todo, values, tx, asked, answer, sawReadings, sawDefs>>

Failed == <<"error">>
NoAnswer == <<"none">>
Number(n) == <<n, 1>>
Fraction == Int \X (Int \ {0})
-----------------------------------------------------------------------------
Init ==
    /\ readings = [c \in Codes |-> {}] /\ tenant = [c \in Codes |-> Missing]
    /\ pc = "idle" /\ todo = <<>> /\ values = <<>>
    /\ tx = "ok" /\ asked = {} /\ answer = NoAnswer
    /\ sawReadings = [c \in Codes |-> {}] /\ sawDefs = [c \in Codes |-> {}]

\* A reading of a catalog indicator arrives, or the newest one is corrected.
AddReading(c, v) ==
    /\ Catalog[c] = Direct /\ readings' = [readings EXCEPT ![c] = {v}]
    /\ sawReadings' = IF pc = "eval" THEN [sawReadings EXCEPT ![c] = @ \cup {{v}}]
                      ELSE sawReadings
    /\ UNCHANGED <<tenant, pc, todo, values, tx, asked, answer, sawDefs>>

\* handleV2TenantCreateIndicator: a code is used once per tenant, the formula is
\* stored as it comes.
CreateIndicator(c, def) ==
    /\ tenant[c] = Missing /\ tenant' = [tenant EXCEPT ![c] = def]
    /\ sawDefs' = IF pc = "eval" THEN [sawDefs EXCEPT ![c] = @ \cup {def}] ELSE sawDefs
    /\ UNCHANGED <<readings, pc, todo, values, tx, asked, answer, sawReadings>>

\* handleV2IndicatorLatest.
Ask(c) ==
    /\ pc = "idle" /\ pc' = "eval"
    /\ todo' = <<<<1, Code(c)>>>> /\ values' = <<>>
    /\ tx' = "ok" /\ asked' = {c} /\ answer' = NoAnswer
    /\ sawReadings' = [d \in Codes |-> {readings[d]}]
    /\ sawDefs' = [d \in Codes |-> {tenant[d]}]
    /\ UNCHANGED <<readings, tenant>>

Depth == todo[1][1]
Node == todo[1][2]
Visiting(kind) == pc = "eval" /\ todo # <<>> /\ Depth <= MaxDepth /\ Node.kind = kind
Push(nodes) == /\ todo' = [i \in DOMAIN nodes |-> <<Depth + 1, nodes[i]>>] \o Tail(todo)
               /\ UNCHANGED <<pc, values, answer>>
Yield(v) == /\ todo' = Tail(todo) /\ values' = <<v>> \o values
            /\ UNCHANGED <<pc, answer>>
Stop(a) == /\ pc' = "idle" /\ todo' = <<>> /\ values' = <<>> /\ answer' = a
Stored == UNCHANGED <<readings, tenant, asked, sawReadings, sawDefs>>

\* Mutant: every statement is a transaction of its own.
WorksAlone == UNCHANGED tx /\ Stored

\* A statement is carried out, or the database answers an error: that aborts the
\* transaction, and whatever it is asked then is refused.
Works == tx = "ok" /\ UNCHANGED tx /\ Stored
Fails == tx' = "aborted" /\ Stored
Computed == UNCHANGED tx /\ Stored

\* Mutant: the right operand is evaluated first.
VisitFormulaSwapped ==
    /\ \/ Visiting("malformed") /\ Stop(Failed)
       \/ Visiting("scalar") /\ Yield(Number(Node.n))
       \/ /\ Visiting("op")
          /\ Push(<<Node.right, Node.left, [kind |-> "apply", op |-> Node.op]>>)
    /\ Computed

\* evalFormula: what cannot be parsed is an error, a scalar is its value; an
\* operation needs its left operand, then its right one.
VisitFormula ==
    /\ \/ Visiting("malformed") /\ Stop(Failed)
       \/ Visiting("scalar") /\ Yield(Number(Node.n))
       \/ /\ Visiting("op")
          /\ Push(<<Node.left, Node.right, [kind |-> "apply", op |-> Node.op]>>)
    /\ Computed

\* The arithmetic of evalFormula on fractions; dividing by zero and an operation
\* it does not know are errors.
Combine(op, l, r) ==
    CASE op = "add" -> <<l[1] * r[2] + r[1] * l[2], l[2] * r[2]>>
      [] op = "subtract" -> <<l[1] * r[2] - r[1] * l[2], l[2] * r[2]>>
      [] op = "multiply" -> <<l[1] * r[1], l[2] * r[2]>>
      [] op = "divide" /\ r[1] # 0 -> <<l[1] * r[2], l[2] * r[1]>>
      [] OTHER -> Failed

Apply ==
    /\ Visiting("apply")
    /\ LET v == Combine(Node.op, values[2], values[1])
       IN IF v = Failed
          THEN Stop(Failed)
          ELSE /\ todo' = Tail(todo) /\ values' = <<v>> \o SubSeq(values, 3, Len(values))
               /\ UNCHANGED <<pc, answer>>
    /\ Computed

\* Mutant: a tenant's indicator without a formula falls through to the catalog.
LookupTenantFallsThrough ==
    /\ Visiting("code") /\ Works
    /\ CASE tenant[Node.code].kind \in {"none", "direct"} ->
              Push(<<[kind |-> "catalog", code |-> Node.code]>>)
         [] OTHER -> Push(<<tenant[Node.code]>>)

\* latestReadingByCode: a tenant's indicator hides the one of the catalog.  It has
\* a formula, or no readings: nothing writes readings of tenants' indicators, and an
\* error of that query is answered alike.  An error of the first query is dropped: it
\* goes on to the catalog.
LookupTenant ==
    /\ Visiting("code")
    /\ \/ /\ Works
          /\ CASE tenant[Node.code] = Missing ->
                    Push(<<[kind |-> "catalog", code |-> Node.code]>>)
               [] tenant[Node.code] = Direct -> Stop(Failed)
               [] OTHER -> Push(<<tenant[Node.code]>>)
       \/ Fails /\ Push(<<[kind |-> "catalog", code |-> Node.code]>>)

LookupCatalog ==
    /\ Visiting("catalog")
    /\ \/ /\ Works
          /\ CASE Catalog[Node.code] = Missing -> Stop(Failed)
               [] Catalog[Node.code] = Direct ->
                    Push(<<[kind |-> "reading", code |-> Node.code]>>)
               [] OTHER -> Push(<<Catalog[Node.code]>>)
       \/ Fails /\ Stop(Failed)

\* Mutant: it waits for a first reading.
ReadLatestWaits ==
    /\ Visiting("reading") /\ Works
    /\ IF readings[Node.code] = {}
       THEN UNCHANGED <<pc, todo, values, answer>>
       ELSE Yield(Number(CHOOSE v \in readings[Node.code] : TRUE))

ReadLatest ==
    /\ Visiting("reading")
    /\ \/ /\ Works
          /\ IF readings[Node.code] = {}
             THEN Stop(Failed)
             ELSE Yield(Number(CHOOSE v \in readings[Node.code] : TRUE))
       \/ Fails /\ Stop(Failed)

\* Mutant: the operands stay on the stack when the request is answered.
ReplyKeepsOperands ==
    /\ pc = "eval" /\ todo = <<>>
    /\ pc' = "idle" /\ answer' = values[1] /\ UNCHANGED <<todo, values>>
    /\ Computed

Reply == pc = "eval" /\ todo = <<>> /\ Stop(values[1]) /\ Computed

\* The client hangs up: the next statement fails.
HangUp == pc = "eval" /\ Stop(NoAnswer) /\ Computed

\* The calls no longer fit on the stack, which ends the process; it is started anew.
Overflow ==
    /\ pc = "eval" /\ todo # <<>> /\ Depth > MaxDepth
    /\ pc' = "dead" /\ todo' = <<>> /\ values' = <<>> /\ UNCHANGED answer
    /\ Computed
Restart ==
    /\ pc = "dead" /\ pc' = "idle"
    /\ UNCHANGED <<todo, values, answer>> /\ Computed
-----------------------------------------------------------------------------
Evaluate == VisitFormula \/ Apply \/ LookupTenant \/ LookupCatalog \/ ReadLatest
            \/ Reply \/ Overflow
Next == \/ Evaluate \/ HangUp \/ Restart
        \/ \E c \in Codes : Ask(c) \/ \E v \in Prices : AddReading(c, v)
        \/ \E d \in Drafts : CreateIndicator(d[1], d[2])

Spec == Init /\ [][Next]_vars

\* The goroutine of the request runs.
FairSpec == Spec /\ WF_vars(Evaluate)
-----------------------------------------------------------------------------
(* What the composer must guarantee. *)

\* What a code may be for the tenant, and what the work that is left consists of.
DraftsOf(c) == {Missing} \cup {d[2] : d \in {e \in Drafts : e[1] = c}}
Newests == {{}} \cup {{v} : v \in Prices}
Nodes ==
    Formulas \cup [kind : {"catalog", "reading"}, code : Codes]
    \cup {[kind |-> "apply", op |-> f.op] : f \in {g \in Formulas : g.kind = "op"}}

\* Every variable has its type, operands are never short, and between requests
\* nothing is in hand.
TypeOK ==
    /\ readings \in [Codes -> Newests]
    /\ tenant \in [Codes -> Formulas \cup {Missing, Direct}]
    /\ \A c \in Codes : tenant[c] \in DraftsOf(c)
    /\ pc \in {"idle", "eval", "dead"}
    /\ todo \in Seq((1 .. MaxDepth + 1) \X Nodes)
    /\ values \in Seq(Fraction) /\ tx \in {"ok", "aborted"}
    /\ pc # "eval" => todo = <<>> /\ values = <<>>
    /\ pc = "eval" /\ todo = <<>> => Len(values) = 1
    /\ todo # <<>> /\ todo[1][2].kind = "apply" => Len(values) >= 2
    /\ asked \subseteq Codes
    /\ answer \in Fraction \cup {Failed, NoAnswer}
    /\ sawReadings \in [Codes -> SUBSET Newests]
    /\ sawDefs \in [Codes -> SUBSET (Formulas \cup {Missing, Direct})]
    /\ \A c \in Codes : sawDefs[c] \subseteq DraftsOf(c)

\* The values of a node of a formula, given those V[<<n, d>>] of what it refers to:
\* each reading and each definition is one that the code had at some moment of the
\* request.  The left operand comes first, and an error ends it all.
Newest(c) == {IF r = {} THEN Failed ELSE Number(CHOOSE v \in r : TRUE) : r \in sawReadings[c]}
Meaning(V, node, d) ==
    CASE node.kind = "malformed" -> {Failed}
      [] node.kind = "scalar" -> {Number(node.n)}
      [] node.kind = "op" ->
           UNION {IF l = Failed THEN {Failed}
                  ELSE {IF r = Failed THEN Failed ELSE Combine(node.op, l, r) :
                           r \in V[<<node.right, d>>]} :
                     l \in V[<<node.left, d>>]}
      [] node.kind = "code" ->
           UNION {CASE def = Missing /\ Catalog[node.code] = Direct -> Newest(node.code)
                    [] def = Direct \/ (def = Missing /\ Catalog[node.code] = Missing) -> {Failed}
                    [] OTHER -> V[<<IF def = Missing THEN Catalog[node.code] ELSE def, d>>] :
                     def \in sawDefs[node.code]}

\* The values a formula can have, by recursion over formulas and definitions.
Possible[p \in Formulas \X (0 .. MaxDepth)] ==
    IF p[2] = 0 THEN {} ELSE Meaning(Possible, p[1], p[2] - 1)

\* What a client is told is the value of the formula, operand by operand, for
\* readings and definitions each of which held at some moment of the request,
\* however they change while it runs.  The one exception is an error after the
\* database failed: a number is never made of what is left then.
Justified(V, a) == \A c \in asked : a \in V[<<Code(c), MaxDepth>>]
DatabaseFailed == answer = Failed /\ tx = "aborted"
AnswerJustified ==
    pc = "idle" /\ answer # NoAnswer => Justified(Possible, answer) \/ DatabaseFailed

\* c refers to d in a definition it had during the request.
RefersTo(c, d) ==
    \E def \in (IF Missing \in sawDefs[c] THEN {Catalog[c]} ELSE {})
               \cup (sawDefs[c] \ {Missing}) :
        Code(d) \in {def} \cup (IF def.kind = "op" THEN {def.left, def.right} ELSE {})

\* A walk from the code asked for, along definitions, need not end.
Cyclic == \E walk \in SUBSET Codes :
              asked \subseteq walk /\ \A c \in walk : \E d \in walk : RefersTo(c, d)

\* Every request is answered, and the gateway lives, unless definitions that the code
\* asked for leads to refer to each other in a circle.
EvaluationEnds == pc = "eval" ~> pc = "idle" \/ Cyclic
-----------------------------------------------------------------------------
(* The inductive invariant behind TypeOK and AnswerJustified. *)

\* The history has what a lookup may find now, and what the lookups under way found,
\* none of which failed.
SawInv ==
    pc = "eval" =>
        /\ \A c \in Codes : readings[c] \in sawReadings[c] /\ tenant[c] \in sawDefs[c]
        /\ tx = "ok" => \A i \in DOMAIN todo :
              LET node == todo[i][2] IN
                 /\ node.kind \in {"catalog", "reading"} => Missing \in sawDefs[node.code]
                 /\ node.kind = "reading" => Catalog[node.code] = Direct

\* A request that goes on after an error of the database is about to ask the catalog.
AbortedInv == pc = "eval" /\ tx = "aborted" => todo # <<>> /\ Node.kind = "catalog"

\* V gives each node all the values it can have.
Closed(V) == \A node \in Formulas, d \in 1 .. MaxDepth :
                 Meaning(V, node, d - 1) \subseteq V[<<node, d>>]

\* The stack computes what V says: stacks[i] are operands with which the rest of the
\* work after step i may begin, and fuel[i] is how deep step i may still go.
Source(node) == IF node.kind \in {"catalog", "reading"} THEN Code(node.code) ELSE node
Accepts(V, stacks, fuel) ==
    /\ fuel \in [DOMAIN todo -> 0 .. MaxDepth]
    /\ \A i \in DOMAIN todo : fuel[i] + todo[i][1] > MaxDepth
    /\ stacks \in [0 .. Len(todo) -> SUBSET Seq(Fraction)]
    /\ values \in stacks[0]
    /\ \A s \in stacks[Len(todo)] : Len(s) = 1 /\ Justified(V, s[1])
    /\ \A i \in DOMAIN todo : \A s \in stacks[i - 1] :
          LET node == todo[i][2] IN
             IF node.kind = "apply"
             THEN LET v == Combine(node.op, s[2], s[1]) IN
                     /\ Len(s) >= 2
                     /\ IF v = Failed THEN Justified(V, Failed)
                        ELSE <<v>> \o SubSeq(s, 3, Len(s)) \in stacks[i]
             ELSE \A v \in V[<<Source(node), fuel[i]>>] :
                     /\ v = Failed => Justified(V, Failed)
                     /\ v \in Fraction => <<v>> \o s \in stacks[i]
JustInv ==
    /\ pc # "idle" => answer = NoAnswer
    /\ \A V : Closed(V) =>
          /\ pc = "idle" /\ answer # NoAnswer => Justified(V, answer) \/ DatabaseFailed
          /\ pc = "eval" /\ tx = "ok" => \E stacks, fuel : Accepts(V, stacks, fuel)

IInv == TypeOK /\ SawInv /\ AbortedInv /\ JustInv
=============================================================================
