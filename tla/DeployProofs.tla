---------------------------- MODULE DeployProofs ----------------------------
(***************************************************************************)
(* Theorems about Deploy, for any number of flows, requests and mishaps.   *)
(***************************************************************************)
EXTENDS Deploy, FiniteSetTheorems, WellFoundedInduction, TLAPS

(***************************************************************************)
(* What holds of every request.                                            *)
(***************************************************************************)

\* The awaits of a deploy before its insert, and those until its flows are in order.
Loop == {"flow", "upload", "source", "lastSource", "old", "insert"}
BeforeInsert == {"confirm"} \cup Loop
Deploys == Loop \cup {"deactivate"}

PlacesOf == [
    none |-> {"idle"},
    deploy |-> BeforeInsert \cup {"deactivate", "reconcile", "files", "row"},
    preBuilt |-> (Loop \ {"lastSource"}) \cup {"deactivate"},
    deleteFlow |-> {"files", "row"},
    deleteConfig |-> {"configFiles", "configRows", "config"}]

\* The flows for which a deploy has chosen the version, those whose file it has
\* uploaded, those whose old rows it has read, and those whose source it has uploaded.
Chosen(r) ==
    IF task[r].pc \in Deploys
    THEN (task[r].flows \ task[r].todo) \cup
         (IF task[r].pc \in {"upload", "source", "lastSource", "old"} THEN {task[r].flow} ELSE {})
    ELSE {}
Uploaded(r) ==
    IF task[r].pc \in Deploys
    THEN (task[r].flows \ task[r].todo) \cup
         (IF task[r].pc \in {"source", "old"} THEN {task[r].flow} ELSE {})
    ELSE {}
Read(r) == IF task[r].pc \in Deploys THEN task[r].flows \ task[r].todo ELSE {}
Sourced(r) == Ahead(r) \cup (IF At(r, "deactivate") THEN task[r].flows ELSE {})

\* The locals of a request, place by place.
RequestFits(r) ==
    LET t == task[r] IN
    /\ t.pc \in PlacesOf[t.kind]
    /\ t.pc = "idle" => t = Idle
    /\ t.pc # "idle" => r <= begun /\ t.alone \subseteq Touches(t)
    /\ t.todo \subseteq t.flows
    /\ t.pc = "confirm" => t.todo = t.flows /\ t.old = {}
    /\ t.pc \in {"upload", "source", "lastSource", "old"} => t.flow \in t.todo
    /\ t.pc \in {"insert", "deactivate", "reconcile", "files", "row"} => t.todo = {}
    /\ t.pc \in Deploys => \A x \in t.old : row[x].flow \in t.flows
    /\ t.pc \in {"files", "row"} =>
          /\ \A x \in t.targets : x \in Used
          /\ t.kind = "deploy" => ~t.single
    /\ t.pc = "row" => t.old \subseteq t.targets /\ t.old # {}
    /\ t.kind = "preBuilt" => t.flows # {}
    /\ t.kind = "deleteFlow" => \E x \in Rows : t.targets = {x}
    /\ t.kind = "deleteConfig" => t.flow \in Flows
    /\ t.given \in {NoVersion, <<"int", 1>>}
    /\ t.given # NoVersion /\ t.pc \in BeforeInsert \cup {"deactivate"} =>
          \A f \in t.flows : "given" \in muddle[f]
    /\ \A f \in Chosen(r) : t.insert[f] \in Versions

AllFit == \A r \in Requests : RequestFits(r)

\* Two requests that touch a flow have overlapped, and neither is alone on it.
Apart ==
    \A r, q \in Running : r # q =>
       \A f \in Touches(task[r]) \cap Touches(task[q]) :
          "overlap" \in muddle[f] /\ f \notin task[r].alone

\* The requests that may still insert rows have room for them, and a version is at
\* most the number of the requests that have inserted, or are about to.
Waiting == {r \in Requests : task[r].pc \in BeforeInsert}

RoomFor(n) ==
    /\ n + Cardinality(Waiting) <= begun
    /\ \E k \in 0..NumFlows * n : Used = 1..k
    /\ \A x \in Used : row[x].version \in Versions /\ row[x].version[2] <= n
    /\ \A r \in Waiting, f \in Flows : task[r].insert[f][2] <= n + 1

Room == \E n \in 0..MaxRequests : RoomFor(n)

Shapes ==
    /\ task \in [Requests -> TaskType]
    /\ row \in [Rows -> RowType]

CoreInv == TypeOK /\ Shapes /\ AllFit /\ Apart /\ Room

(***************************************************************************)
(* What holds of every flow, and what a request knows of the flows that it *)
(* is alone on, or that nothing has muddled.                               *)
(***************************************************************************)

Clean(f, S) == muddle[f] \cap S = {}
Knows(r, f, S) == f \in task[r].alone \/ Clean(f, S)

OfActive == {"overlap", "partial", "unread"}
OfFile == {"overlap", "versionUnread", "given", "dropped"}
OfSource == {"overlap", "partial", "unread", "ahead", "behind"}
OfConfig == {"overlap"}

Below(v, w) == v[1] = w[1] /\ v[2] < w[2]

\* One version is active.
OneActive(f) == Clean(f, OfActive) => Inserting(f) \/ \A x, y \in ActiveRows(f) : x = y
OneLeft(r, f) ==
    f \in Read(r) /\ Knows(r, f, OfActive) =>
       IF At(r, "deactivate")
       THEN \A x \in ActiveRows(f) \ task[r].old :
               /\ row[x].version = task[r].insert[f] /\ row[x].code = r
               /\ \A y \in ActiveRows(f) \ task[r].old : x = y
       ELSE ActiveRows(f) \subseteq task[r].old

\* Its file is there, and versions grow.
FileThere(f) ==
    Clean(f, OfFile) =>
       /\ \A x \in ActiveRows(f) : file[f, row[x].version] = row[x].code
       /\ \A x, y \in ActiveRows(f) : x < y => Below(row[x].version, row[y].version)
NewVersion(r, f) ==
    f \in Chosen(r) /\ ~At(r, "deactivate") /\ Clean(f, OfFile) =>
       \A x \in ActiveRows(f) : Below(row[x].version, task[r].insert[f])
FileUploaded(r, f) ==
    f \in Uploaded(r) /\ Knows(r, f, OfFile) => file[f, task[r].insert[f]] = r

\* Its source is there.
SourceThere(f) ==
    Clean(f, OfSource) /\ (\A q \in Requests : f \notin Ahead(q)) =>
       \A x \in ActiveRows(f) : (\A y \in ActiveRows(f) : y <= x) => source[f] = row[x].code
SourceUploaded(r, f) == f \in Sourced(r) /\ Knows(r, f, OfSource) => source[f] = r

\* Its provider config is there.
ConfigThere(f) == Clean(f, OfConfig) /\ ActiveRows(f) # {} => f \in configs
ConfigSeen(r, f) == f \in Chosen(r) /\ Knows(r, f, OfConfig) => f \in configs
RowsGone(r, f) ==
    At(r, "config") /\ task[r].flow = f /\ Clean(f, OfConfig) => ActiveRows(f) = {}

FlowInv(f) == OneActive(f) /\ FileThere(f) /\ SourceThere(f) /\ ConfigThere(f)
KnownInv(r, f) ==
    /\ OneLeft(r, f) /\ NewVersion(r, f) /\ FileUploaded(r, f) /\ SourceUploaded(r, f)
    /\ ConfigSeen(r, f) /\ RowsGone(r, f)

\* What a deploy is to delete was shown, where it is alone.
ToDelete(r) ==
    IF task[r].pc \in {"files", "row"} THEN task[r].targets
    ELSE Missing(task[r].flows, task[r].single)
WasShown(r) ==
    task[r].kind = "deploy" =>
       \A x \in ToDelete(r) : row[x].flow \in task[r].alone => row[x].flow \in task[r].shown

VersionInv ==
    /\ CoreInv
    /\ \A f \in Flows : FlowInv(f)
    /\ \A r \in Requests, f \in Flows : KnownInv(r, f)
    /\ \A r \in Requests : WasShown(r)

(***************************************************************************)
(* Least and greatest numbers, and the ranks of the members of a set.      *)
(***************************************************************************)

LEMMA MinExists ==
    ASSUME NEW S, S \subseteq Nat, S # {}
    PROVE  Min(S) \in S /\ \A y \in S : Min(S) <= y
<1> DEFINE R == OpToRel(<, Nat)
<1>0. R = {ss \in Nat \X Nat : ss[1] < ss[2]}
  BY DEF OpToRel
<1>a. IsWellFoundedOn(R, Nat)
  BY NatLessThanWellFounded
<1> HIDE DEF R
<1>1. \E x \in S : \A y \in S : ~(<<y, x>> \in R)
  BY <1>a, WFMin
<1>2. PICK x \in S : \A y \in S : ~(<<y, x>> \in R)
  BY <1>1
<1>3. \A y \in S : x <= y
  <2> SUFFICES ASSUME NEW y \in S, ~(x <= y) PROVE FALSE
    OBVIOUS
  <2>1. y < x /\ x \in Nat /\ y \in Nat
    OBVIOUS
  <2>2. <<y, x>> \in R
    BY <2>1, <1>0
  <2> QED
    BY <2>2, <1>2
<1> QED
  BY <1>3 DEF Min

LEMMA MaxExists ==
    ASSUME NEW n \in Nat, NEW S, S \subseteq 1..n, S # {}
    PROVE  Max(S) \in S /\ \A y \in S : y <= Max(S)
<1> DEFINE T == {m \in 0..n : \E x \in S : m = n - x}
<1>1. T \subseteq Nat
  OBVIOUS
<1>1a. T # {}
  <2> PICK x \in S : TRUE
    OBVIOUS
  <2>1. n - x \in T
    OBVIOUS
  <2> QED
    BY <2>1
<1>2. Min(T) \in T /\ \A y \in T : Min(T) <= y
  <2> HIDE DEF T
  <2> QED
    BY <1>1, <1>1a, MinExists
<1>3. PICK x \in S : Min(T) = n - x
  BY <1>2
<1>4. \A y \in S : n - x <= n - y
  <2> TAKE y \in S
  <2>1. n - y \in T
    OBVIOUS
  <2> QED
    BY <1>2, <1>3, <2>1
<1>5. \A y \in S : x >= y
  BY <1>4
<1> QED
  BY <1>5 DEF Max
\* The numbers 1, 2, ... of the members of a set.
LEMMA Ranks ==
    ASSUME NEW n \in Nat, NEW S, S \subseteq 1..n
    PROVE  /\ IsFiniteSet(S) /\ Cardinality(S) \in 0..n
           /\ \A f \in S : Cardinality({g \in S : g <= f}) \in 1..Cardinality(S)
           /\ \A f, h \in S : Cardinality({g \in S : g <= f}) = Cardinality({g \in S : g <= h}) => f = h
           /\ \A i \in 1..Cardinality(S) : \E f \in S : Cardinality({g \in S : g <= f}) = i
<1> DEFINE upto(f) == {g \in S : g <= f}
<1>1. IsFiniteSet(S) /\ Cardinality(S) \in 0..n
  <2>1. IsFiniteSet(1..n) /\ Cardinality(1..n) = n
    BY FS_Interval
  <2>2. IsFiniteSet(S) /\ Cardinality(S) <= Cardinality(1..n)
    BY <2>1, FS_Subset
  <2>3. Cardinality(S) \in Nat
    BY <2>2, FS_CardinalityType
  <2> QED
    BY <2>1, <2>2, <2>3
<1>u. \A f \in S : upto(f) \subseteq S /\ f \in upto(f)
  OBVIOUS
<1>v. \A f, h \in S : h > f => upto(f) \subseteq upto(h) /\ h \in upto(h) /\ h \notin upto(f)
  <2> TAKE f, h \in S
  <2> HAVE h > f
  <2>1. f \in Nat /\ h \in Nat /\ \A g \in S : g \in Nat
    OBVIOUS
  <2>2. \A g \in upto(f) : g \in S /\ g <= h
    BY <2>1
  <2>3. ~(h <= f)
    BY <2>1
  <2>4. h \in upto(h)
    BY <2>1
  <2>5. h \notin upto(f)
    BY <2>3
  <2>6. upto(f) \subseteq upto(h)
    BY <2>2
  <2> QED
    BY <2>4, <2>5, <2>6
<1> HIDE DEF upto
<1>2. ASSUME NEW f \in S
      PROVE  /\ IsFiniteSet(upto(f)) /\ Cardinality(upto(f)) \in 1..Cardinality(S)
             /\ \A h \in S : h > f => Cardinality(upto(f)) < Cardinality(upto(h))
  <2>1. \A h \in S : IsFiniteSet(upto(h)) /\ Cardinality(upto(h)) \in Nat /\ Cardinality(upto(h)) <= Cardinality(S)
    BY <1>1, <1>u, FS_Subset, FS_CardinalityType
  <2>3. Cardinality(upto(f)) # 0
    BY <2>1, <1>u, FS_EmptySet
  <2>4. ASSUME NEW h \in S, h > f PROVE Cardinality(upto(f)) < Cardinality(upto(h))
    <3>1. upto(f) \subseteq upto(h) /\ h \in upto(h) /\ h \notin upto(f)
      BY <2>4, <1>v
    <3>2. upto(f) \in SUBSET upto(h) /\ upto(f) # upto(h)
      BY <3>1
    <3>3. Cardinality(upto(f)) <= Cardinality(upto(h)) /\ Cardinality(upto(f)) # Cardinality(upto(h))
      BY <2>1, <3>2, FS_Subset
    <3> QED
      BY <2>1, <3>3
  <2> QED
    BY <2>1, <2>3, <2>4, <1>1
<1>3. \A f, h \in S : Cardinality(upto(f)) = Cardinality(upto(h)) => f = h
  <2> SUFFICES ASSUME NEW f \in S, NEW h \in S, f # h PROVE Cardinality(upto(f)) # Cardinality(upto(h))
    OBVIOUS
  <2>1. f < h \/ h < f
    OBVIOUS
  <2>2. ASSUME NEW a \in S, NEW b \in S, a < b PROVE Cardinality(upto(a)) # Cardinality(upto(b))
    BY <1>2, <2>2
  <2> QED
    BY <2>1, <2>2
<1> DEFINE rank == [f \in S |-> Cardinality(upto(f))]
<1>4. rank \in Injection(S, 1..Cardinality(S))
  BY <1>2, <1>3 DEF Injection, IsInjective
<1>5. rank \in Surjection(S, 1..Cardinality(S))
  <2>1. IsFiniteSet(1..Cardinality(S)) /\ Cardinality(1..Cardinality(S)) = Cardinality(S)
    BY <1>1, FS_Interval
  <2> QED
    BY <2>1, <1>4, FS_Injection
<1>6. \A i \in 1..Cardinality(S) : \E f \in S : Cardinality(upto(f)) = i
  BY <1>5 DEF Surjection
<1> QED
  BY <1>1, <1>2, <1>3, <1>6 DEF upto

LEMMA RoomLeft ==
    ASSUME NEW N \in Nat, NEW n \in Nat, NEW b \in Nat, n + 1 <= b, NEW k \in Nat, k <= N * n, NEW s \in 0..N
    PROVE  k + s <= N * (n + 1) /\ k + s <= N * b
<1>1. N * (n + 1) = N * n + N /\ N * n \in Nat
  OBVIOUS
<1>2. N * (n + 1) <= N * b
  OBVIOUS
<1> QED
  BY <1>1, <1>2

(***************************************************************************)
(* Types, and what each step does.                                         *)
(***************************************************************************)

LEMMA ZeroIsNoFlow == NoFlow \notin Flows /\ Flows \subseteq Nat /\ Requests \subseteq Nat
BY DEF NoFlow, Flows, Requests

LEMMA IdleIsTask == Idle \in TaskType /\ Idle.pc = "idle" /\ Idle.kind = "none"
<1>1. NoVersion \in Versions \cup {NoVersion}
  OBVIOUS
<1>2. [f \in Flows |-> NoVersion] \in [Flows -> Versions \cup {NoVersion}]
  BY <1>1
<1> QED
  BY <1>2 DEF Idle, TaskType, Kinds, Locations

\* The fields of the locals of a request.
LEMMA FieldsOfTask ==
    ASSUME NEW t \in TaskType
    PROVE  /\ t.kind \in Kinds /\ t.pc \in Locations /\ t.flows \subseteq Flows
           /\ t.todo \subseteq Flows /\ t.given \in Versions \cup {NoVersion}
           /\ t.single \in BOOLEAN /\ t.flow \in Flows \cup {NoFlow}
           /\ t.insert \in [Flows -> Versions \cup {NoVersion}] /\ t.old \subseteq Rows
           /\ t.targets \subseteq Rows /\ t.shown \subseteq Flows /\ t.alone \subseteq Flows
BY DEF TaskType

\* The numbers in a version.
LEMMA VersionsArePairs ==
    ASSUME NEW v \in Versions \cup {NoVersion}
    PROVE  v[2] \in 0..MaxRequests /\ v = <<v[1], v[2]>>
BY RequestsAssumption DEF Versions, NoVersion

\* The locals of a request after its step, and those of the others.
Then(r, pc, todo, flow, insert, old, targets, alone) ==
    LET s == task[r]
        t == task'[r]
    IN  /\ task' \in [Requests -> TaskType]
        /\ t.kind = s.kind /\ t.flows = s.flows /\ t.given = s.given /\ t.single = s.single
        /\ t.shown = s.shown
        /\ t.pc = pc /\ t.todo = todo /\ t.flow = flow /\ t.insert = insert /\ t.old = old
        /\ t.targets = targets /\ t.alone = alone
Over(r) == task' \in [Requests -> TaskType] /\ task'[r] = Idle
Only(r) == \A q \in Requests : q # r => task'[q] = task[q]

Forgets(q, s) == task'[q] = [task[q] EXCEPT !.alone = s]

LEMMA Becoming ==
    ASSUME Shapes, NEW r \in Requests, NEW t \in TaskType, Become(r, t),
           t.kind = task[r].kind, t.flows = task[r].flows, t.given = task[r].given,
           t.single = task[r].single, t.shown = task[r].shown
    PROVE  Then(r, t.pc, t.todo, t.flow, t.insert, t.old, t.targets, t.alone) /\ Only(r)
BY DEF Shapes, Become, Then, Only

LEMMA Ending ==
    ASSUME Shapes, NEW r \in Requests, End(r)
    PROVE  Over(r) /\ Only(r)
BY IdleIsTask DEF Shapes, End, Become, Over, Only

LEMMA ConfirmedDoes ==
    ASSUME CoreInv, NEW r \in Requests, Confirmed(r)
    PROVE  /\ Only(r)
           /\ Then(r, "flow", task[r].todo, task[r].flow, task[r].insert,
                   task[r].old, task[r].targets, task[r].alone)
           /\ At(r, "confirm")
           /\ UNCHANGED <<row, file, source, configs, begun, mishaps, muddle>>
<1> DEFINE t == [task[r] EXCEPT !.pc = "flow"]
<1>1. task[r] \in TaskType
  BY DEF CoreInv, Shapes
<1>2. t \in TaskType
  BY <1>1 DEF TaskType, Locations
<1>3. /\ t.kind = task[r].kind /\ t.flows = task[r].flows /\ t.given = task[r].given
      /\ t.single = task[r].single /\ t.shown = task[r].shown
      /\ t.pc = "flow"
      /\ t.todo = task[r].todo
      /\ t.flow = task[r].flow
      /\ t.insert = task[r].insert
      /\ t.old = task[r].old
      /\ t.targets = task[r].targets
      /\ t.alone = task[r].alone
  BY <1>1 DEF TaskType
<1>4. Become(r, t)
  BY DEF Confirmed, Goto
<1> HIDE DEF t
<1>5. Then(r, t.pc, t.todo, t.flow, t.insert, t.old, t.targets, t.alone) /\ Only(r)
  BY <1>2, <1>3, <1>4, Becoming DEF CoreInv
<1>6. /\ At(r, "confirm")
      /\ UNCHANGED <<row, file, source, configs, begun, mishaps, muddle>>
  BY DEF Confirmed
<1> QED
  BY <1>3, <1>5, <1>6

LEMMA ChooseVersionDoes ==
    ASSUME CoreInv, NEW r \in Requests, NEW f \in Flows, NEW v \in Versions, ChooseVersion(r, f, v)
    PROVE  /\ Only(r)
           /\ Then(r, "upload", task[r].todo, f, [task[r].insert EXCEPT ![f] = v],
                   task[r].old, task[r].targets, task[r].alone)
           /\ At(r, "flow") /\ f \in task[r].todo /\ f \in configs
<1> DEFINE t == [task[r] EXCEPT !.pc = "upload", !.flow = f, !.insert[f] = v]
<1>1. task[r] \in TaskType
  BY DEF CoreInv, Shapes
<1>a. task[r].todo \subseteq Nat /\ task[r].todo # {} /\ f = Min(task[r].todo)
  BY <1>1, ZeroIsNoFlow DEF TaskType, ChooseVersion
<1>b. f \in task[r].todo
  BY <1>a, MinExists
<1>2. t \in TaskType
  BY <1>1 DEF TaskType, Locations
<1>3. /\ t.kind = task[r].kind /\ t.flows = task[r].flows /\ t.given = task[r].given
      /\ t.single = task[r].single /\ t.shown = task[r].shown
      /\ t.pc = "upload"
      /\ t.todo = task[r].todo
      /\ t.flow = f
      /\ t.insert = [task[r].insert EXCEPT ![f] = v]
      /\ t.old = task[r].old
      /\ t.targets = task[r].targets
      /\ t.alone = task[r].alone
  BY <1>1 DEF TaskType
<1>4. Become(r, t)
  BY DEF ChooseVersion
<1> HIDE DEF t
<1>5. Then(r, t.pc, t.todo, t.flow, t.insert, t.old, t.targets, t.alone) /\ Only(r)
  BY <1>2, <1>3, <1>4, Becoming DEF CoreInv
<1>6. /\ At(r, "flow") /\ f \in task[r].todo /\ f \in configs
  BY <1>b DEF ChooseVersion
<1> QED
  BY <1>3, <1>5, <1>6

LEMMA UploadDoes ==
    ASSUME CoreInv, NEW r \in Requests, Upload(r)
    PROVE  /\ Only(r)
           /\ Then(r, "source", task[r].todo, task[r].flow, task[r].insert,
                   task[r].old, task[r].targets, task[r].alone)
           /\ At(r, "upload")
           /\ file' = [file EXCEPT ![<<task[r].flow, task[r].insert[task[r].flow]>>] = r]
           /\ UNCHANGED <<row, source, configs, begun, mishaps, muddle>>
<1> DEFINE t == [task[r] EXCEPT !.pc = "source"]
<1>1. task[r] \in TaskType
  BY DEF CoreInv, Shapes
<1>2. t \in TaskType
  BY <1>1 DEF TaskType, Locations
<1>3. /\ t.kind = task[r].kind /\ t.flows = task[r].flows /\ t.given = task[r].given
      /\ t.single = task[r].single /\ t.shown = task[r].shown
      /\ t.pc = "source"
      /\ t.todo = task[r].todo
      /\ t.flow = task[r].flow
      /\ t.insert = task[r].insert
      /\ t.old = task[r].old
      /\ t.targets = task[r].targets
      /\ t.alone = task[r].alone
  BY <1>1 DEF TaskType
<1>4. Become(r, t)
  BY DEF Upload, Goto
<1> HIDE DEF t
<1>5. Then(r, t.pc, t.todo, t.flow, t.insert, t.old, t.targets, t.alone) /\ Only(r)
  BY <1>2, <1>3, <1>4, Becoming DEF CoreInv
<1>6. /\ At(r, "upload")
      /\ file' = [file EXCEPT ![<<task[r].flow, task[r].insert[task[r].flow]>>] = r]
      /\ UNCHANGED <<row, source, configs, begun, mishaps, muddle>>
  BY DEF Upload, Rest, NoFault
<1> QED
  BY <1>3, <1>5, <1>6

LEMMA UploadFailsDoes ==
    ASSUME CoreInv, NEW r \in Requests, UploadFails(r)
    PROVE  /\ Only(r)
           /\ Then(r, "lastSource", task[r].todo, task[r].flow, task[r].insert,
                   task[r].old, task[r].targets, task[r].alone)
           /\ At(r, "upload") /\ task[r].kind = "deploy"
           /\ UNCHANGED <<row, file, source, configs, begun, muddle>>
<1> DEFINE t == [task[r] EXCEPT !.pc = "lastSource"]
<1>1. task[r] \in TaskType
  BY DEF CoreInv, Shapes
<1>2. t \in TaskType
  BY <1>1 DEF TaskType, Locations
<1>3. /\ t.kind = task[r].kind /\ t.flows = task[r].flows /\ t.given = task[r].given
      /\ t.single = task[r].single /\ t.shown = task[r].shown
      /\ t.pc = "lastSource"
      /\ t.todo = task[r].todo
      /\ t.flow = task[r].flow
      /\ t.insert = task[r].insert
      /\ t.old = task[r].old
      /\ t.targets = task[r].targets
      /\ t.alone = task[r].alone
  BY <1>1 DEF TaskType
<1>4. Become(r, t)
  BY DEF UploadFails, Goto
<1> HIDE DEF t
<1>5. Then(r, t.pc, t.todo, t.flow, t.insert, t.old, t.targets, t.alone) /\ Only(r)
  BY <1>2, <1>3, <1>4, Becoming DEF CoreInv
<1>6. /\ At(r, "upload") /\ task[r].kind = "deploy"
      /\ UNCHANGED <<row, file, source, configs, begun, muddle>>
  BY DEF UploadFails, Rest
<1> QED
  BY <1>3, <1>5, <1>6

LEMMA UploadSourceDoes ==
    ASSUME CoreInv, NEW r \in Requests, UploadSource(r)
    PROVE  /\ Only(r)
           /\ Then(r, "old", task[r].todo, task[r].flow, task[r].insert,
                   task[r].old, task[r].targets, task[r].alone)
           /\ At(r, "source")
           /\ source' = [source EXCEPT ![task[r].flow] = r]
           /\ UNCHANGED <<row, file, configs, begun, mishaps, muddle>>
<1> DEFINE t == [task[r] EXCEPT !.pc = "old"]
<1>1. task[r] \in TaskType
  BY DEF CoreInv, Shapes
<1>2. t \in TaskType
  BY <1>1 DEF TaskType, Locations
<1>3. /\ t.kind = task[r].kind /\ t.flows = task[r].flows /\ t.given = task[r].given
      /\ t.single = task[r].single /\ t.shown = task[r].shown
      /\ t.pc = "old"
      /\ t.todo = task[r].todo
      /\ t.flow = task[r].flow
      /\ t.insert = task[r].insert
      /\ t.old = task[r].old
      /\ t.targets = task[r].targets
      /\ t.alone = task[r].alone
  BY <1>1 DEF TaskType
<1>4. Become(r, t)
  BY DEF UploadSource, Goto
<1> HIDE DEF t
<1>5. Then(r, t.pc, t.todo, t.flow, t.insert, t.old, t.targets, t.alone) /\ Only(r)
  BY <1>2, <1>3, <1>4, Becoming DEF CoreInv
<1>6. /\ At(r, "source")
      /\ source' = [source EXCEPT ![task[r].flow] = r]
      /\ UNCHANGED <<row, file, configs, begun, mishaps, muddle>>
  BY DEF UploadSource, PutSource, Rest, NoFault
<1> QED
  BY <1>3, <1>5, <1>6

LEMMA SourceUploadFailsDoes ==
    ASSUME CoreInv, NEW r \in Requests, SourceUploadFails(r)
    PROVE  /\ Only(r)
           /\ Then(r, "old", task[r].todo, task[r].flow, task[r].insert,
                   task[r].old, task[r].targets, task[r].alone \ {task[r].flow})
           /\ At(r, "source")
           /\ muddle' = Mark({task[r].flow}, "behind")
           /\ UNCHANGED <<row, file, source, configs, begun>>
<1> DEFINE t == [task[r] EXCEPT !.pc = "old", !.alone = @ \ {task[r].flow}]
<1>1. task[r] \in TaskType
  BY DEF CoreInv, Shapes
<1>2. t \in TaskType
  BY <1>1 DEF TaskType, Locations
<1>3. /\ t.kind = task[r].kind /\ t.flows = task[r].flows /\ t.given = task[r].given
      /\ t.single = task[r].single /\ t.shown = task[r].shown
      /\ t.pc = "old"
      /\ t.todo = task[r].todo
      /\ t.flow = task[r].flow
      /\ t.insert = task[r].insert
      /\ t.old = task[r].old
      /\ t.targets = task[r].targets
      /\ t.alone = task[r].alone \ {task[r].flow}
  BY <1>1 DEF TaskType
<1>4. Become(r, t)
  BY DEF SourceUploadFails
<1> HIDE DEF t
<1>5. Then(r, t.pc, t.todo, t.flow, t.insert, t.old, t.targets, t.alone) /\ Only(r)
  BY <1>2, <1>3, <1>4, Becoming DEF CoreInv
<1>6. /\ At(r, "source")
      /\ muddle' = Mark({task[r].flow}, "behind")
      /\ UNCHANGED <<row, file, source, configs, begun>>
  BY DEF SourceUploadFails, Rest
<1> QED
  BY <1>3, <1>5, <1>6

LEMMA FoundDoes ==
    ASSUME CoreInv, NEW r \in Requests, NEW old \in SUBSET Rows, NEW alone \in SUBSET task[r].alone, Found(r, old, alone)
    PROVE  /\ Only(r)
           /\ Then(r, IF task[r].todo \ {task[r].flow} = {} THEN "insert" ELSE "flow", task[r].todo \ {task[r].flow}, NoFlow, task[r].insert,
                   task[r].old \cup old, task[r].targets, alone)
           /\ At(r, "old")
<1> DEFINE t == [task[r] EXCEPT !.pc = IF task[r].todo \ {task[r].flow} = {} THEN "insert" ELSE "flow",
                                !.todo = task[r].todo \ {task[r].flow}, !.old = @ \cup old, !.alone = alone,
                                !.flow = NoFlow]
<1>1. task[r] \in TaskType
  BY DEF CoreInv, Shapes
<1>2. t \in TaskType
  BY <1>1 DEF TaskType, Locations
<1>3. /\ t.kind = task[r].kind /\ t.flows = task[r].flows /\ t.given = task[r].given
      /\ t.single = task[r].single /\ t.shown = task[r].shown
      /\ t.pc = IF task[r].todo \ {task[r].flow} = {} THEN "insert" ELSE "flow"
      /\ t.todo = task[r].todo \ {task[r].flow}
      /\ t.flow = NoFlow
      /\ t.insert = task[r].insert
      /\ t.old = task[r].old \cup old
      /\ t.targets = task[r].targets
      /\ t.alone = alone
  BY <1>1 DEF TaskType
<1>4. Become(r, t)
  BY DEF Found
<1> HIDE DEF t
<1>5. Then(r, t.pc, t.todo, t.flow, t.insert, t.old, t.targets, t.alone) /\ Only(r)
  BY <1>2, <1>3, <1>4, Becoming DEF CoreInv
<1>6. /\ At(r, "old")
  BY DEF Found
<1> QED
  BY <1>3, <1>5, <1>6

LEMMA InsertDoes ==
    ASSUME CoreInv, NEW r \in Requests, Insert(r)
    PROVE  /\ Only(r)
           /\ Then(r, "deactivate", task[r].todo, task[r].flow, task[r].insert,
                   task[r].old, task[r].targets, task[r].alone)
           /\ At(r, "insert")
           /\ UNCHANGED <<file, source, configs, begun, mishaps, muddle>>
<1> DEFINE t == [task[r] EXCEPT !.pc = "deactivate"]
<1>1. task[r] \in TaskType
  BY DEF CoreInv, Shapes
<1>2. t \in TaskType
  BY <1>1 DEF TaskType, Locations
<1>3. /\ t.kind = task[r].kind /\ t.flows = task[r].flows /\ t.given = task[r].given
      /\ t.single = task[r].single /\ t.shown = task[r].shown
      /\ t.pc = "deactivate"
      /\ t.todo = task[r].todo
      /\ t.flow = task[r].flow
      /\ t.insert = task[r].insert
      /\ t.old = task[r].old
      /\ t.targets = task[r].targets
      /\ t.alone = task[r].alone
  BY <1>1 DEF TaskType
<1>4. Become(r, t)
  BY DEF Insert, Goto
<1> HIDE DEF t
<1>5. Then(r, t.pc, t.todo, t.flow, t.insert, t.old, t.targets, t.alone) /\ Only(r)
  BY <1>2, <1>3, <1>4, Becoming DEF CoreInv
<1>6. /\ At(r, "insert")
      /\ UNCHANGED <<file, source, configs, begun, mishaps, muddle>>
  BY DEF Insert, Rest, NoFault
<1> QED
  BY <1>3, <1>5, <1>6

LEMMA ReconcileWaits ==
    ASSUME CoreInv, NEW r \in Requests, Deactivate(r), task[r].kind = "deploy"
    PROVE  /\ Only(r)
           /\ Then(r, "reconcile", task[r].todo, task[r].flow, [f \in Flows |-> NoVersion],
                   {}, task[r].targets, task[r].alone)
           /\ At(r, "deactivate")
<1> DEFINE t == [task[r] EXCEPT !.pc = "reconcile", !.old = {}, !.insert = Idle.insert]
<1>1. task[r] \in TaskType
  BY DEF CoreInv, Shapes
<1>a. Idle.insert = [f \in Flows |-> NoVersion]
  BY DEF Idle
<1>2. t \in TaskType
  BY <1>1, <1>a DEF TaskType, Locations
<1>3. /\ t.kind = task[r].kind /\ t.flows = task[r].flows /\ t.given = task[r].given
      /\ t.single = task[r].single /\ t.shown = task[r].shown
      /\ t.pc = "reconcile"
      /\ t.todo = task[r].todo
      /\ t.flow = task[r].flow
      /\ t.insert = [f \in Flows |-> NoVersion]
      /\ t.old = {}
      /\ t.targets = task[r].targets
      /\ t.alone = task[r].alone
  BY <1>1, <1>a DEF TaskType
<1>4. Become(r, t)
  BY DEF Deactivate, Deployed
<1> HIDE DEF t
<1>5. Then(r, t.pc, t.todo, t.flow, t.insert, t.old, t.targets, t.alone) /\ Only(r)
  BY <1>2, <1>3, <1>4, Becoming DEF CoreInv
<1>6. /\ At(r, "deactivate")
  BY DEF Deactivate
<1> QED
  BY <1>3, <1>5, <1>6

LEMMA NextTargetDoes ==
    ASSUME CoreInv, NEW r \in Requests, NEW targets \in SUBSET Rows, NextTarget(r, targets), targets # {}
    PROVE  /\ Only(r)
           /\ Then(r, "files", task[r].todo, task[r].flow, task[r].insert,
                   task[r].old, targets, task[r].alone)
<1> DEFINE t == [task[r] EXCEPT !.pc = "files", !.targets = targets]
<1>1. task[r] \in TaskType
  BY DEF CoreInv, Shapes
<1>2. t \in TaskType
  BY <1>1 DEF TaskType, Locations
<1>3. /\ t.kind = task[r].kind /\ t.flows = task[r].flows /\ t.given = task[r].given
      /\ t.single = task[r].single /\ t.shown = task[r].shown
      /\ t.pc = "files"
      /\ t.todo = task[r].todo
      /\ t.flow = task[r].flow
      /\ t.insert = task[r].insert
      /\ t.old = task[r].old
      /\ t.targets = targets
      /\ t.alone = task[r].alone
  BY <1>1 DEF TaskType
<1>4. Become(r, t)
  BY DEF NextTarget
<1> HIDE DEF t
<1>5. Then(r, t.pc, t.todo, t.flow, t.insert, t.old, t.targets, t.alone) /\ Only(r)
  BY <1>2, <1>3, <1>4, Becoming DEF CoreInv
<1> QED
  BY <1>3, <1>5

LEMMA FilesKeptDoes ==
    ASSUME CoreInv, NEW r \in Requests, NEW x \in Rows, FilesKept(r, x)
    PROVE  /\ Only(r)
           /\ Then(r, "row", task[r].todo, task[r].flow, task[r].insert,
                   {x}, task[r].targets, task[r].alone)
           /\ At(r, "files") /\ x \in task[r].targets
           /\ UNCHANGED <<row, file, source, configs, begun, muddle>>
<1> DEFINE t == [task[r] EXCEPT !.pc = "row", !.old = {x}]
<1>1. task[r] \in TaskType
  BY DEF CoreInv, Shapes
<1>2. t \in TaskType
  BY <1>1 DEF TaskType, Locations
<1>3. /\ t.kind = task[r].kind /\ t.flows = task[r].flows /\ t.given = task[r].given
      /\ t.single = task[r].single /\ t.shown = task[r].shown
      /\ t.pc = "row"
      /\ t.todo = task[r].todo
      /\ t.flow = task[r].flow
      /\ t.insert = task[r].insert
      /\ t.old = {x}
      /\ t.targets = task[r].targets
      /\ t.alone = task[r].alone
  BY <1>1 DEF TaskType
<1>4. Become(r, t)
  BY DEF FilesKept
<1> HIDE DEF t
<1>5. Then(r, t.pc, t.todo, t.flow, t.insert, t.old, t.targets, t.alone) /\ Only(r)
  BY <1>2, <1>3, <1>4, Becoming DEF CoreInv
<1>6. /\ At(r, "files") /\ x \in task[r].targets
      /\ UNCHANGED <<row, file, source, configs, begun, muddle>>
  BY DEF FilesKept, Rest
<1> QED
  BY <1>3, <1>5, <1>6

LEMMA ConfigFilesKeptDoes ==
    ASSUME CoreInv, NEW r \in Requests, ConfigFilesKept(r)
    PROVE  /\ Only(r)
           /\ Then(r, "configRows", task[r].todo, task[r].flow, task[r].insert,
                   task[r].old, task[r].targets, task[r].alone)
           /\ At(r, "configFiles")
           /\ UNCHANGED <<row, file, source, configs, begun, muddle>>
<1> DEFINE t == [task[r] EXCEPT !.pc = "configRows"]
<1>1. task[r] \in TaskType
  BY DEF CoreInv, Shapes
<1>2. t \in TaskType
  BY <1>1 DEF TaskType, Locations
<1>3. /\ t.kind = task[r].kind /\ t.flows = task[r].flows /\ t.given = task[r].given
      /\ t.single = task[r].single /\ t.shown = task[r].shown
      /\ t.pc = "configRows"
      /\ t.todo = task[r].todo
      /\ t.flow = task[r].flow
      /\ t.insert = task[r].insert
      /\ t.old = task[r].old
      /\ t.targets = task[r].targets
      /\ t.alone = task[r].alone
  BY <1>1 DEF TaskType
<1>4. Become(r, t)
  BY DEF ConfigFilesKept, Goto
<1> HIDE DEF t
<1>5. Then(r, t.pc, t.todo, t.flow, t.insert, t.old, t.targets, t.alone) /\ Only(r)
  BY <1>2, <1>3, <1>4, Becoming DEF CoreInv
<1>6. /\ At(r, "configFiles")
      /\ UNCHANGED <<row, file, source, configs, begun, muddle>>
  BY DEF ConfigFilesKept, Rest
<1> QED
  BY <1>3, <1>5, <1>6

LEMMA DropConfigRowsDoes ==
    ASSUME CoreInv, NEW r \in Requests, DropConfigRows(r)
    PROVE  /\ Only(r)
           /\ Then(r, "config", task[r].todo, task[r].flow, task[r].insert,
                   task[r].old, task[r].targets, task[r].alone)
           /\ At(r, "configRows")
           /\ row' = [x \in Rows |-> IF row[x].flow = task[r].flow THEN [row[x] EXCEPT !.state = "deleted"] ELSE row[x]]
           /\ UNCHANGED <<file, source, configs, begun, mishaps, muddle>>
<1> DEFINE t == [task[r] EXCEPT !.pc = "config"]
<1>1. task[r] \in TaskType
  BY DEF CoreInv, Shapes
<1>2. t \in TaskType
  BY <1>1 DEF TaskType, Locations
<1>3. /\ t.kind = task[r].kind /\ t.flows = task[r].flows /\ t.given = task[r].given
      /\ t.single = task[r].single /\ t.shown = task[r].shown
      /\ t.pc = "config"
      /\ t.todo = task[r].todo
      /\ t.flow = task[r].flow
      /\ t.insert = task[r].insert
      /\ t.old = task[r].old
      /\ t.targets = task[r].targets
      /\ t.alone = task[r].alone
  BY <1>1 DEF TaskType
<1>4. Become(r, t)
  BY DEF DropConfigRows, Goto
<1> HIDE DEF t
<1>5. Then(r, t.pc, t.todo, t.flow, t.insert, t.old, t.targets, t.alone) /\ Only(r)
  BY <1>2, <1>3, <1>4, Becoming DEF CoreInv
<1>6. /\ At(r, "configRows")
      /\ row' = [x \in Rows |-> IF row[x].flow = task[r].flow THEN [row[x] EXCEPT !.state = "deleted"] ELSE row[x]]
      /\ UNCHANGED <<file, source, configs, begun, mishaps, muddle>>
  BY DEF DropConfigRows, Rest, NoFault
<1> QED
  BY <1>3, <1>5, <1>6

(***************************************************************************)
(* The newest version, and the next.                                       *)
(***************************************************************************)

LEMMA RowsAreNumbers == NumFlows * MaxRequests \in Nat /\ Rows = 1..(NumFlows * MaxRequests)
BY FlowsAssumption, RequestsAssumption DEF Rows

LEMMA NewestIsActive ==
    ASSUME NEW f \in Flows, ActiveRows(f) # {}
    PROVE  Newest(f) \in ActiveRows(f) /\ \A y \in ActiveRows(f) : y <= Newest(f)
<1>1. ActiveRows(f) \subseteq Rows
  BY DEF ActiveRows
<1> QED
  BY <1>1, RowsAreNumbers, MaxExists DEF Newest

LEMMA ActiveIsUsed ==
    ASSUME CoreInv, NEW f \in Flows, NEW x \in ActiveRows(f)
    PROVE  /\ x \in Used /\ x \in Rows /\ row[x].flow = f /\ row[x].state = "active"
           /\ row[x].version \in Versions
BY DEF CoreInv, Room, RoomFor, ActiveRows, IsActive, Used

LEMMA WaitingIsFinite ==
    IsFiniteSet(Waiting) /\ Cardinality(Waiting) \in Nat /\ \A r \in Waiting : Cardinality(Waiting) >= 1
<1>1. IsFiniteSet(Requests)
  BY FS_Interval, RequestsAssumption DEF Requests
<1>2. Waiting \subseteq Requests
  BY DEF Waiting
<1>3. IsFiniteSet(Waiting)
  BY <1>1, <1>2, FS_Subset
<1>4. Cardinality(Waiting) \in Nat
  BY <1>3, FS_CardinalityType
<1>5. \A r \in Waiting : Cardinality(Waiting) # 0
  BY <1>3, FS_EmptySet
<1> QED
  BY <1>3, <1>4, <1>5

\* There is a version for every flow that a deploy has still to do.
LEMMA RoomForVersion ==
    ASSUME CoreInv, NEW r \in Requests, At(r, "flow"), NEW f \in task[r].todo,
           NEW n \in 0..MaxRequests, RoomFor(n)
    PROVE  /\ n + 1 <= MaxRequests
           /\ NextVersion(r, f) \in Versions /\ NextVersion(r, f)[2] <= n + 1
           /\ \A k \in {"int", "semver"} : <<k, 1>> \in Versions
<1>1. r \in Waiting /\ task[r] \in TaskType
  BY DEF At, Waiting, BeforeInsert, Loop, CoreInv, Shapes
<1>2. n + 1 <= MaxRequests /\ MaxRequests \in Nat
  <2>1. Cardinality(Waiting) >= 1 /\ Cardinality(Waiting) \in Nat
    BY <1>1, WaitingIsFinite
  <2>2. n + Cardinality(Waiting) <= begun /\ begun \in 0..MaxRequests
    BY DEF RoomFor, CoreInv, TypeOK
  <2> QED
    BY <2>1, <2>2, RequestsAssumption
<1>3. \A k \in {"int", "semver"} : <<k, 1>> \in Versions
  BY <1>2 DEF Versions
<1>4. CASE task[r].given # NoVersion
  <2>1. task[r].given = <<"int", 1>>
    BY <1>4 DEF CoreInv, AllFit, RequestFits
  <2>2. NextVersion(r, f) = <<"int", 1>>
    BY <1>4, <2>1 DEF NextVersion
  <2> QED
    BY <1>2, <1>3, <2>2
<1>5. CASE task[r].given = NoVersion /\ ActiveRows(f) # {}
  <2>1. f \in Flows
    BY <1>1, FieldsOfTask
  <2> DEFINE v == row[Newest(f)].version
  <2>2. Newest(f) \in Used /\ v \in Versions
    BY <1>5, <2>1, NewestIsActive, ActiveIsUsed
  <2>3. v[2] <= n
    BY <2>2 DEF RoomFor
  <2>4. v[1] \in {"int", "semver"} /\ v[2] \in 1..MaxRequests
    BY <2>2 DEF Versions
  <2>5. NextVersion(r, f) = <<v[1], v[2] + 1>>
    BY <1>5 DEF NextVersion, Increment
  <2> HIDE DEF v
  <2>6. v[2] + 1 \in 1..MaxRequests
    BY <1>2, <2>3, <2>4
  <2> QED
    BY <1>2, <1>3, <2>3, <2>4, <2>5, <2>6 DEF Versions
<1>6. CASE task[r].given = NoVersion /\ ActiveRows(f) = {}
  <2>1. NextVersion(r, f) = <<IF task[r].kind = "preBuilt" THEN "semver" ELSE "int", 1>>
    BY <1>6 DEF NextVersion
  <2> QED
    BY <1>2, <1>3, <2>1
<1> QED
  BY <1>4, <1>5, <1>6

LEMMA Marked ==
    ASSUME CoreInv, NEW fs, NEW reason \in Reasons
    PROVE  /\ Mark(fs, reason) \in [Flows -> SUBSET Reasons]
           /\ \A f \in Flows : /\ muddle[f] \subseteq Mark(fs, reason)[f]
                               /\ f \in fs => reason \in Mark(fs, reason)[f]
                               /\ f \notin fs => Mark(fs, reason)[f] = muddle[f]
BY DEF Mark, CoreInv, TypeOK

LEMMA ReadPreviousDoes ==
    ASSUME CoreInv, NEW r \in Requests, NEW f \in Flows, ReadPrevious(r, f)
    PROVE  /\ Only(r) /\ NextVersion(r, f) \in Versions
           /\ Then(r, "upload", task[r].todo, f, [task[r].insert EXCEPT ![f] = NextVersion(r, f)],
                   task[r].old, task[r].targets, task[r].alone)
           /\ At(r, "flow") /\ f \in task[r].todo /\ f \in configs
           /\ UNCHANGED <<row, file, source, configs, begun, mishaps, muddle>>
<1>1. PICK n \in 0..MaxRequests : RoomFor(n)
  BY DEF CoreInv, Room
<1>2. ChooseVersion(r, f, NextVersion(r, f))
  BY DEF ReadPrevious
<1>3. At(r, "flow") /\ f = Min(task[r].todo) /\ task[r].todo # {} /\ task[r] \in TaskType
  BY <1>2 DEF ChooseVersion, CoreInv, Shapes
<1>4. f \in task[r].todo
  BY <1>3, MinExists, FieldsOfTask, ZeroIsNoFlow
<1>5. NextVersion(r, f) \in Versions
  BY <1>1, <1>3, <1>4, RoomForVersion
<1>6. UNCHANGED <<row, file, source, configs, begun, mishaps, muddle>>
  BY DEF ReadPrevious, Rest, NoFault
<1> QED
  BY <1>2, <1>5, <1>6, ChooseVersionDoes

LEMMA PreviousUnreadDoes ==
    ASSUME CoreInv, NEW r \in Requests, NEW f \in Flows, PreviousUnread(r, f)
    PROVE  \E v \in Versions :
              /\ v[2] = 1 /\ Only(r)
              /\ Then(r, "upload", task[r].todo, f, [task[r].insert EXCEPT ![f] = v],
                      task[r].old, task[r].targets, task[r].alone)
              /\ At(r, "flow") /\ f \in task[r].todo /\ f \in configs
              /\ muddle' = Mark({f}, "versionUnread")
              /\ UNCHANGED <<row, file, source, configs, begun>>
<1> DEFINE v == <<IF task[r].kind = "preBuilt" THEN "semver" ELSE "int", 1>>
<1>1. 1 \in 1..MaxRequests
  BY RequestsAssumption DEF Requests
<1>2. v \in Versions /\ v[2] = 1
  BY <1>1 DEF Versions
<1>3. ChooseVersion(r, f, v)
  BY DEF PreviousUnread
<1>4. UNCHANGED <<row, file, source, configs, begun>> /\ muddle' = Mark({f}, "versionUnread")
  BY DEF PreviousUnread, Rest
<1> HIDE DEF v
<1> QED
  BY <1>2, <1>3, <1>4, ChooseVersionDoes

LEMMA ReadOldDoes ==
    ASSUME CoreInv, NEW r \in Requests, ReadOld(r)
    PROVE  /\ At(r, "old") /\ Only(r)
           /\ Then(r, IF task[r].todo \ {task[r].flow} = {} THEN "insert" ELSE "flow",
                   task[r].todo \ {task[r].flow}, NoFlow, task[r].insert,
                   task[r].old \cup ActiveRows(task[r].flow), task[r].targets, task[r].alone)
           /\ UNCHANGED <<row, file, source, configs, begun, mishaps, muddle>>
<1>1. Found(r, ActiveRows(task[r].flow), task[r].alone)
  BY DEF ReadOld
<1>2. ActiveRows(task[r].flow) \in SUBSET Rows
  BY DEF ActiveRows
<1>3. UNCHANGED <<row, file, source, configs, begun, mishaps, muddle>>
  BY DEF ReadOld, Rest, NoFault
<1> QED
  BY <1>1, <1>2, <1>3, FoundDoes

LEMMA OldUnreadDoes ==
    ASSUME CoreInv, NEW r \in Requests, OldUnread(r)
    PROVE  /\ At(r, "old") /\ Only(r)
           /\ Then(r, IF task[r].todo \ {task[r].flow} = {} THEN "insert" ELSE "flow",
                   task[r].todo \ {task[r].flow}, NoFlow, task[r].insert,
                   task[r].old, task[r].targets, task[r].alone \ {task[r].flow})
           /\ muddle' = Mark({task[r].flow}, "unread")
           /\ UNCHANGED <<row, file, source, configs, begun>>
<1>1. Found(r, {}, task[r].alone \ {task[r].flow})
  BY DEF OldUnread
<1>2. UNCHANGED <<row, file, source, configs, begun>> /\ muddle' = Mark({task[r].flow}, "unread")
  BY DEF OldUnread, Rest
<1>3. task[r].old \cup {} = task[r].old /\ {} \in SUBSET Rows
  OBVIOUS
<1>4. task[r].alone \ {task[r].flow} \in SUBSET task[r].alone
  OBVIOUS
<1>5. Then(r, IF task[r].todo \ {task[r].flow} = {} THEN "insert" ELSE "flow",
           task[r].todo \ {task[r].flow}, NoFlow, task[r].insert,
           task[r].old \cup {}, task[r].targets, task[r].alone \ {task[r].flow})
      /\ At(r, "old") /\ Only(r)
  BY <1>1, <1>3, <1>4, FoundDoes
<1> QED
  BY <1>2, <1>3, <1>5

\* The rows that a deploy found are inactive; it is over, or only its reconciliation is left.
LEMMA DeactivateDoes ==
    ASSUME CoreInv, NEW r \in Requests, Deactivate(r)
    PROVE  /\ At(r, "deactivate") /\ Only(r)
           /\ \/ Over(r)
              \/ /\ task[r].kind = "deploy"
                 /\ Then(r, "reconcile", task[r].todo, task[r].flow, [f \in Flows |-> NoVersion],
                         {}, task[r].targets, task[r].alone)
           /\ row' = [x \in Rows |-> IF x \in task[r].old /\ row[x].state = "active"
                                     THEN [row[x] EXCEPT !.state = "inactive"] ELSE row[x]]
           /\ muddle' = [f \in Flows |-> IF f \in task[r].flows \cap task[r].alone THEN {}
                                         ELSE muddle[f]]
           /\ UNCHANGED <<file, source, configs, begun, mishaps>>
<1>1. /\ row' = [x \in Rows |-> IF x \in task[r].old /\ row[x].state = "active"
                                THEN [row[x] EXCEPT !.state = "inactive"] ELSE row[x]]
      /\ muddle' = [f \in Flows |-> IF f \in task[r].flows \cap task[r].alone THEN {}
                                    ELSE muddle[f]]
      /\ UNCHANGED <<file, source, configs, begun, mishaps>>
      /\ At(r, "deactivate")
  BY DEF Deactivate, Deactivated, Rest
<1>2. CASE task[r].kind = "deploy"
  BY <1>1, <1>2, ReconcileWaits
<1>3. CASE task[r].kind # "deploy"
  <2>1. End(r)
    BY <1>3 DEF Deactivate, Deployed
  <2> QED
    BY <1>1, <2>1, Ending DEF CoreInv
<1> QED
  BY <1>2, <1>3

LEMMA ReconcileDoes ==
    ASSUME CoreInv, NEW r \in Requests, ReconcileDifferences(r)
    PROVE  /\ At(r, "reconcile") \/ (At(r, "flow") /\ task[r].flows = {})
           /\ Only(r)
           /\ \/ Over(r)
              \/ /\ Missing(task[r].flows, task[r].single) # {}
                 /\ Then(r, "files", task[r].todo, task[r].flow, task[r].insert, task[r].old,
                         Missing(task[r].flows, task[r].single), task[r].alone)
           /\ UNCHANGED <<row, file, source, configs, begun, mishaps, muddle>>
<1> DEFINE M == Missing(task[r].flows, task[r].single)
<1>1. M \in SUBSET Rows
  BY DEF Missing, CustomRows
<1>2. NextTarget(r, M) /\ (At(r, "reconcile") \/ (At(r, "flow") /\ task[r].flows = {}))
      /\ UNCHANGED <<row, file, source, configs, begun, mishaps, muddle>>
  BY DEF ReconcileDifferences, Rest, NoFault
<1> HIDE DEF M
<1>3. CASE M = {}
  <2>1. End(r)
    BY <1>2, <1>3 DEF NextTarget
  <2> QED
    BY <1>2, <2>1, Ending DEF CoreInv
<1>4. CASE M # {}
  BY <1>1, <1>2, <1>4, NextTargetDoes DEF M
<1> QED
  BY <1>3, <1>4

LEMMA DropRowDoes ==
    ASSUME CoreInv, NEW r \in Requests, DropRow(r)
    PROVE  /\ At(r, "row") /\ Only(r)
           /\ \/ Over(r)
              \/ /\ task[r].targets \ task[r].old # {}
                 /\ Then(r, "files", task[r].todo, task[r].flow, task[r].insert, task[r].old,
                         task[r].targets \ task[r].old, task[r].alone)
           /\ row' = [x \in Rows |-> IF x \in task[r].old THEN [row[x] EXCEPT !.state = "deleted"]
                                     ELSE row[x]]
           /\ UNCHANGED <<file, source, configs, begun, mishaps, muddle>>
<1> DEFINE M == task[r].targets \ task[r].old
<1>1. M \in SUBSET Rows
  <2>1. task[r] \in TaskType
    BY DEF CoreInv, Shapes
  <2> QED
    BY <2>1, FieldsOfTask
<1>2. /\ NextTarget(r, M) /\ At(r, "row")
      /\ row' = [x \in Rows |-> IF x \in task[r].old THEN [row[x] EXCEPT !.state = "deleted"]
                                ELSE row[x]]
      /\ UNCHANGED <<file, source, configs, begun, mishaps, muddle>>
  BY DEF DropRow, Rest, NoFault
<1> HIDE DEF M
<1>3. CASE M = {}
  <2>1. End(r)
    BY <1>2, <1>3 DEF NextTarget
  <2> QED
    BY <1>2, <2>1, Ending DEF CoreInv
<1>4. CASE M # {}
  BY <1>1, <1>2, <1>4, NextTargetDoes DEF M
<1> QED
  BY <1>3, <1>4

\* The others are not alone any more on the flow whose files are deleted.
LEMMA DroppingDoes ==
    ASSUME CoreInv, NEW r \in Requests, NEW id, NEW t \in TaskType, Dropping(r, id, t),
           t.kind = task[r].kind, t.flows = task[r].flows, t.given = task[r].given,
           t.single = task[r].single, t.shown = task[r].shown
    PROVE  /\ \A q \in Requests : q # r => Forgets(q, task[q].alone \ {id})
           /\ Then(r, t.pc, t.todo, t.flow, t.insert, t.old, t.targets, t.alone)
<1>1. \A q \in Requests : task[q] \in TaskType
  BY DEF CoreInv, Shapes
<1>2. \A q \in Requests : [task[q] EXCEPT !.alone = @ \ {id}] \in TaskType
  BY <1>1 DEF TaskType
<1>3. task' \in [Requests -> TaskType] /\ task'[r] = t
  BY <1>2 DEF Dropping
<1>4. \A q \in Requests : q # r => Forgets(q, task[q].alone \ {id})
  BY DEF Dropping, Forgets
<1> QED
  BY <1>3, <1>4 DEF Then

LEMMA FilesGo ==
    ASSUME CoreInv, NEW id \in Nat, DeleteSyncFilesForConfig(id)
    PROVE  /\ file' \in [Flows \X Versions -> Requests \cup {NoFile}]
           /\ \A f \in Flows \ {id} : \A v \in Versions : file'[f, v] = file[f, v]
           /\ muddle' \in [Flows -> SUBSET Reasons]
           /\ \A f \in Flows \ {id} : muddle'[f] = muddle[f]
           /\ id \in Flows => /\ muddle[id] \subseteq muddle'[id]
                              /\ "dropped" \in muddle'[id]
<1>1. file \in [Flows \X Versions -> Requests \cup {NoFile}] /\ "dropped" \in Reasons
  BY DEF CoreInv, TypeOK, Reasons
<1>2. DOMAIN file = Flows \X Versions
  BY <1>1
<1>3. file' \in [Flows \X Versions -> Requests \cup {NoFile}]
  BY <1>1, <1>2 DEF DeleteSyncFilesForConfig
<1>4. ASSUME NEW f \in Flows \ {id}, NEW v \in Versions
      PROVE  file'[f, v] = file[f, v]
  <2>1. <<f, v>> \in DOMAIN file /\ <<f, v>>[1] = f /\ f # id
    BY <1>2
  <2> QED
    BY <2>1 DEF DeleteSyncFilesForConfig
<1>5. muddle' = Mark({id} \cap Flows, "dropped")
  BY DEF DeleteSyncFilesForConfig
<1>6. /\ muddle' \in [Flows -> SUBSET Reasons]
      /\ \A f \in Flows : /\ muddle[f] \subseteq muddle'[f]
                          /\ f \in {id} \cap Flows => "dropped" \in muddle'[f]
                          /\ f \notin {id} \cap Flows => muddle'[f] = muddle[f]
  BY <1>1, <1>5, Marked
<1> QED
  BY <1>3, <1>4, <1>6

LEMMA DropFilesDoes ==
    ASSUME CoreInv, NEW r \in Requests, NEW x \in Rows, DropFiles(r, x)
    PROVE  /\ At(r, "files") /\ x \in task[r].targets /\ DeleteSyncFilesForConfig(x)
           /\ \A q \in Requests : q # r => Forgets(q, task[q].alone \ {x})
           /\ Then(r, "row", task[r].todo, task[r].flow, task[r].insert, {x},
                   task[r].targets, task[r].alone)
           /\ UNCHANGED <<row, source, configs, begun, mishaps>>
<1> DEFINE t == [task[r] EXCEPT !.pc = "row", !.old = {x}]
<1>1. task[r] \in TaskType
  BY DEF CoreInv, Shapes
<1>2. t \in TaskType
  BY <1>1 DEF TaskType, Locations
<1>3. /\ t.kind = task[r].kind /\ t.flows = task[r].flows /\ t.given = task[r].given
      /\ t.single = task[r].single /\ t.shown = task[r].shown
      /\ t.pc = "row" /\ t.todo = task[r].todo /\ t.flow = task[r].flow
      /\ t.insert = task[r].insert /\ t.old = {x} /\ t.targets = task[r].targets
      /\ t.alone = task[r].alone
  BY <1>1 DEF TaskType
<1>4. /\ At(r, "files") /\ x \in task[r].targets /\ DeleteSyncFilesForConfig(x)
      /\ Dropping(r, x, t) /\ UNCHANGED <<row, source, configs, begun, mishaps>>
  BY DEF DropFiles, Rest
<1> HIDE DEF t
<1>5. /\ \A q \in Requests : q # r => Forgets(q, task[q].alone \ {x})
      /\ Then(r, t.pc, t.todo, t.flow, t.insert, t.old, t.targets, t.alone)
  BY <1>2, <1>3, <1>4, DroppingDoes
<1> QED
  BY <1>3, <1>4, <1>5

LEMMA DropConfigFilesDoes ==
    ASSUME CoreInv, NEW r \in Requests, DropConfigFiles(r)
    PROVE  /\ At(r, "configFiles") /\ DeleteSyncFilesForConfig(task[r].flow)
           /\ \A q \in Requests : q # r => Forgets(q, task[q].alone \ {task[r].flow})
           /\ Then(r, "configRows", task[r].todo, task[r].flow, task[r].insert, task[r].old,
                   task[r].targets, task[r].alone)
           /\ UNCHANGED <<row, source, configs, begun, mishaps>>
<1> DEFINE t == [task[r] EXCEPT !.pc = "configRows"]
<1>1. task[r] \in TaskType
  BY DEF CoreInv, Shapes
<1>2. t \in TaskType
  BY <1>1 DEF TaskType, Locations
<1>3. /\ t.kind = task[r].kind /\ t.flows = task[r].flows /\ t.given = task[r].given
      /\ t.single = task[r].single /\ t.shown = task[r].shown
      /\ t.pc = "configRows" /\ t.todo = task[r].todo /\ t.flow = task[r].flow
      /\ t.insert = task[r].insert /\ t.old = task[r].old /\ t.targets = task[r].targets
      /\ t.alone = task[r].alone
  BY <1>1 DEF TaskType
<1>4. /\ At(r, "configFiles") /\ DeleteSyncFilesForConfig(task[r].flow)
      /\ Dropping(r, task[r].flow, t) /\ UNCHANGED <<row, source, configs, begun, mishaps>>
  BY DEF DropConfigFiles, Rest
<1> HIDE DEF t
<1>5. /\ \A q \in Requests : q # r => Forgets(q, task[q].alone \ {task[r].flow})
      /\ Then(r, t.pc, t.todo, t.flow, t.insert, t.old, t.targets, t.alone)
  BY <1>2, <1>3, <1>4, DroppingDoes
<1> QED
  BY <1>3, <1>4, <1>5

(***************************************************************************)
(* The steps that end a request, and those that change nothing but locals. *)
(***************************************************************************)

\* What was uploaded as source and is in no row is ahead.
Leaves(r) ==
    \/ Declined(r) \/ Fails(r) \/ (\E f \in Flows : UnknownConfig(r, f))

LEMMA LeavesDoes ==
    ASSUME CoreInv, NEW r \in Requests, Leaves(r)
    PROVE  /\ Over(r) /\ Only(r) /\ task[r].pc # "idle"
           /\ muddle' \in [Flows -> SUBSET Reasons]
           /\ \A f \in Flows :
                 /\ muddle[f] \subseteq muddle'[f]
                 /\ At(r, "deactivate") /\ f \in task[r].flows => "partial" \in muddle'[f]
                 /\ ~At(r, "deactivate") /\ f \in Ahead(r) => "ahead" \in muddle'[f]
           /\ UNCHANGED <<row, file, source, configs, begun>>
<1>1. "partial" \in Reasons /\ "ahead" \in Reasons /\ muddle \in [Flows -> SUBSET Reasons]
  BY DEF Reasons, CoreInv, TypeOK
<1>a. task[r] # Idle => task[r].pc # "idle"
  BY DEF CoreInv, AllFit, RequestFits
<1>2. CASE Declined(r)
  <2>1. End(r) /\ At(r, "confirm") /\ UNCHANGED <<row, file, source, configs, begun, mishaps, muddle>>
    BY <1>2 DEF Declined
  <2>2. Ahead(r) = {}
    BY <2>1 DEF Ahead, At
  <2> QED
    BY <1>1, <2>1, <2>2, Ending DEF At, CoreInv
<1>3. CASE Fails(r)
  <2>1. /\ End(r) /\ task[r] # Idle /\ UNCHANGED <<row, file, source, configs, begun>>
        /\ muddle' = IF At(r, "deactivate") THEN Mark(task[r].flows, "partial")
                     ELSE Mark(Ahead(r), "ahead")
    BY <1>3 DEF Fails, Rest
  <2>2. CASE At(r, "deactivate")
    BY <1>1, <1>a, <2>1, <2>2, Ending, Marked DEF CoreInv
  <2>3. CASE ~At(r, "deactivate")
    BY <1>1, <1>a, <2>1, <2>3, Ending, Marked DEF CoreInv
  <2> QED
    BY <2>2, <2>3
<1>4. ASSUME NEW f \in Flows, UnknownConfig(r, f)
      PROVE  /\ End(r) /\ At(r, "flow") /\ UNCHANGED <<row, file, source, configs, begun>>
             /\ muddle' = Mark(Ahead(r), "ahead")
  BY <1>4 DEF UnknownConfig, Rest
<1>5. CASE \E f \in Flows : UnknownConfig(r, f)
  BY <1>1, <1>4, <1>5, Ending, Marked DEF At, CoreInv
<1> QED
  BY <1>2, <1>3, <1>5 DEF Leaves

LEMMA UploadLastSourceDoes ==
    ASSUME CoreInv, NEW r \in Requests, UploadLastSource(r)
    PROVE  /\ Over(r) /\ Only(r) /\ At(r, "lastSource")
           /\ source' = [source EXCEPT ![task[r].flow] = r]
           /\ muddle' \in [Flows -> SUBSET Reasons]
           /\ \A f \in Flows :
                 /\ muddle[f] \subseteq muddle'[f]
                 /\ f \in Ahead(r) \cup {task[r].flow} => "ahead" \in muddle'[f]
           /\ UNCHANGED <<row, file, configs, begun, mishaps>>
<1>1. /\ End(r) /\ At(r, "lastSource") /\ source' = [source EXCEPT ![task[r].flow] = r]
      /\ muddle' = Mark((task[r].flows \ task[r].todo) \cup {task[r].flow}, "ahead")
      /\ UNCHANGED <<row, file, configs, begun, mishaps>>
  BY DEF UploadLastSource, PutSource, Rest
<1>2. Ahead(r) = task[r].flows \ task[r].todo /\ "ahead" \in Reasons
  BY <1>1 DEF Ahead, At, Reasons
<1> QED
  BY <1>1, <1>2, Ending, Marked DEF CoreInv

LEMMA DropConfigDoes ==
    ASSUME CoreInv, NEW r \in Requests, DropConfig(r)
    PROVE  /\ Over(r) /\ Only(r) /\ At(r, "config")
           /\ configs' = configs \ {task[r].flow}
           /\ UNCHANGED <<row, file, source, begun, mishaps, muddle>>
BY Ending DEF DropConfig, NoFault, CoreInv

(***************************************************************************)
(* The insert.                                                             *)
(***************************************************************************)

NewRowOf(r, f) ==
    [flow |-> f, version |-> task[r].insert[f], code |-> r, state |-> "active",
     custom |-> task[r].kind = "deploy"]

\* The rows are numbered on, one for each flow.
LEMMA InsertRows ==
    ASSUME CoreInv, NEW r \in Requests, Insert(r), NEW n \in 0..MaxRequests, RoomFor(n)
    PROVE  /\ \A x \in Used : row'[x] = row[x]
           /\ \A f \in task[r].flows : \E y \in Rows \ Used :
                 /\ row'[y] = NewRowOf(r, f) /\ \A x \in Used : x < y
                 /\ \A z \in Rows \ Used : row'[z].flow = f => z = y
           /\ \A z \in Rows \ Used : row'[z] = row[z] \/ \E f \in task[r].flows : row'[z] = NewRowOf(r, f)
           /\ \E k \in 0..(NumFlows * (n + 1)) : Used' = 1..k
           /\ n + 1 <= MaxRequests /\ row' \in [Rows -> RowType]
<1> DEFINE F == task[r].flows
<1> DEFINE s == Cardinality(F)
<1> DEFINE rank(f) == Cardinality({g \in F : g <= f})
<1>1. PICK k \in 0..NumFlows * n : Used = 1..k
  BY DEF RoomFor
<1>2. k \in Nat /\ k <= NumFlows * n /\ NumFlows \in Nat /\ MaxRequests \in Nat
  BY FlowsAssumption, RequestsAssumption
<1>3. task[r] \in TaskType /\ F \subseteq 1..NumFlows /\ r \in Waiting
  BY InsertDoes, FieldsOfTask DEF CoreInv, Shapes, Flows, At, Waiting, BeforeInsert, Loop
<1>4. /\ IsFiniteSet(F) /\ s \in 0..NumFlows
      /\ \A f \in F : rank(f) \in 1..s
      /\ \A f, h \in F : rank(f) = rank(h) => f = h
      /\ \A i \in 1..s : \E f \in F : rank(f) = i
  BY <1>2, <1>3, Ranks
<1>5. n + 1 <= begun /\ begun <= MaxRequests /\ begun \in Nat
  <2>1. Cardinality(Waiting) >= 1 /\ Cardinality(Waiting) \in Nat
    BY <1>3, WaitingIsFinite
  <2>2. n + Cardinality(Waiting) <= begun /\ begun \in 0..MaxRequests
    BY DEF RoomFor, CoreInv, TypeOK
  <2> QED
    BY <2>1, <2>2, <1>2
<1>6. k + s <= NumFlows * (n + 1) /\ k + s <= NumFlows * MaxRequests
  BY <1>2, <1>4, <1>5, RoomLeft
<1>7. Cardinality(Used) = k
  BY <1>1, <1>2, FS_Interval
<1>8. row' = [x \in Rows |-> IF \E f \in F : Cardinality(Used) + rank(f) = x
                             THEN NewRowOf(r, CHOOSE f \in F : Cardinality(Used) + rank(f) = x)
                             ELSE row[x]]
  BY DEF Insert, NewRowOf
<1> HIDE DEF F, s, rank
<1>9. ASSUME NEW x \in Rows
      PROVE  /\ \/ x \in 1..k /\ row'[x] = row[x]
                \/ x > k + s /\ row'[x] = row[x]
                \/ x \in (k + 1)..(k + s) /\ \E f \in F : k + rank(f) = x /\ row'[x] = NewRowOf(r, f)
  <2>1. x \in Nat /\ x >= 1
    BY DEF Rows
  <2>2. CASE \E f \in F : k + rank(f) = x
    <3>1. PICK f \in F : k + rank(f) = x /\ row'[x] = NewRowOf(r, f)
      BY <1>7, <1>8, <2>2
    <3>2. x \in (k + 1)..(k + s)
      BY <1>2, <1>4, <3>1
    <3> QED
      BY <3>1, <3>2
  <2>3. CASE ~\E f \in F : k + rank(f) = x
    <3>1. row'[x] = row[x]
      BY <1>7, <1>8, <2>3
    <3>2. ~(x - k \in 1..s)
      <4> SUFFICES ASSUME x - k \in 1..s PROVE FALSE
        OBVIOUS
      <4>1. PICK f \in F : rank(f) = x - k
        BY <1>4
      <4>2. k + rank(f) = x
        BY <1>2, <2>1, <4>1
      <4> QED
        BY <2>3, <4>2
    <3>3. x <= k \/ x > k + s
      BY <1>2, <1>4, <2>1, <3>2
    <3> QED
      BY <1>2, <2>1, <3>1, <3>3
  <2> QED
    BY <2>2, <2>3
<1>10. \A f \in F : k + rank(f) \in Rows /\ k + rank(f) > k
  BY <1>2, <1>4, <1>6 DEF Rows
<1>11. \A x \in Used : row'[x] = row[x]
  <2>1. \A x \in Used : x \in Rows /\ x \in 1..k
    BY <1>1 DEF Used
  <2> QED
    BY <1>2, <1>4, <1>9, <2>1
<1>12. \A z \in Rows \ Used : z > k
  BY <1>1, <1>2 DEF Rows
<1>13. \A z \in Rows \ Used : row[z].state = "none" /\ row[z].flow = NoFlow
  BY DEF CoreInv, TypeOK, Used
<1>14. \A f \in F : NewRowOf(r, f).flow = f /\ NewRowOf(r, f).state = "active" /\ f # NoFlow
  BY <1>3, ZeroIsNoFlow DEF NewRowOf, Flows
<1>15. ASSUME NEW f \in F
       PROVE  \E y \in Rows \ Used :
                 /\ row'[y] = NewRowOf(r, f) /\ \A x \in Used : x < y
                 /\ \A z \in Rows \ Used : row'[z].flow = f => z = y
  <2>1. k + rank(f) \in Rows /\ k + rank(f) \in Nat /\ k + rank(f) > k /\ k + rank(f) <= k + s
    BY <1>2, <1>4, <1>10
  <2>2. k + rank(f) \notin Used /\ \A x \in Used : x < k + rank(f)
    BY <1>1, <1>2, <2>1
  <2>3. PICK g \in F : k + rank(g) = k + rank(f) /\ row'[k + rank(f)] = NewRowOf(r, g)
    BY <1>2, <1>4, <1>9, <2>1
  <2>4. rank(g) = rank(f)
    BY <1>2, <1>4, <2>3
  <2>5. g = f
    BY <1>4, <2>4
  <2>6. ASSUME NEW z \in Rows \ Used, row'[z].flow = f PROVE z = k + rank(f)
    <3>1. row'[z] # row[z]
      BY <1>13, <1>14, <2>6
    <3>2. PICK h \in F : k + rank(h) = z /\ row'[z] = NewRowOf(r, h)
      BY <1>9, <3>1
    <3>3. h = f
      BY <1>14, <2>6, <3>2
    <3> QED
      BY <3>2, <3>3
  <2> QED
    BY <2>1, <2>2, <2>3, <2>5, <2>6
<1>16. \A z \in Rows \ Used : row'[z] = row[z] \/ \E f \in F : row'[z] = NewRowOf(r, f)
  BY <1>9
<1>17. row' \in [Rows -> RowType]
  <2>1. \A f \in F : NewRowOf(r, f) \in RowType
    <3>1. task[r].insert \in [Flows -> Versions \cup {NoVersion}]
      BY <1>3, FieldsOfTask
    <3> QED
      BY <1>3, <3>1 DEF NewRowOf, RowType, Flows
  <2>2. \A x \in Rows : row[x] \in RowType
    BY DEF CoreInv, TypeOK
  <2>3. \A x \in Rows : row'[x] \in RowType
    BY <2>1, <2>2, <1>9
  <2> QED
    BY <1>8, <2>3
<1>18. Used' = 1..(k + s)
  <2>1. Used' = {x \in Rows : row'[x].state # "none"}
    BY DEF Used
  <2>2. \A x \in Rows : row'[x].state # "none" => x <= k + s
    BY <1>2, <1>4, <1>9, <1>13, <1>1, <1>12 DEF Used
  <2>3. \A x \in 1..(k + s) : x \in Rows /\ x \in Nat
    BY <1>2, <1>4, <1>6 DEF Rows
  <2>4. \A x \in 1..(k + s) : row'[x].state # "none"
    <3> TAKE x \in 1..(k + s)
    <3>1. CASE x \in 1..k
      BY <1>1, <1>11, <3>1 DEF Used
    <3>2. CASE x \notin 1..k
      <4>1. x > k /\ x <= k + s /\ x \in Rows
        BY <1>2, <1>4, <2>3, <3>2
      <4>2. \E f \in F : row'[x] = NewRowOf(r, f)
        BY <1>2, <1>4, <1>9, <4>1
      <4> QED
        BY <1>14, <4>2
    <3> QED
      BY <3>1, <3>2
  <2>5. \A x \in Rows : x >= 1 /\ x \in Nat
    BY DEF Rows
  <2>6. Used' \subseteq 1..(k + s)
    BY <1>2, <1>4, <2>1, <2>2, <2>5
  <2>7. 1..(k + s) \subseteq Used'
    BY <2>1, <2>3, <2>4
  <2> QED
    BY <2>6, <2>7
<1>19. k + s \in 0..(NumFlows * (n + 1)) /\ n + 1 <= MaxRequests
  BY <1>2, <1>4, <1>5, <1>6
<1> QED
  BY <1>11, <1>15, <1>16, <1>17, <1>18, <1>19 DEF F

(***************************************************************************)
(* What a request touches.                                                 *)
(***************************************************************************)

\* The kinds of request that a place belongs to.
LEMMA KindsOfPlaces ==
    ASSUME CoreInv, NEW r \in Requests
    PROVE  /\ task[r].pc \in Deploys => task[r].kind \in {"deploy", "preBuilt"}
           /\ task[r].pc \in {"confirm", "reconcile", "lastSource"} => task[r].kind = "deploy"
           /\ task[r].pc \in {"files", "row"} => task[r].kind \in {"deploy", "deleteFlow"}
           /\ task[r].pc \in {"configFiles", "configRows", "config"} => task[r].kind = "deleteConfig"
           /\ task[r].pc = "idle" <=> task[r].kind = "none"
           /\ task[r].pc = "idle" <=> task[r] = Idle
<1>1. task[r].pc \in PlacesOf[task[r].kind] /\ task[r].kind \in Kinds
      /\ (task[r].pc = "idle" => task[r] = Idle)
  BY DEF CoreInv, AllFit, RequestFits, Shapes, TaskType
<1>2. task[r] = Idle => task[r].pc = "idle"
  BY IdleIsTask
<1> QED
  BY <1>1, <1>2 DEF PlacesOf, Kinds, Deploys, BeforeInsert, Loop

LEMMA TouchesOf ==
    ASSUME NEW t
    PROVE  /\ t.kind = "deploy" => Touches(t) = IF t.single THEN t.flows ELSE Flows
           /\ t.kind = "preBuilt" => Touches(t) = t.flows
           /\ t.kind = "deleteFlow" => Touches(t) = {row[x].flow : x \in t.targets}
           /\ t.kind = "deleteConfig" => Touches(t) = {t.flow}
BY DEF Touches

LEMMA UsedHasFlow ==
    ASSUME CoreInv, NEW x \in Used
    PROVE  x \in Rows /\ row[x].flow \in Flows
BY DEF CoreInv, TypeOK, Used, RowType

LEMMA TouchesWhat ==
    ASSUME CoreInv, NEW r \in Requests, task[r].pc # "idle"
    PROVE  /\ Touches(task[r]) \subseteq Flows /\ task[r].alone \subseteq Touches(task[r])
           /\ task[r].pc \in Deploys \cup {"confirm", "reconcile"} =>
                 task[r].flows \subseteq Touches(task[r])
           /\ task[r].pc \in {"files", "row"} =>
                 \A x \in task[r].targets : x \in Used /\ row[x].flow \in Touches(task[r])
           /\ task[r].pc = "row" => task[r].old \subseteq task[r].targets
           /\ task[r].pc \in {"configFiles", "configRows", "config"} =>
                 task[r].flow \in Flows /\ Touches(task[r]) = {task[r].flow}
           /\ r \in Running /\ r <= begun
<1>1. task[r] \in TaskType /\ RequestFits(r)
  BY DEF CoreInv, Shapes, AllFit
<1>2. task[r].alone \subseteq Touches(task[r]) /\ r <= begun /\ r \in Running
  BY <1>1, KindsOfPlaces DEF RequestFits, Running
<1>3. /\ task[r].pc \in {"files", "row"} => /\ \A x \in task[r].targets : x \in Used
                                            /\ task[r].kind = "deploy" => ~task[r].single
      /\ task[r].pc = "row" => task[r].old \subseteq task[r].targets
      /\ task[r].kind = "deleteConfig" => task[r].flow \in Flows
  BY <1>1 DEF RequestFits
<1>4. task[r].flows \subseteq Flows /\ task[r].kind \in Kinds \ {"none"}
  BY <1>1, FieldsOfTask, KindsOfPlaces
<1>5. CASE task[r].kind = "deploy"
  <2>1. Touches(task[r]) = IF task[r].single THEN task[r].flows ELSE Flows
    BY <1>5, TouchesOf
  <2>2. task[r].pc \notin {"configFiles", "configRows", "config"}
    BY <1>5, KindsOfPlaces
  <2> QED
    BY <1>2, <1>3, <1>4, <1>5, <2>1, <2>2, UsedHasFlow
<1>6. CASE task[r].kind = "preBuilt"
  <2>1. Touches(task[r]) = task[r].flows
    BY <1>6, TouchesOf
  <2>2. task[r].pc \notin {"configFiles", "configRows", "config", "files", "row"}
    BY <1>6, KindsOfPlaces
  <2> QED
    BY <1>2, <1>3, <1>4, <2>1, <2>2
<1>7. CASE task[r].kind = "deleteFlow"
  <2>1. Touches(task[r]) = {row[x].flow : x \in task[r].targets}
    BY <1>7, TouchesOf
  <2>2. task[r].pc \in {"files", "row"}
    BY <1>1, <1>7 DEF RequestFits, PlacesOf
  <2>3. \A x \in task[r].targets : row[x].flow \in Flows
    BY <1>3, <2>2, UsedHasFlow
  <2>4. Touches(task[r]) \subseteq Flows
    BY <2>1, <2>3
  <2> QED
    BY <1>2, <1>3, <2>1, <2>2, <2>4 DEF Deploys, Loop
<1>8. CASE task[r].kind = "deleteConfig"
  <2>1. Touches(task[r]) = {task[r].flow}
    BY <1>8, TouchesOf
  <2>2. task[r].pc \in {"configFiles", "configRows", "config"}
    BY <1>1, <1>8 DEF RequestFits, PlacesOf
  <2> QED
    BY <1>2, <1>3, <1>8, <2>1, <2>2 DEF Deploys, Loop
<1> QED
  BY <1>4, <1>5, <1>6, <1>7, <1>8 DEF Kinds

\* A flow that nothing marks as overlapped, or that a request is alone on, is touched
\* by one request only.
LEMMA TouchedByOne ==
    ASSUME CoreInv, NEW r \in Requests, NEW q \in Requests, r # q,
           task[r].pc # "idle", task[q].pc # "idle",
           NEW f \in Touches(task[r]) \cap Touches(task[q])
    PROVE  "overlap" \in muddle[f] /\ f \notin task[r].alone /\ f \notin task[q].alone
<1>1. r \in Running /\ q \in Running
  BY TouchesWhat
<1> QED
  BY <1>1 DEF CoreInv, Apart

(***************************************************************************)
(* What a step changes, and what it leaves alone.                          *)
(***************************************************************************)

Others(r) ==
    \A q \in Requests : q # r =>
       task'[q] = task[q] \/ \E s \in SUBSET task[q].alone : Forgets(q, s)

Own(r) ==
    \/ Over(r)
    \/ LET s == task[r]
           t == task'[r]
       IN  /\ task' \in [Requests -> TaskType]
           /\ t.kind = s.kind /\ t.flows = s.flows /\ t.given = s.given /\ t.single = s.single
           /\ t.shown = s.shown /\ t.alone \subseteq s.alone /\ t.pc # "idle"
           /\ t.kind = "deleteConfig" => t.flow = s.flow
           /\ t.kind = "deleteFlow" => t.targets = s.targets

Marks(r) ==
    \A f \in Flows :
       \/ muddle[f] \subseteq muddle'[f]
       \/ At(r, "deactivate") /\ f \in task[r].flows \cap task[r].alone

Elsewhere(r) ==
    \A f \in Flows \ Touches(task[r]) :
       /\ source'[f] = source[f] /\ (f \in configs' <=> f \in configs)
       /\ \/ \A v \in Versions : file'[f, v] = file[f, v]
          \/ "dropped" \in muddle'[f] /\ \A q \in Requests : q # r => f \notin task'[q].alone

\* A row is written once, and retired; only its state changes then.
Retired(x) ==
    row'[x] \in {[row[x] EXCEPT !.state = "inactive"], [row[x] EXCEPT !.state = "deleted"]}

RowStep(r, x) ==
    \/ row'[x] = row[x]
    \/ x \in Used /\ row[x].flow \in Touches(task[r]) /\ Retired(x)
    \/ x \notin Used /\ At(r, "insert") /\ \E f \in task[r].flows : row'[x] = NewRowOf(r, f)

Types == 
    /\ row' \in [Rows -> RowType] /\ file' \in [Flows \X Versions -> Requests \cup {NoFile}]
    /\ source' \in [Flows -> Requests \cup {NoFile}] /\ configs' \subseteq Flows
    /\ begun' = begun /\ muddle' \in [Flows -> SUBSET Reasons]

Frame(r) ==
    /\ task[r].pc # "idle" /\ Others(r) /\ Own(r) /\ Marks(r) /\ Elsewhere(r)
    /\ \A x \in Rows : RowStep(r, x)
    /\ Types

LEMMA OwnThen ==
    ASSUME NEW r \in Requests, NEW pc, NEW todo, NEW flow, NEW insert, NEW old, NEW targets, NEW alone,
           Then(r, pc, todo, flow, insert, old, targets, alone), alone \subseteq task[r].alone,
           pc # "idle", flow = task[r].flow \/ task[r].kind # "deleteConfig",
           targets = task[r].targets \/ task[r].kind # "deleteFlow"
    PROVE  Own(r)
BY DEF Then, Own

LEMMA OnlyOthers == ASSUME NEW r \in Requests, Only(r) PROVE Others(r)
BY DEF Only, Others

\* A step that changes locals, and no more than marks.
LEMMA FrameQuiet ==
    ASSUME CoreInv, NEW r \in Requests, task[r].pc # "idle", Only(r), Own(r),
           UNCHANGED <<row, file, source, configs, begun>>,
           muddle' \in [Flows -> SUBSET Reasons], \A f \in Flows : muddle[f] \subseteq muddle'[f]
    PROVE  Frame(r)
<1>1. Types
  BY DEF Types, CoreInv, TypeOK, Shapes
<1>2. Marks(r) /\ Elsewhere(r) /\ \A x \in Rows : RowStep(r, x)
  BY DEF Marks, Elsewhere, RowStep
<1> QED
  BY <1>1, <1>2, OnlyOthers DEF Frame

\* Every statement and call of a request is of this form.
LEMMA StepFrame == ASSUME CoreInv, NEW r \in Requests, Step(r) PROVE Frame(r)
<1> USE DEF At
<1>a. task[r] \in TaskType /\ muddle \in [Flows -> SUBSET Reasons]
      /\ file \in [Flows \X Versions -> Requests \cup {NoFile}]
      /\ source \in [Flows -> Requests \cup {NoFile}] /\ configs \subseteq Flows
      /\ row \in [Rows -> RowType]
  BY DEF CoreInv, Shapes, TypeOK
<1>b. {"overlap", "partial", "unread", "versionUnread", "behind"} \subseteq Reasons
  BY DEF Reasons
<1>c. task[r].pc \in PlacesOf[task[r].kind] /\ task[r].kind \in Kinds
  BY <1>a DEF CoreInv, AllFit, RequestFits, TaskType
<1>d. task[r].kind = "deleteConfig" <=> task[r].pc \in {"configFiles", "configRows", "config"}
  BY <1>c DEF PlacesOf, Kinds, BeforeInsert, Loop
<1>e. task[r].kind = "deleteFlow" => task[r].pc \in {"files", "row"}
  BY <1>c DEF PlacesOf
<1>1. CASE Confirmed(r)
  <2>1. task[r].pc # "idle" /\ Only(r) /\ UNCHANGED <<row, file, source, configs, begun>>
    BY <1>1, ConfirmedDoes
  <2>2. Own(r)
    BY <1>1, ConfirmedDoes, OwnThen, <1>d, <1>e
  <2>3. muddle' = muddle
    BY <1>1, ConfirmedDoes
  <2> QED
    BY <1>a, <2>1, <2>2, <2>3, FrameQuiet
<1>2. CASE Leaves(r)
  <2>1. Own(r)
    BY <1>2, LeavesDoes DEF Own
  <2> QED
    BY <1>2, <2>1, LeavesDoes, FrameQuiet
<1>3. CASE \E f \in Flows : ReadPrevious(r, f)
  <2> PICK f \in Flows : ReadPrevious(r, f)
    BY <1>3
  <2>1. task[r].pc # "idle" /\ Only(r) /\ UNCHANGED <<row, file, source, configs, begun>>
    BY <1>3, ReadPreviousDoes
  <2>2. Own(r)
    BY <1>3, ReadPreviousDoes, OwnThen, <1>d, <1>e
  <2>3. muddle' = muddle
    BY <1>3, ReadPreviousDoes
  <2> QED
    BY <1>a, <2>1, <2>2, <2>3, FrameQuiet
<1>4. CASE \E f \in Flows : PreviousUnread(r, f)
  <2> PICK f \in Flows : PreviousUnread(r, f)
    BY <1>4
  <2> PICK v \in Versions :
             /\ v[2] = 1 /\ Only(r)
             /\ Then(r, "upload", task[r].todo, f, [task[r].insert EXCEPT ![f] = v],
                     task[r].old, task[r].targets, task[r].alone)
             /\ At(r, "flow") /\ f \in task[r].todo /\ f \in configs
             /\ muddle' = Mark({f}, "versionUnread")
             /\ UNCHANGED <<row, file, source, configs, begun>>
    BY PreviousUnreadDoes
  <2>1. task[r].pc # "idle"
    OBVIOUS
  <2>2. Own(r)
    BY OwnThen, <1>d, <1>e
  <2>3. muddle' \in [Flows -> SUBSET Reasons] /\ \A g \in Flows : muddle[g] \subseteq muddle'[g]
    BY <1>b, Marked
  <2> QED
    BY <2>1, <2>2, <2>3, FrameQuiet
<1>5. CASE UploadFails(r)
  <2>1. task[r].pc # "idle" /\ Only(r) /\ UNCHANGED <<row, file, source, configs, begun>>
    BY <1>5, UploadFailsDoes
  <2>2. Own(r)
    BY <1>5, UploadFailsDoes, OwnThen, <1>d, <1>e
  <2>3. muddle' = muddle
    BY <1>5, UploadFailsDoes
  <2> QED
    BY <1>a, <2>1, <2>2, <2>3, FrameQuiet
<1>6. CASE SourceUploadFails(r)
  <2>1. task[r].pc # "idle" /\ Only(r) /\ UNCHANGED <<row, file, source, configs, begun>>
    BY <1>6, SourceUploadFailsDoes
  <2>2. Own(r)
    BY ZenonT(60), <1>6, SourceUploadFailsDoes, OwnThen, <1>d, <1>e
  <2>3. muddle' = Mark({task[r].flow}, "behind")
    BY <1>6, SourceUploadFailsDoes
  <2>4. muddle' \in [Flows -> SUBSET Reasons] /\ \A f \in Flows : muddle[f] \subseteq muddle'[f]
    BY <1>b, <2>3, Marked
  <2> QED
    BY <2>1, <2>2, <2>4, FrameQuiet
<1>7. CASE ReadOld(r)
  <2>1. task[r].pc # "idle" /\ Only(r) /\ UNCHANGED <<row, file, source, configs, begun>>
    BY <1>7, ReadOldDoes
  <2>2. Own(r)
    BY <1>7, ReadOldDoes, OwnThen, <1>d, <1>e
  <2>3. muddle' = muddle
    BY <1>7, ReadOldDoes
  <2> QED
    BY <1>a, <2>1, <2>2, <2>3, FrameQuiet
<1>8. CASE OldUnread(r)
  <2>1. task[r].pc # "idle" /\ Only(r) /\ UNCHANGED <<row, file, source, configs, begun>>
    BY <1>8, OldUnreadDoes
  <2>2. Own(r)
    <3>1. task[r].alone \ {task[r].flow} \subseteq task[r].alone /\ task[r].kind # "deleteConfig"
      BY <1>8, OldUnreadDoes, <1>d
    <3>2. /\ Then(r, IF task[r].todo \ {task[r].flow} = {} THEN "insert" ELSE "flow",
                   task[r].todo \ {task[r].flow}, NoFlow, task[r].insert,
                   task[r].old, task[r].targets, task[r].alone \ {task[r].flow})
          /\ (IF task[r].todo \ {task[r].flow} = {} THEN "insert" ELSE "flow") # "idle"
      BY <1>8, OldUnreadDoes
    <3> QED
      BY <3>1, <3>2, OwnThen
  <2>3. muddle' = Mark({task[r].flow}, "unread")
    BY <1>8, OldUnreadDoes
  <2>4. muddle' \in [Flows -> SUBSET Reasons] /\ \A f \in Flows : muddle[f] \subseteq muddle'[f]
    BY <1>b, <2>3, Marked
  <2> QED
    BY <2>1, <2>2, <2>4, FrameQuiet
<1>9. CASE \E x \in Rows : FilesKept(r, x)
  <2> PICK x \in Rows : FilesKept(r, x)
    BY <1>9
  <2>1. task[r].pc # "idle" /\ Only(r) /\ UNCHANGED <<row, file, source, configs, begun>>
    BY <1>9, FilesKeptDoes
  <2>2. Own(r)
    BY <1>9, FilesKeptDoes, OwnThen, <1>d, <1>e
  <2>3. muddle' = muddle
    BY <1>9, FilesKeptDoes
  <2> QED
    BY <1>a, <2>1, <2>2, <2>3, FrameQuiet
<1>10. CASE ConfigFilesKept(r)
  <2>1. task[r].pc # "idle" /\ Only(r) /\ UNCHANGED <<row, file, source, configs, begun>>
    BY <1>10, ConfigFilesKeptDoes
  <2>2. Own(r)
    BY <1>10, ConfigFilesKeptDoes, OwnThen, <1>d, <1>e
  <2>3. muddle' = muddle
    BY <1>10, ConfigFilesKeptDoes
  <2> QED
    BY <1>a, <2>1, <2>2, <2>3, FrameQuiet
<1>11. CASE ReconcileDifferences(r)
  <2>1. task[r].pc # "idle" /\ Only(r) /\ UNCHANGED <<row, file, source, configs, begun, muddle>>
    BY <1>11, ReconcileDoes
  <2>2. Own(r)
    <3>1. CASE Over(r)
      BY <3>1 DEF Own
    <3>2. CASE ~Over(r)
      <4>1. Then(r, "files", task[r].todo, task[r].flow, task[r].insert, task[r].old,
                 Missing(task[r].flows, task[r].single), task[r].alone)
            /\ (At(r, "reconcile") \/ At(r, "flow"))
        BY <1>11, <3>2, ReconcileDoes
      <4>2. task[r].kind # "deleteFlow"
        BY <1>e, <4>1
      <4> QED
        BY <4>1, <4>2, OwnThen
    <3> QED
      BY <3>1, <3>2
  <2> QED
    BY <1>a, <2>1, <2>2, FrameQuiet
<1>12. CASE Upload(r)
  <2>0. task[r].pc # "idle"
    BY <1>12, UploadDoes
  <2>1. RequestFits(r) /\ task[r].pc = "upload"
    BY <1>12, UploadDoes DEF CoreInv, AllFit
  <2>2. task[r].flow \in task[r].todo /\ task[r].todo \subseteq task[r].flows /\ task[r].flow \in Chosen(r)
    BY <2>1 DEF RequestFits, Chosen, Deploys, Loop
  <2>3. task[r].flow \in Touches(task[r]) /\ task[r].flow \in Flows
    BY <2>0, <2>1, <2>2, TouchesWhat DEF Deploys, Loop
  <2>4. task[r].insert[task[r].flow] \in Versions
    BY <2>1, <2>2 DEF RequestFits
  <2>5. /\ file' = [file EXCEPT ![<<task[r].flow, task[r].insert[task[r].flow]>>] = r]
        /\ Only(r) /\ UNCHANGED <<row, source, configs, begun, mishaps, muddle>>
    BY <1>12, UploadDoes
  <2>6. Types
    BY <1>a, <2>5 DEF Types
  <2>7. Elsewhere(r)
    <3>1. ASSUME NEW f \in Flows \ Touches(task[r]), NEW v \in Versions PROVE file'[f, v] = file[f, v]
      <4>1. <<f, v>> # <<task[r].flow, task[r].insert[task[r].flow]>> /\ <<f, v>> \in DOMAIN file
        BY <1>a, <2>3
      <4> QED
        BY <2>5, <4>1
    <3> QED
      BY <2>5, <3>1 DEF Elsewhere
  <2>8. Own(r)
    BY <1>12, UploadDoes, OwnThen, <1>d, <1>e
  <2>9. Marks(r) /\ \A x \in Rows : RowStep(r, x)
    BY <2>5 DEF Marks, RowStep
  <2> QED
    BY <2>0, <2>5, <2>6, <2>7, <2>8, <2>9, OnlyOthers DEF Frame
<1>13. CASE UploadSource(r)
  <2>0. task[r].pc # "idle"
    BY <1>13, UploadSourceDoes
  <2>1. RequestFits(r) /\ task[r].pc = "source"
    BY <1>13, UploadSourceDoes DEF CoreInv, AllFit
  <2>2. task[r].flow \in task[r].todo /\ task[r].todo \subseteq task[r].flows
    BY <2>1 DEF RequestFits
  <2>3. task[r].flow \in Touches(task[r]) /\ task[r].flow \in Flows
    BY <2>0, <2>1, <2>2, TouchesWhat DEF Deploys, Loop
  <2>4. /\ source' = [source EXCEPT ![task[r].flow] = r] /\ Only(r)
        /\ UNCHANGED <<row, file, configs, begun>>
    BY <1>13, UploadSourceDoes
  <2>5. muddle' \in [Flows -> SUBSET Reasons] /\ \A f \in Flows : muddle[f] \subseteq muddle'[f]
    BY <1>13, <1>a, UploadSourceDoes
  <2>6. Types
    BY <1>a, <2>4, <2>5 DEF Types
  <2>7. Elsewhere(r) /\ Marks(r) /\ \A x \in Rows : RowStep(r, x)
    BY <1>a, <2>3, <2>4, <2>5 DEF Elsewhere, Marks, RowStep
  <2>8. Own(r)
    BY <1>13, UploadSourceDoes, OwnThen, <1>d, <1>e
  <2> QED
    BY <2>0, <2>4, <2>6, <2>7, <2>8, OnlyOthers DEF Frame
<1>14. CASE UploadLastSource(r)
  <2>0. task[r].pc # "idle"
    BY <1>14, UploadLastSourceDoes
  <2>1. RequestFits(r) /\ task[r].pc = "lastSource"
    BY <1>14, UploadLastSourceDoes DEF CoreInv, AllFit
  <2>2. task[r].flow \in task[r].todo /\ task[r].todo \subseteq task[r].flows
    BY <2>1 DEF RequestFits
  <2>3. task[r].flow \in Touches(task[r]) /\ task[r].flow \in Flows
    BY <2>0, <2>1, <2>2, TouchesWhat DEF Deploys, Loop
  <2>4. /\ source' = [source EXCEPT ![task[r].flow] = r] /\ Only(r)
        /\ UNCHANGED <<row, file, configs, begun>>
    BY <1>14, UploadLastSourceDoes
  <2>5. muddle' \in [Flows -> SUBSET Reasons] /\ \A f \in Flows : muddle[f] \subseteq muddle'[f]
    BY <1>14, <1>a, UploadLastSourceDoes
  <2>6. Types
    BY <1>a, <2>4, <2>5 DEF Types
  <2>7. Elsewhere(r) /\ Marks(r) /\ \A x \in Rows : RowStep(r, x)
    BY <1>a, <2>3, <2>4, <2>5 DEF Elsewhere, Marks, RowStep
  <2>8. Own(r)
    BY <1>14, UploadLastSourceDoes, <2>0 DEF Own
  <2> QED
    BY <2>0, <2>4, <2>6, <2>7, <2>8, OnlyOthers DEF Frame
<1>15. CASE Insert(r)
  <2>0. task[r].pc # "idle"
    BY <1>15, InsertDoes
  <2>1. PICK n \in 0..MaxRequests : RoomFor(n)
    BY DEF CoreInv, Room
  <2>2. /\ At(r, "insert") /\ Only(r)
        /\ UNCHANGED <<file, source, configs, begun, mishaps, muddle>>
    BY <1>15, InsertDoes
  <2>3. Types
    BY <1>15, <1>a, <2>1, <2>2, InsertRows DEF Types
  <2>4. Elsewhere(r) /\ Marks(r)
    BY <2>2 DEF Elsewhere, Marks
  <2>5. \A x \in Used : row'[x] = row[x]
    BY <1>15, <2>1, InsertRows
  <2>6. \A x \in Rows \ Used : row'[x] = row[x] \/ \E f \in task[r].flows : row'[x] = NewRowOf(r, f)
    BY <1>15, <2>1, InsertRows
  <2>7. \A x \in Rows : RowStep(r, x)
    BY <2>2, <2>5, <2>6 DEF RowStep
  <2>8. Own(r)
    BY <1>15, InsertDoes, OwnThen, <1>d, <1>e
  <2> QED
    BY <2>0, <2>2, <2>3, <2>4, <2>7, <2>8, OnlyOthers DEF Frame
<1>16. CASE Deactivate(r)
  <2>0. task[r].pc # "idle"
    BY <1>16, DeactivateDoes
  <2>1. RequestFits(r) /\ task[r].pc = "deactivate"
    BY <1>16, DeactivateDoes DEF CoreInv, AllFit
  <2>2. \A x \in task[r].old : row[x].flow \in task[r].flows
    BY <2>1 DEF RequestFits, Deploys
  <2>3. task[r].flows \subseteq Touches(task[r])
    BY <2>0, <2>1, TouchesWhat DEF Deploys
  <2>4. /\ row' = [x \in Rows |-> IF x \in task[r].old /\ row[x].state = "active"
                                  THEN [row[x] EXCEPT !.state = "inactive"] ELSE row[x]]
        /\ muddle' = [f \in Flows |-> IF f \in task[r].flows \cap task[r].alone THEN {}
                                      ELSE muddle[f]]
        /\ UNCHANGED <<file, source, configs, begun, mishaps>> /\ Only(r)
    BY <1>16, DeactivateDoes
  <2>5. row' \in [Rows -> RowType]
    <3>1. \A x \in Rows : row[x] \in RowType /\ [row[x] EXCEPT !.state = "inactive"] \in RowType
      BY <1>a DEF RowType
    <3> QED
      BY <2>4, <3>1
  <2>6. muddle' \in [Flows -> SUBSET Reasons]
    BY <1>a, <2>4
  <2>7. Types
    BY <1>a, <2>4, <2>5, <2>6 DEF Types
  <2>8. Marks(r) /\ Elsewhere(r)
    BY <1>a, <2>1, <2>4 DEF Marks, Elsewhere
  <2>9. \A x \in Rows : RowStep(r, x)
    BY <2>2, <2>3, <2>4 DEF RowStep, Retired, Used
  <2>10. Own(r)
    <3>1. CASE Over(r)
      BY <3>1 DEF Own
    <3>2. CASE ~Over(r)
      BY <1>16, <3>2, DeactivateDoes, OwnThen, <1>d, <1>e
    <3> QED
      BY <3>1, <3>2
  <2> QED
    BY <2>0, <2>4, <2>7, <2>8, <2>9, <2>10, OnlyOthers DEF Frame
<1>17. CASE \E x \in Rows : DropFiles(r, x)
  <2> PICK x \in Rows : DropFiles(r, x)
    BY <1>17
  <2>0. task[r].pc # "idle"
    BY <1>17, DropFilesDoes
  <2>1. DeleteSyncFilesForConfig(x) /\ UNCHANGED <<row, source, configs, begun, mishaps>>
        /\ \A q \in Requests : q # r => Forgets(q, task[q].alone \ {x})
    BY <1>17, DropFilesDoes
  <2>2. x \in Nat
    BY DEF Rows
  <2>3. /\ file' \in [Flows \X Versions -> Requests \cup {NoFile}]
        /\ \A f \in Flows \ {x} : \A v \in Versions : file'[f, v] = file[f, v]
        /\ muddle' \in [Flows -> SUBSET Reasons]
        /\ \A f \in Flows \ {x} : muddle'[f] = muddle[f]
        /\ x \in Flows => /\ muddle[x] \subseteq muddle'[x]
                            /\ "dropped" \in muddle'[x]
    BY <2>1, <2>2, FilesGo
  <2>4. Types
    BY <1>a, <2>1, <2>3 DEF Types
  <2>5. Others(r)
    <3>1. \A q \in Requests : task[q].alone \ {x} \in SUBSET task[q].alone
      OBVIOUS
    <3> QED
      BY <2>1, <3>1 DEF Others
  <2>6. Marks(r) /\ \A y \in Rows : RowStep(r, y)
    BY <2>1, <2>3 DEF Marks, RowStep
  <2>7. \A q \in Requests : q # r => x \notin task'[q].alone
    <3> TAKE q \in Requests
    <3> HAVE q # r
    <3>1. task[q] \in TaskType /\ task'[q] = [task[q] EXCEPT !.alone = task[q].alone \ {x}]
      BY <2>1 DEF CoreInv, Shapes, Forgets
    <3>2. task'[q].alone = task[q].alone \ {x}
      BY <3>1 DEF TaskType
    <3> QED
      BY <3>2
  <2>8. Elsewhere(r)
    <3> SUFFICES ASSUME NEW f \in Flows
                 PROVE  \/ \A v \in Versions : file'[f, v] = file[f, v]
                        \/ "dropped" \in muddle'[f] /\ \A q \in Requests : q # r => f \notin task'[q].alone
      BY <2>1 DEF Elsewhere
    <3> QED
      BY <2>3, <2>7
  <2>9. Own(r)
    BY <1>17, DropFilesDoes, OwnThen
  <2> QED
    BY <2>0, <2>4, <2>5, <2>6, <2>8, <2>9 DEF Frame
<1>18. CASE DropConfigFiles(r)
  <2>0. task[r].pc # "idle"
    BY <1>18, DropConfigFilesDoes
  <2>1. DeleteSyncFilesForConfig(task[r].flow) /\ UNCHANGED <<row, source, configs, begun, mishaps>>
        /\ \A q \in Requests : q # r => Forgets(q, task[q].alone \ {task[r].flow})
    BY <1>18, DropConfigFilesDoes
  <2>2. task[r].flow \in Nat
    <3>1. task[r].flow \in Flows \cup {NoFlow}
      BY <1>a, FieldsOfTask
    <3>2. NoFlow \in Nat
      BY DEF NoFlow
    <3> QED
      BY <3>1, <3>2, ZeroIsNoFlow
  <2>3. /\ file' \in [Flows \X Versions -> Requests \cup {NoFile}]
        /\ \A f \in Flows \ {task[r].flow} : \A v \in Versions : file'[f, v] = file[f, v]
        /\ muddle' \in [Flows -> SUBSET Reasons]
        /\ \A f \in Flows \ {task[r].flow} : muddle'[f] = muddle[f]
        /\ task[r].flow \in Flows => /\ muddle[task[r].flow] \subseteq muddle'[task[r].flow]
                            /\ "dropped" \in muddle'[task[r].flow]
    BY <2>1, <2>2, FilesGo
  <2>4. Types
    BY <1>a, <2>1, <2>3 DEF Types
  <2>5. Others(r)
    <3>1. \A q \in Requests : task[q].alone \ {task[r].flow} \in SUBSET task[q].alone
      OBVIOUS
    <3> QED
      BY <2>1, <3>1 DEF Others
  <2>6. Marks(r) /\ \A x \in Rows : RowStep(r, x)
    BY <2>1, <2>3 DEF Marks, RowStep
  <2>7. \A q \in Requests : q # r => task[r].flow \notin task'[q].alone
    <3> TAKE q \in Requests
    <3> HAVE q # r
    <3>1. task[q] \in TaskType /\ task'[q] = [task[q] EXCEPT !.alone = task[q].alone \ {task[r].flow}]
      BY <2>1 DEF CoreInv, Shapes, Forgets
    <3>2. task'[q].alone = task[q].alone \ {task[r].flow}
      BY <3>1 DEF TaskType
    <3> QED
      BY <3>2
  <2>8. Elsewhere(r)
    <3> SUFFICES ASSUME NEW f \in Flows
                 PROVE  \/ \A v \in Versions : file'[f, v] = file[f, v]
                        \/ "dropped" \in muddle'[f] /\ \A q \in Requests : q # r => f \notin task'[q].alone
      BY <2>1 DEF Elsewhere
    <3> QED
      BY <2>3, <2>7
  <2>9. Own(r)
    BY <1>18, DropConfigFilesDoes, OwnThen
  <2> QED
    BY <2>0, <2>4, <2>5, <2>6, <2>8, <2>9 DEF Frame
<1>19. CASE DropRow(r)
  <2>0. task[r].pc # "idle"
    BY <1>19, DropRowDoes
  <2>1. /\ row' = [x \in Rows |-> IF x \in task[r].old
                                  THEN [row[x] EXCEPT !.state = "deleted"] ELSE row[x]]
        /\ UNCHANGED <<file, source, configs, begun, mishaps, muddle>> /\ Only(r)
    BY <1>19, DropRowDoes
  <2>2. \A x \in Rows : x \in task[r].old => x \in Used /\ row[x].flow \in Touches(task[r])
    BY <1>19, <2>0, DropRowDoes, TouchesWhat, ZeroIsNoFlow DEF Used, CoreInv, TypeOK
  <2>3. row' \in [Rows -> RowType]
    <3>1. \A x \in Rows : row[x] \in RowType /\ [row[x] EXCEPT !.state = "deleted"] \in RowType
      BY <1>a DEF RowType
    <3> QED
      BY <2>1, <3>1
  <2>4. Types
    BY <1>a, <2>1, <2>3 DEF Types
  <2>5. Marks(r) /\ Elsewhere(r)
    BY <2>1 DEF Marks, Elsewhere
  <2>6. \A x \in Rows : RowStep(r, x)
    BY <2>1, <2>2 DEF RowStep, Retired
  <2>7. Own(r)
    <3>1. CASE Over(r)
      BY <3>1 DEF Own
    <3>2. CASE ~Over(r)
      <4>1. task[r].kind # "deleteFlow"
        <5> SUFFICES ASSUME task[r].kind = "deleteFlow" PROVE FALSE
          OBVIOUS
        <5>1. RequestFits(r) /\ task[r].pc = "row"
          BY <1>19, DropRowDoes DEF CoreInv, AllFit
        <5>2. /\ task[r].old \subseteq task[r].targets /\ task[r].old # {}
              /\ \E x \in Rows : task[r].targets = {x}
          BY <5>1 DEF RequestFits
        <5>3. task[r].targets \ task[r].old # {}
          BY <1>19, <3>2, DropRowDoes
        <5> QED
          BY <5>2, <5>3
      <4> QED
        BY <1>19, <3>2, <4>1, DropRowDoes, OwnThen
    <3> QED
      BY <3>1, <3>2
  <2> QED
    BY <2>0, <2>1, <2>4, <2>5, <2>6, <2>7, OnlyOthers DEF Frame
<1>20. CASE DropConfigRows(r)
  <2>0. task[r].pc # "idle"
    BY <1>20, DropConfigRowsDoes
  <2>1. /\ row' = [x \in Rows |-> IF row[x].flow = task[r].flow
                                  THEN [row[x] EXCEPT !.state = "deleted"] ELSE row[x]]
        /\ UNCHANGED <<file, source, configs, begun, mishaps, muddle>> /\ Only(r)
    BY <1>20, DropConfigRowsDoes
  <2>2. \A x \in Rows : row[x].flow = task[r].flow => x \in Used /\ row[x].flow \in Touches(task[r])
    BY <1>20, <2>0, DropConfigRowsDoes, TouchesWhat, ZeroIsNoFlow DEF Used, CoreInv, TypeOK
  <2>3. row' \in [Rows -> RowType]
    <3>1. \A x \in Rows : row[x] \in RowType /\ [row[x] EXCEPT !.state = "deleted"] \in RowType
      BY <1>a DEF RowType
    <3> QED
      BY <2>1, <3>1
  <2>4. Types
    BY <1>a, <2>1, <2>3 DEF Types
  <2>5. Marks(r) /\ Elsewhere(r)
    BY <2>1 DEF Marks, Elsewhere
  <2>6. \A x \in Rows : RowStep(r, x)
    BY <2>1, <2>2 DEF RowStep, Retired
  <2>7. Own(r)
    BY <1>20, DropConfigRowsDoes, OwnThen
  <2> QED
    BY <2>0, <2>1, <2>4, <2>5, <2>6, <2>7, OnlyOthers DEF Frame
<1>21. CASE DropConfig(r)
  <2>0. task[r].pc # "idle"
    BY <1>21, DropConfigDoes
  <2>1. /\ configs' = configs \ {task[r].flow} /\ Over(r) /\ Only(r) /\ At(r, "config")
        /\ UNCHANGED <<row, file, source, begun, mishaps, muddle>>
    BY <1>21, DropConfigDoes
  <2>2. task[r].flow \in Touches(task[r])
    BY <2>0, <2>1, TouchesWhat
  <2>3. Types
    BY <1>a, <2>1 DEF Types
  <2>4. Marks(r) /\ Elsewhere(r) /\ (\A x \in Rows : RowStep(r, x)) /\ Own(r)
    BY <2>1, <2>2 DEF Marks, Elsewhere, RowStep, Own
  <2> QED
    BY <2>0, <2>1, <2>3, <2>4, OnlyOthers DEF Frame
<1> QED
  BY <1>1, <1>2, <1>3, <1>4, <1>5, <1>6, <1>7, <1>8, <1>9, <1>10, <1>11, <1>12, <1>13, <1>14,
     <1>15, <1>16, <1>17, <1>18, <1>19, <1>20, <1>21 DEF Step, Leaves

(***************************************************************************)
(* The other requests, the rows, and what is touched.                      *)
(***************************************************************************)

LEMMA OthersKeep ==
    ASSUME CoreInv, NEW r \in Requests, Frame(r), NEW q \in Requests, q # r
    PROVE  LET s == task[q]
               t == task'[q]
           IN  /\ t.kind = s.kind /\ t.pc = s.pc /\ t.flows = s.flows /\ t.todo = s.todo
               /\ t.given = s.given /\ t.single = s.single /\ t.flow = s.flow
               /\ t.insert = s.insert /\ t.old = s.old /\ t.targets = s.targets
               /\ t.shown = s.shown /\ t.alone \subseteq s.alone
               /\ s = Idle => t = Idle
<1>1. task[q] \in TaskType
  BY DEF CoreInv, Shapes
<1>2. CASE task'[q] = task[q]
  BY <1>2
<1>3. CASE \E s \in SUBSET task[q].alone : Forgets(q, s)
  <2> PICK s \in SUBSET task[q].alone : task'[q] = [task[q] EXCEPT !.alone = s]
    BY <1>3 DEF Forgets
  <2>1. task'[q].alone = s
    BY <1>1 DEF TaskType
  <2>2. task[q] = Idle => task'[q] = Idle
    <3> SUFFICES ASSUME task[q] = Idle PROVE task'[q] = Idle
      OBVIOUS
    <3>1. s = {} /\ task[q].alone = {}
      BY DEF Idle
    <3>2. [task[q] EXCEPT !.alone = {}] = task[q]
      BY <1>1, <3>1 DEF TaskType
    <3> QED
      BY <3>1, <3>2
  <2>3. /\ task'[q].kind = task[q].kind /\ task'[q].pc = task[q].pc
        /\ task'[q].flows = task[q].flows /\ task'[q].todo = task[q].todo
        /\ task'[q].given = task[q].given /\ task'[q].single = task[q].single
        /\ task'[q].flow = task[q].flow /\ task'[q].insert = task[q].insert
        /\ task'[q].old = task[q].old /\ task'[q].targets = task[q].targets
        /\ task'[q].shown = task[q].shown
    BY <1>1 DEF TaskType
  <2> QED
    BY <2>1, <2>2, <2>3
<1> QED
  BY <1>2, <1>3 DEF Frame, Others

LEMMA RowsKeep ==
    ASSUME CoreInv, NEW r \in Requests, Frame(r), NEW x \in Rows
    PROVE  /\ x \in Used => /\ x \in Used' /\ row'[x].flow = row[x].flow
                            /\ row'[x].version = row[x].version /\ row'[x].code = row[x].code
                            /\ row'[x].state = "active" => row'[x] = row[x]
                            /\ row[x].flow \notin Touches(task[r]) => row'[x] = row[x]
           /\ x \notin Used => \/ row'[x] = row[x]
                               \/ /\ At(r, "insert")
                                  /\ \E f \in task[r].flows : row'[x] = NewRowOf(r, f)
<1>1. row[x] \in RowType /\ RowStep(r, x)
  BY DEF CoreInv, TypeOK, Frame
<1>2. CASE row'[x] = row[x]
  BY <1>2 DEF Used
<1>3. CASE x \in Used /\ row[x].flow \in Touches(task[r]) /\ Retired(x)
  <2>1. /\ row'[x].flow = row[x].flow /\ row'[x].version = row[x].version
        /\ row'[x].code = row[x].code /\ row'[x].state \in {"inactive", "deleted"}
    BY <1>1, <1>3 DEF Retired, RowType
  <2> QED
    BY <1>3, <2>1 DEF Used
<1>4. CASE x \notin Used /\ At(r, "insert") /\ \E f \in task[r].flows : row'[x] = NewRowOf(r, f)
  BY <1>4
<1> QED
  BY <1>1, <1>2, <1>3, <1>4 DEF RowStep

\* The active rows of the flows that the request does not touch stay, and only an insert
\* makes a row active.
LEMMA ActiveKeep ==
    ASSUME CoreInv, NEW r \in Requests, Frame(r), NEW f \in Flows
    PROVE  /\ f \notin Touches(task[r]) => ActiveRows(f)' = ActiveRows(f)
           /\ \A x \in ActiveRows(f) \cap ActiveRows(f)' : row'[x] = row[x]
           /\ ~At(r, "insert") => ActiveRows(f)' \subseteq ActiveRows(f)
           /\ f \notin task[r].flows => ActiveRows(f)' \subseteq ActiveRows(f)
<1>a. ActiveRows(f)' = {x \in Rows : row'[x].flow = f /\ row'[x].state = "active"}
  BY DEF ActiveRows, IsActive
<1>b. ActiveRows(f) = {x \in Rows : row[x].flow = f /\ row[x].state = "active"}
  BY DEF ActiveRows, IsActive
<1>c. \A x \in Rows : x \notin Used => row[x].state = "none"
  BY DEF Used
<1>d. task[r].pc \in Deploys => task[r].flows \subseteq Touches(task[r])
  BY TouchesWhat DEF Frame
<1>1. ASSUME NEW x \in ActiveRows(f)', x \notin ActiveRows(f)
      PROVE  At(r, "insert") /\ f \in task[r].flows /\ f \in Touches(task[r])
  <2>1. x \in Rows /\ row'[x].flow = f /\ row'[x].state = "active" /\ row'[x] # row[x]
    BY <1>1, <1>a, <1>b
  <2>2. x \notin Used
    BY <2>1, RowsKeep
  <2>3. PICK g \in task[r].flows : row'[x] = NewRowOf(r, g) /\ At(r, "insert")
    BY <2>1, <2>2, RowsKeep
  <2>4. g = f
    BY <2>1, <2>3 DEF NewRowOf
  <2> QED
    BY <2>3, <2>4, <1>d DEF At, Deploys, Loop
<1>2. ASSUME NEW x \in ActiveRows(f), f \notin Touches(task[r]) PROVE x \in ActiveRows(f)'
  <2>1. x \in Used /\ row[x].flow = f
    BY <1>b, <1>c
  <2>2. row'[x] = row[x]
    BY <1>2, <2>1, RowsKeep, <1>b
  <2> QED
    BY <1>a, <1>b, <2>2
<1>3. ASSUME NEW x \in ActiveRows(f) \cap ActiveRows(f)' PROVE row'[x] = row[x]
  BY <1>a, <1>b, <1>c, RowsKeep
<1> QED
  BY <1>1, <1>2, <1>3

LEMMA TouchesThen ==
    ASSUME NEW q \in Requests
    PROVE  /\ task'[q].kind = "deploy" =>
                 Touches(task[q])' = IF task'[q].single THEN task'[q].flows ELSE Flows
           /\ task'[q].kind = "preBuilt" => Touches(task[q])' = task'[q].flows
           /\ task'[q].kind = "deleteFlow" =>
                 Touches(task[q])' = {row'[x].flow : x \in task'[q].targets}
           /\ task'[q].kind = "deleteConfig" => Touches(task[q])' = {task'[q].flow}
BY DEF Touches, Flows

LEMMA SameTouches ==
    ASSUME CoreInv, NEW r \in Requests, Frame(r), NEW q \in Requests, task[q].pc # "idle",
           task'[q].kind = task[q].kind, task'[q].flows = task[q].flows,
           task'[q].single = task[q].single,
           task'[q].kind = "deleteConfig" => task'[q].flow = task[q].flow,
           task'[q].kind = "deleteFlow" => task'[q].targets = task[q].targets
    PROVE  Touches(task[q])' = Touches(task[q])
<1>1. task[q].kind \in Kinds \ {"none"}
  BY KindsOfPlaces DEF CoreInv, Shapes, TaskType
<1>2. CASE task[q].kind = "deploy"
  BY <1>2, TouchesOf, TouchesThen
<1>3. CASE task[q].kind = "preBuilt"
  BY <1>3, TouchesOf, TouchesThen
<1>4. CASE task[q].kind = "deleteFlow"
  <2>1. task[q].pc \in {"files", "row"}
    BY <1>4 DEF CoreInv, AllFit, RequestFits, PlacesOf
  <2>2. \A x \in task[q].targets : x \in Used /\ x \in Rows
    BY <2>1, TouchesWhat, UsedHasFlow
  <2>3. \A x \in task[q].targets : row'[x].flow = row[x].flow
    BY <2>2, RowsKeep
  <2>4. {row'[x].flow : x \in task[q].targets} = {row[x].flow : x \in task[q].targets}
    BY <2>3
  <2>5. Touches(task[q]) = {row[x].flow : x \in task[q].targets}
    BY <1>4, TouchesOf
  <2>6. Touches(task[q])' = {row'[x].flow : x \in task[q].targets}
    BY <1>4, TouchesThen
  <2> QED
    BY <2>4, <2>5, <2>6
<1>5. CASE task[q].kind = "deleteConfig"
  BY <1>5, TouchesOf, TouchesThen
<1> QED
  BY <1>1, <1>2, <1>3, <1>4, <1>5 DEF Kinds

\* Nobody comes to touch more.
LEMMA TouchesKeep ==
    ASSUME CoreInv, NEW r \in Requests, Frame(r), NEW q \in Requests, task'[q].pc # "idle"
    PROVE  /\ task[q].pc # "idle" /\ Touches(task[q])' = Touches(task[q])
           /\ task'[q].kind = task[q].kind /\ task'[q].flows = task[q].flows
           /\ task'[q].given = task[q].given /\ task'[q].single = task[q].single
           /\ task'[q].shown = task[q].shown /\ task'[q].alone \subseteq task[q].alone
<1>1. CASE q # r
  <2>1. task[q].pc # "idle"
    BY <1>1, OthersKeep
  <2> QED
    BY <1>1, <2>1, OthersKeep, SameTouches
<1>2. CASE q = r
  <2>1. ~Over(r) /\ task[r].pc # "idle"
    BY <1>2, IdleIsTask DEF Over, Frame
  <2>2. LET s == task[r]
            t == task'[r]
        IN  /\ t.kind = s.kind /\ t.flows = s.flows /\ t.given = s.given /\ t.single = s.single
            /\ t.shown = s.shown /\ t.alone \subseteq s.alone /\ t.pc # "idle"
            /\ t.kind = "deleteConfig" => t.flow = s.flow
            /\ t.kind = "deleteFlow" => t.targets = s.targets
    BY <2>1 DEF Frame, Own
  <2> QED
    BY <1>2, <2>1, <2>2, SameTouches
<1> QED
  BY <1>1, <1>2

\* Two that overlap on a flow still do.
LEMMA OverlapStays ==
    ASSUME CoreInv, NEW r \in Requests, Frame(r), NEW q \in Requests, q # r, task[q].pc # "idle",
           NEW f \in Touches(task[r]) \cap Touches(task[q])
    PROVE  /\ "overlap" \in muddle[f] /\ "overlap" \in muddle'[f]
           /\ f \notin task[r].alone /\ f \notin task[q].alone /\ f \notin task'[q].alone
<1>1. task[r].pc # "idle" /\ Touches(task[r]) \subseteq Flows
  BY TouchesWhat DEF Frame
<1>2. "overlap" \in muddle[f] /\ f \notin task[r].alone /\ f \notin task[q].alone
  BY <1>1, TouchedByOne
<1>3. muddle[f] \subseteq muddle'[f]
  BY <1>1, <1>2 DEF Frame, Marks
<1> QED
  BY <1>2, <1>3, OthersKeep

(***************************************************************************)
(* CoreInv is inductive: types, and the locals of every request.           *)
(***************************************************************************)

LEMMA MishapsStep ==
    ASSUME NEW r \in Requests, Step(r)
    PROVE  mishaps' = mishaps \/ Fault
<1> USE DEF NoFault
<1>1. CASE Confirmed(r)
  BY <1>1 DEF Confirmed
<1>2. CASE Declined(r)
  BY <1>2 DEF Declined
<1>3. CASE \E f \in Flows : ReadPrevious(r, f)
  BY <1>3 DEF ReadPrevious
<1>4. CASE \E f \in Flows : PreviousUnread(r, f)
  BY <1>4 DEF PreviousUnread
<1>5. CASE \E f \in Flows : UnknownConfig(r, f)
  BY <1>5 DEF UnknownConfig
<1>6. CASE Upload(r)
  BY <1>6 DEF Upload
<1>7. CASE UploadFails(r)
  BY <1>7 DEF UploadFails
<1>8. CASE UploadSource(r)
  BY <1>8 DEF UploadSource
<1>9. CASE SourceUploadFails(r)
  BY <1>9 DEF SourceUploadFails
<1>10. CASE UploadLastSource(r)
  BY <1>10 DEF UploadLastSource
<1>11. CASE ReadOld(r)
  BY <1>11 DEF ReadOld
<1>12. CASE OldUnread(r)
  BY <1>12 DEF OldUnread
<1>13. CASE Insert(r)
  BY <1>13 DEF Insert
<1>14. CASE Deactivate(r)
  BY <1>14 DEF Deactivate
<1>15. CASE ReconcileDifferences(r)
  BY <1>15 DEF ReconcileDifferences
<1>16. CASE \E x \in Rows : DropFiles(r, x)
  BY <1>16 DEF DropFiles
<1>17. CASE \E x \in Rows : FilesKept(r, x)
  BY <1>17 DEF FilesKept
<1>18. CASE DropRow(r)
  BY <1>18 DEF DropRow
<1>19. CASE DropConfigFiles(r)
  BY <1>19 DEF DropConfigFiles
<1>20. CASE ConfigFilesKept(r)
  BY <1>20 DEF ConfigFilesKept
<1>21. CASE DropConfigRows(r)
  BY <1>21 DEF DropConfigRows
<1>22. CASE DropConfig(r)
  BY <1>22 DEF DropConfig
<1>23. CASE Fails(r)
  BY <1>23 DEF Fails
<1> QED
  BY <1>1, <1>2, <1>3, <1>4, <1>5, <1>6, <1>7, <1>8, <1>9, <1>10, <1>11, <1>12, <1>13, <1>14,
     <1>15, <1>16, <1>17, <1>18, <1>19, <1>20, <1>21, <1>22, <1>23 DEF Step

LEMMA TypesThen ==
    ASSUME CoreInv, NEW r \in Requests, Step(r)
    PROVE  TypeOK' /\ Shapes'
<1> USE DEF TypeOK, CoreInv, Types
<1>1. Frame(r)
  BY StepFrame
<1>2. task' \in [Requests -> TaskType]
  BY <1>1 DEF Frame, Own, Over
<1>3. Types
  BY <1>1 DEF Frame
<1>4. mishaps' \in 0..MaxMishaps
  <2>1. mishaps \in 0..MaxMishaps /\ (mishaps' = mishaps \/ (mishaps < MaxMishaps /\ mishaps' = mishaps + 1))
    BY MishapsStep DEF Fault
  <2> QED
    BY <2>1, MishapsAssumption
<1>5. begun' \in 0..MaxRequests
  BY <1>3
<1>6. ASSUME NEW x \in Rows PROVE row'[x].state = "none" <=> row'[x].flow = NoFlow
  <2>1. row[x].state = "none" <=> row[x].flow = NoFlow
    OBVIOUS
  <2>2. CASE x \in Used
    <3>1. row'[x].state # "none" /\ row'[x].flow = row[x].flow /\ row[x].state # "none"
      BY <1>1, <2>2, RowsKeep DEF Used
    <3> QED
      BY <2>1, <3>1
  <2>3. CASE x \notin Used /\ row'[x] # row[x]
    <3>1. PICK f \in task[r].flows : row'[x] = NewRowOf(r, f)
      BY <1>1, <2>3, RowsKeep
    <3>2. task[r].flows \subseteq Flows
      BY FieldsOfTask DEF Shapes
    <3> QED
      BY <3>1, <3>2, ZeroIsNoFlow DEF NewRowOf
  <2> QED
    BY <2>1, <2>2, <2>3
<1>7. Shapes'
  BY <1>2, <1>3 DEF Shapes, TaskType, RowType, Rows, Requests, Versions, Flows
<1>8. \A x \in Rows : row'[x] \in RowType
  BY <1>3
<1>9. \A q \in Requests : task'[q] \in TaskType
  BY <1>2
<1>10. TypeOK'
  BY <1>3, <1>4, <1>5, <1>6, <1>8, <1>9 DEF TaskType, RowType, Rows, Requests, Versions, Flows
<1> QED
  BY <1>7, <1>10

LEMMA OthersFit ==
    ASSUME CoreInv, NEW r \in Requests, Frame(r), NEW q \in Requests, q # r
    PROVE  RequestFits(q)'
<1>0. RequestFits(q) /\ task[q] \in TaskType
  BY DEF CoreInv, AllFit, Shapes
<1>1. /\ task'[q].kind = task[q].kind /\ task'[q].pc = task[q].pc
      /\ task'[q].flows = task[q].flows /\ task'[q].todo = task[q].todo
      /\ task'[q].given = task[q].given /\ task'[q].single = task[q].single
      /\ task'[q].flow = task[q].flow /\ task'[q].insert = task[q].insert
      /\ task'[q].old = task[q].old /\ task'[q].targets = task[q].targets
      /\ task'[q].alone \subseteq task[q].alone
      /\ task[q] = Idle => task'[q] = Idle
  BY OthersKeep
<1>2. Chosen(q)' = Chosen(q)
  BY <1>1 DEF Chosen, Deploys, Loop
<1>3. task[q].pc # "idle" => Touches(task[q])' = Touches(task[q])
  BY <1>1, TouchesKeep
<1>4. begun' = begun
  BY DEF Frame, Types
<1>5. ASSUME task[q].pc \in Deploys, NEW x \in task[q].old
      PROVE  row'[x].flow \in task[q].flows
  <2>1. row[x].flow \in task[q].flows /\ x \in Rows /\ task[q].flows \subseteq Flows
    BY <1>0, <1>5 DEF RequestFits, TaskType
  <2>2. x \in Used
    BY <2>1, ZeroIsNoFlow DEF Used, CoreInv, TypeOK
  <2> QED
    BY <2>1, <2>2, RowsKeep
<1>6. \A x \in Used : x \in Used'
  BY RowsKeep DEF Used
<1>7. ASSUME task[q].given # NoVersion, task[q].pc \in BeforeInsert \cup {"deactivate"}, NEW f \in task[q].flows
      PROVE  "given" \in muddle'[f]
  <2>1. "given" \in muddle[f] /\ task[q].pc # "idle" /\ f \in Touches(task[q])
        /\ Touches(task[q]) \subseteq Flows
    BY <1>0, <1>7, TouchesWhat DEF RequestFits, BeforeInsert, Deploys, Loop
  <2>2. CASE muddle[f] \subseteq muddle'[f]
    BY <2>1, <2>2
  <2>3. CASE ~(muddle[f] \subseteq muddle'[f])
    <3>1. At(r, "deactivate") /\ f \in task[r].flows \cap task[r].alone
      BY <2>1, <2>3 DEF Frame, Marks
    <3>2. f \in Touches(task[r])
      BY <3>1, TouchesWhat DEF At, Deploys
    <3> QED
      BY <2>1, <3>1, <3>2, OverlapStays
  <2> QED
    BY <2>2, <2>3
<1>8. /\ task[q].pc \in PlacesOf[task[q].kind]
      /\ task[q].pc = "idle" => task[q] = Idle
      /\ task[q].pc # "idle" => q <= begun /\ task[q].alone \subseteq Touches(task[q])
      /\ task[q].todo \subseteq task[q].flows
      /\ task[q].pc = "confirm" => task[q].todo = task[q].flows /\ task[q].old = {}
      /\ task[q].pc \in {"upload", "source", "lastSource", "old"} => task[q].flow \in task[q].todo
      /\ task[q].pc \in {"insert", "deactivate", "reconcile", "files", "row"} => task[q].todo = {}
      /\ task[q].pc \in {"files", "row"} =>
            /\ \A x \in task[q].targets : x \in Used
            /\ task[q].kind = "deploy" => ~task[q].single
      /\ task[q].pc = "row" => task[q].old \subseteq task[q].targets /\ task[q].old # {}
      /\ task[q].kind = "preBuilt" => task[q].flows # {}
      /\ task[q].kind = "deleteFlow" => \E x \in Rows : task[q].targets = {x}
      /\ task[q].kind = "deleteConfig" => task[q].flow \in Flows
      /\ task[q].given \in {NoVersion, <<"int", 1>>}
      /\ \A f \in Chosen(q) : task[q].insert[f] \in Versions
  BY <1>0 DEF RequestFits
<1> QED
  BY <1>1, <1>2, <1>3, <1>4, <1>5, <1>6, <1>7, <1>8
     DEF RequestFits, Rows, Flows, Versions, NoVersion

\* What a step has to keep for the request to fit.
LEMMA FitsThen ==
    ASSUME CoreInv, NEW r \in Requests, Frame(r), task'[r].pc # "idle",
           task'[r].pc \in PlacesOf[task[r].kind], task'[r].pc # "confirm",
           task'[r].todo \subseteq task[r].flows,
           task'[r].pc \in {"upload", "source", "lastSource", "old"} => task'[r].flow \in task'[r].todo,
           task'[r].pc \in {"insert", "deactivate", "reconcile", "files", "row"} => task'[r].todo = {},
           task'[r].pc \in Deploys =>
              /\ task[r].pc \in BeforeInsert
              /\ \A x \in task'[r].old : x \in Used /\ row[x].flow \in task[r].flows,
           task'[r].pc \in {"files", "row"} =>
              /\ \A x \in task'[r].targets : x \in Used
              /\ task[r].kind = "deploy" => ~task[r].single,
           task'[r].pc = "row" => task'[r].old \subseteq task'[r].targets /\ task'[r].old # {},
           \A f \in Chosen(r)' : task'[r].insert[f] \in Versions
    PROVE  RequestFits(r)'
<1>0. RequestFits(r) /\ task[r].pc # "idle" /\ ~Over(r)
  BY IdleIsTask DEF CoreInv, AllFit, Frame, Over
<1>1. /\ Touches(task[r])' = Touches(task[r])
      /\ task'[r].kind = task[r].kind /\ task'[r].flows = task[r].flows
      /\ task'[r].given = task[r].given /\ task'[r].single = task[r].single
      /\ task'[r].shown = task[r].shown /\ task'[r].alone \subseteq task[r].alone
  BY TouchesKeep
<1>2. /\ task[r].kind = "deleteConfig" => task'[r].flow = task[r].flow
      /\ task[r].kind = "deleteFlow" => task'[r].targets = task[r].targets
  BY <1>0 DEF Frame, Own
<1>3. begun' = begun
  BY DEF Frame, Types
<1>4. \A x \in Used : x \in Used' /\ row'[x].flow = row[x].flow
  BY RowsKeep DEF Used
<1>5. ASSUME task[r].given # NoVersion, task'[r].pc \in BeforeInsert \cup {"deactivate"}, NEW f \in task[r].flows
      PROVE  "given" \in muddle'[f]
  <2>1. task[r].pc \in BeforeInsert
    BY <1>5 DEF Deploys, BeforeInsert
  <2>2. "given" \in muddle[f]
    BY <1>0, <1>5, <2>1 DEF RequestFits
  <2>3. f \in Flows /\ ~At(r, "deactivate")
    BY <2>1, FieldsOfTask DEF At, BeforeInsert, Loop, CoreInv, Shapes
  <2> QED
    BY <2>2, <2>3 DEF Frame, Marks
<1>6. /\ r <= begun /\ task[r].alone \subseteq Touches(task[r])
      /\ task[r].kind = "preBuilt" => task[r].flows # {}
      /\ task[r].kind = "deleteFlow" => \E x \in Rows : task[r].targets = {x}
      /\ task[r].kind = "deleteConfig" => task[r].flow \in Flows
      /\ task[r].given \in {NoVersion, <<"int", 1>>}
  BY <1>0 DEF RequestFits
<1> QED
  BY <1>1, <1>2, <1>3, <1>4, <1>5, <1>6
     DEF RequestFits, Rows, Flows, Versions, NoVersion

LEMMA OwnFits ==
    ASSUME CoreInv, NEW r \in Requests, Step(r)
    PROVE  RequestFits(r)'
<1> USE DEF Deploys, Loop, BeforeInsert
<1>a. Frame(r) /\ RequestFits(r) /\ task[r] \in TaskType
  BY StepFrame DEF CoreInv, AllFit, Shapes
<1>b. /\ task[r].pc \in PlacesOf[task[r].kind]
      /\ task[r].todo \subseteq task[r].flows
      /\ task[r].pc = "confirm" => task[r].todo = task[r].flows /\ task[r].old = {}
      /\ task[r].pc \in {"upload", "source", "lastSource", "old"} => task[r].flow \in task[r].todo
      /\ task[r].pc \in {"insert", "deactivate", "reconcile", "files", "row"} => task[r].todo = {}
      /\ task[r].pc \in {"files", "row"} =>
            /\ \A x \in task[r].targets : x \in Used
            /\ task[r].kind = "deploy" => ~task[r].single
      /\ task[r].pc = "row" => task[r].old \subseteq task[r].targets /\ task[r].old # {}
      /\ \A f \in Chosen(r) : task[r].insert[f] \in Versions
  BY <1>a DEF RequestFits
<1>c. task[r].pc \in Deploys => \A x \in task[r].old : x \in Used /\ row[x].flow \in task[r].flows
  <2> SUFFICES ASSUME task[r].pc \in Deploys, NEW x \in task[r].old
               PROVE  x \in Used /\ row[x].flow \in task[r].flows
    OBVIOUS
  <2>1. row[x].flow \in task[r].flows /\ x \in Rows /\ task[r].flows \subseteq Flows
    BY <1>a DEF RequestFits, TaskType
  <2> QED
    BY <2>1, ZeroIsNoFlow DEF Used, CoreInv, TypeOK
<1>d. Over(r) => RequestFits(r)'
  <2> SUFFICES ASSUME Over(r) PROVE RequestFits(r)'
    OBVIOUS
  <2>1. task'[r] = Idle /\ Idle.pc = "idle" /\ Idle.kind = "none" /\ Idle.todo = {}
        /\ Idle.flows = {} /\ Idle.given = NoVersion
    BY DEF Over, Idle
  <2>2. Chosen(r)' = {}
    BY <2>1 DEF Chosen
  <2>3. "idle" \in PlacesOf["none"]
    BY DEF PlacesOf
  <2> QED
    BY <2>1, <2>2, <2>3 DEF RequestFits, NoVersion, Idle
<1>e. /\ task[r].pc \in Deploys => task[r].kind \in {"deploy", "preBuilt"}
      /\ task[r].pc \in {"confirm", "reconcile", "lastSource"} => task[r].kind = "deploy"
      /\ task[r].pc \in {"files", "row"} => task[r].kind \in {"deploy", "deleteFlow"}
      /\ task[r].pc \in {"configFiles", "configRows", "config"} => task[r].kind = "deleteConfig"
  BY KindsOfPlaces
<1>1. CASE Confirmed(r)
  <2>1. task[r].pc = "confirm" /\ task'[r].pc = "flow"
        /\ task'[r].todo = task[r].todo
        /\ task'[r].flow = task[r].flow
        /\ task'[r].insert = task[r].insert
        /\ task'[r].old = task[r].old
        /\ task'[r].targets = task[r].targets
        /\ task'[r].flows = task[r].flows
    BY <1>1, ConfirmedDoes DEF At, Then
  <2>2. \A f \in Chosen(r)' : task'[r].insert[f] \in Versions
    BY <1>b, <2>1 DEF Chosen
  <2>3. "flow" \in PlacesOf[task[r].kind]
    BY <1>e, <2>1 DEF PlacesOf
  <2> QED
    BY <1>a, <1>b, <1>c, <2>1, <2>2, <2>3, FitsThen
<1>2. CASE Leaves(r)
  BY <1>2, <1>d, LeavesDoes
<1>3. CASE \E f \in Flows : ReadPrevious(r, f)
  <2> PICK f \in Flows : ReadPrevious(r, f)
    BY <1>3
  <2>1. /\ task[r].pc = "flow" /\ task'[r].pc = "upload" /\ f \in task[r].todo
        /\ task'[r].flow = f /\ task'[r].insert = [task[r].insert EXCEPT ![f] = NextVersion(r, f)] /\ NextVersion(r, f) \in Versions
        /\ task'[r].todo = task[r].todo
        /\ task'[r].old = task[r].old
        /\ task'[r].targets = task[r].targets
        /\ task'[r].flows = task[r].flows
    BY ReadPreviousDoes DEF At, Then
  <2>2. \A g \in Chosen(r)' : task'[r].insert[g] \in Versions
    <3> SUFFICES ASSUME NEW g \in Chosen(r)' PROVE task'[r].insert[g] \in Versions
      OBVIOUS
    <3>1. g = f \/ (g \in task[r].flows \ task[r].todo /\ g \in Chosen(r))
      BY <2>1 DEF Chosen
    <3>2. task[r].insert \in [Flows -> Versions \cup {NoVersion}]
      BY <1>a, FieldsOfTask
    <3> QED
      BY <1>b, <2>1, <3>1, <3>2
  <2>3. "upload" \in PlacesOf[task[r].kind]
    BY <1>e, <2>1 DEF PlacesOf
  <2> QED
    BY <1>a, <1>b, <1>c, <2>1, <2>2, <2>3, FitsThen
<1>4. CASE \E f \in Flows : PreviousUnread(r, f)
  <2> PICK f \in Flows : PreviousUnread(r, f)
    BY <1>4
  <2> PICK v \in Versions :
             /\ v[2] = 1 /\ Only(r)
             /\ Then(r, "upload", task[r].todo, f, [task[r].insert EXCEPT ![f] = v],
                     task[r].old, task[r].targets, task[r].alone)
             /\ At(r, "flow") /\ f \in task[r].todo /\ f \in configs
             /\ muddle' = Mark({f}, "versionUnread")
             /\ UNCHANGED <<row, file, source, configs, begun>>
    BY PreviousUnreadDoes
  <2>1. /\ task[r].pc = "flow" /\ task'[r].pc = "upload" /\ f \in task[r].todo
        /\ task'[r].flow = f /\ task'[r].insert = [task[r].insert EXCEPT ![f] = v] /\ v \in Versions
        /\ task'[r].todo = task[r].todo
        /\ task'[r].old = task[r].old
        /\ task'[r].targets = task[r].targets
        /\ task'[r].flows = task[r].flows
    BY DEF At, Then
  <2>2. \A g \in Chosen(r)' : task'[r].insert[g] \in Versions
    <3> SUFFICES ASSUME NEW g \in Chosen(r)' PROVE task'[r].insert[g] \in Versions
      OBVIOUS
    <3>1. g = f \/ (g \in task[r].flows \ task[r].todo /\ g \in Chosen(r))
      BY <2>1 DEF Chosen
    <3>2. task[r].insert \in [Flows -> Versions \cup {NoVersion}]
      BY <1>a, FieldsOfTask
    <3> QED
      BY <1>b, <2>1, <3>1, <3>2
  <2>3. "upload" \in PlacesOf[task[r].kind]
    BY <1>e, <2>1 DEF PlacesOf
  <2> QED
    BY <1>a, <1>b, <1>c, <2>1, <2>2, <2>3, FitsThen
<1>5. CASE Upload(r)
  <2>1. task[r].pc = "upload" /\ task'[r].pc = "source"
        /\ task'[r].todo = task[r].todo
        /\ task'[r].flow = task[r].flow
        /\ task'[r].insert = task[r].insert
        /\ task'[r].old = task[r].old
        /\ task'[r].targets = task[r].targets
        /\ task'[r].flows = task[r].flows
    BY <1>5, UploadDoes DEF At, Then
  <2>2. \A f \in Chosen(r)' : task'[r].insert[f] \in Versions
    BY <1>b, <2>1 DEF Chosen
  <2>3. "source" \in PlacesOf[task[r].kind]
    BY <1>e, <2>1 DEF PlacesOf
  <2> QED
    BY <1>a, <1>b, <1>c, <2>1, <2>2, <2>3, FitsThen
<1>6. CASE UploadSource(r)
  <2>1. task[r].pc = "source" /\ task'[r].pc = "old"
        /\ task'[r].todo = task[r].todo
        /\ task'[r].flow = task[r].flow
        /\ task'[r].insert = task[r].insert
        /\ task'[r].old = task[r].old
        /\ task'[r].targets = task[r].targets
        /\ task'[r].flows = task[r].flows
    BY <1>6, UploadSourceDoes DEF At, Then
  <2>2. \A f \in Chosen(r)' : task'[r].insert[f] \in Versions
    BY <1>b, <2>1 DEF Chosen
  <2>3. "old" \in PlacesOf[task[r].kind]
    BY <1>e, <2>1 DEF PlacesOf
  <2> QED
    BY <1>a, <1>b, <1>c, <2>1, <2>2, <2>3, FitsThen
<1>7. CASE SourceUploadFails(r)
  <2>1. task[r].pc = "source" /\ task'[r].pc = "old"
        /\ task'[r].todo = task[r].todo
        /\ task'[r].flow = task[r].flow
        /\ task'[r].insert = task[r].insert
        /\ task'[r].old = task[r].old
        /\ task'[r].targets = task[r].targets
        /\ task'[r].flows = task[r].flows
    BY <1>7, SourceUploadFailsDoes DEF At, Then
  <2>2. \A f \in Chosen(r)' : task'[r].insert[f] \in Versions
    BY <1>b, <2>1 DEF Chosen
  <2>3. "old" \in PlacesOf[task[r].kind]
    BY <1>e, <2>1 DEF PlacesOf
  <2> QED
    BY <1>a, <1>b, <1>c, <2>1, <2>2, <2>3, FitsThen
<1>8. CASE UploadFails(r)
  <2>1. task[r].pc = "upload" /\ task'[r].pc = "lastSource"
        /\ task'[r].todo = task[r].todo
        /\ task'[r].flow = task[r].flow
        /\ task'[r].insert = task[r].insert
        /\ task'[r].old = task[r].old
        /\ task'[r].targets = task[r].targets
        /\ task'[r].flows = task[r].flows
        /\ task[r].kind = "deploy"
    BY <1>8, UploadFailsDoes DEF At, Then
  <2>2. \A f \in Chosen(r)' : task'[r].insert[f] \in Versions
    BY <1>b, <2>1 DEF Chosen
  <2>3. "lastSource" \in PlacesOf[task[r].kind]
    BY <1>e, <2>1 DEF PlacesOf
  <2> QED
    BY <1>a, <1>b, <1>c, <2>1, <2>2, <2>3, FitsThen
<1>9. CASE UploadLastSource(r)
  BY <1>9, <1>d, UploadLastSourceDoes
<1>10. CASE ReadOld(r)
  <2>1. /\ task[r].pc = "old"
        /\ task'[r].pc = IF task[r].todo \ {task[r].flow} = {} THEN "insert" ELSE "flow"
        /\ task'[r].todo = task[r].todo \ {task[r].flow}
        /\ task'[r].old = task[r].old \cup ActiveRows(task[r].flow)
        /\ task'[r].insert = task[r].insert
        /\ task'[r].targets = task[r].targets
        /\ task'[r].flows = task[r].flows
    BY <1>10, ReadOldDoes DEF At, Then
  <2>2. task[r].flow \in task[r].todo
    BY <1>b, <2>1
  <2>3. \A x \in task'[r].old : x \in Used /\ row[x].flow \in task[r].flows
    <3>1. task[r].flow \in task[r].flows /\ task[r].flow \in Flows
      BY <1>a, <1>b, <2>2, FieldsOfTask
    <3>2. \A x \in ActiveRows(task[r].flow) : x \in Used /\ row[x].flow = task[r].flow
      BY <3>1, ActiveIsUsed
    <3> QED
      BY <1>c, <2>1, <3>1, <3>2
  <2>4. Chosen(r)' \subseteq Chosen(r)
    BY <2>1, <2>2, <1>b DEF Chosen
  <2>5. \A f \in Chosen(r)' : task'[r].insert[f] \in Versions
    BY <1>b, <2>1, <2>4
  <2>6. task'[r].pc \in PlacesOf[task[r].kind]
    BY <1>e, <2>1 DEF PlacesOf
  <2> QED
    BY <1>a, <1>b, <2>1, <2>3, <2>5, <2>6, FitsThen
<1>11. CASE OldUnread(r)
  <2>1. /\ task[r].pc = "old"
        /\ task'[r].pc = IF task[r].todo \ {task[r].flow} = {} THEN "insert" ELSE "flow"
        /\ task'[r].todo = task[r].todo \ {task[r].flow}
        /\ task'[r].old = task[r].old
        /\ task'[r].insert = task[r].insert
        /\ task'[r].targets = task[r].targets
        /\ task'[r].flows = task[r].flows
    BY <1>11, OldUnreadDoes DEF At, Then
  <2>2. task[r].flow \in task[r].todo
    BY <1>b, <2>1
  <2>3. \A x \in task'[r].old : x \in Used /\ row[x].flow \in task[r].flows
    BY <1>c, <2>1
  <2>4. Chosen(r)' \subseteq Chosen(r)
    BY <2>1, <2>2, <1>b DEF Chosen
  <2>5. \A f \in Chosen(r)' : task'[r].insert[f] \in Versions
    BY <1>b, <2>1, <2>4
  <2>6. task'[r].pc \in PlacesOf[task[r].kind]
    BY <1>e, <2>1 DEF PlacesOf
  <2> QED
    BY <1>a, <1>b, <2>1, <2>3, <2>5, <2>6, FitsThen
<1>12. CASE Insert(r)
  <2>1. task[r].pc = "insert" /\ task'[r].pc = "deactivate"
        /\ task'[r].todo = task[r].todo
        /\ task'[r].flow = task[r].flow
        /\ task'[r].insert = task[r].insert
        /\ task'[r].old = task[r].old
        /\ task'[r].targets = task[r].targets
        /\ task'[r].flows = task[r].flows
    BY <1>12, InsertDoes DEF At, Then
  <2>2. \A f \in Chosen(r)' : task'[r].insert[f] \in Versions
    BY <1>b, <2>1 DEF Chosen
  <2>3. "deactivate" \in PlacesOf[task[r].kind]
    BY <1>e, <2>1 DEF PlacesOf
  <2> QED
    BY <1>a, <1>b, <1>c, <2>1, <2>2, <2>3, FitsThen
<1>13. CASE Deactivate(r)
  <2>0. CASE Over(r)
    BY <1>d, <2>0
  <2>1. CASE ~Over(r)
    <3>1. /\ task'[r].pc = "reconcile"
          /\ task[r].pc = "deactivate" /\ task[r].kind = "deploy" /\ task'[r].todo = task[r].todo /\ task'[r].flows = task[r].flows
      BY <1>13, <2>1, DeactivateDoes DEF At, Then
    <3>2. Chosen(r)' = {}
      BY <3>1 DEF Chosen
    <3>3. "reconcile" \in PlacesOf[task[r].kind]
      BY <1>e, <3>1 DEF PlacesOf
    <3> QED
      BY <1>a, <1>b, <1>c, <3>1, <3>2, <3>3, FitsThen
  <2> QED
    BY <2>0, <2>1
<1>14. CASE ReconcileDifferences(r)
  <2>0. CASE Over(r)
    BY <1>d, <2>0
  <2>1. CASE ~Over(r)
    <3>1. /\ task'[r].pc = "files"
          /\ task[r].pc = "reconcile" \/ (task[r].pc = "flow" /\ task[r].flows = {})
          /\ task'[r].todo = task[r].todo /\ task'[r].flows = task[r].flows
          /\ task'[r].targets = Missing(task[r].flows, task[r].single)
          /\ Missing(task[r].flows, task[r].single) # {}
      BY <1>14, <2>1, ReconcileDoes DEF At, Then
    <3>2. Chosen(r)' = {}
      BY <3>1 DEF Chosen
    <3>5. \A x \in Missing(task[r].flows, task[r].single) : x \in Used
      BY DEF Missing, CustomRows, Used
    <3>6. ~task[r].single
      BY <3>1 DEF Missing
    <3>7. task[r].kind \in {"deploy", "preBuilt"} /\ task[r].kind # "preBuilt"
      <4>1. CASE task[r].pc = "reconcile"
        BY <1>e, <4>1
      <4>2. CASE task[r].pc = "flow"
        <5>1. task[r].kind # "preBuilt"
          BY <1>a, <3>1, <4>2 DEF RequestFits
        <5> QED
          BY <1>e, <4>2, <5>1
      <4> QED
        BY <3>1, <4>1, <4>2
    <3>4. task'[r].todo = {} /\ (\A x \in task'[r].targets : x \in Used) /\ ~task[r].single
          /\ task[r].kind = "deploy"
      BY <1>b, <3>1, <3>5, <3>6, <3>7
    <3>3. "files" \in PlacesOf[task[r].kind]
      BY <1>e, <3>1, <3>4 DEF PlacesOf
    <3> QED
      BY <1>a, <1>b, <1>c, <3>1, <3>2, <3>3, <3>4, FitsThen
  <2> QED
    BY <2>0, <2>1
<1>15. CASE \E x \in Rows : DropFiles(r, x)
  <2> PICK x \in Rows : DropFiles(r, x)
    BY <1>15
  <2>1. task[r].pc = "files" /\ task'[r].pc = "row"
        /\ task'[r].todo = task[r].todo
        /\ task'[r].targets = task[r].targets
        /\ task'[r].flows = task[r].flows
        /\ task'[r].old = {x} /\ x \in task[r].targets
    BY <1>15, DropFilesDoes DEF At, Then
  <2>2. \A f \in Chosen(r)' : task'[r].insert[f] \in Versions
    BY <2>1 DEF Chosen
  <2>3. "row" \in PlacesOf[task[r].kind]
    BY <1>e, <2>1 DEF PlacesOf
  <2> QED
    BY <1>a, <1>b, <1>c, <2>1, <2>2, <2>3, FitsThen
<1>16. CASE \E x \in Rows : FilesKept(r, x)
  <2> PICK x \in Rows : FilesKept(r, x)
    BY <1>16
  <2>1. task[r].pc = "files" /\ task'[r].pc = "row"
        /\ task'[r].todo = task[r].todo
        /\ task'[r].targets = task[r].targets
        /\ task'[r].flows = task[r].flows
        /\ task'[r].old = {x} /\ x \in task[r].targets
    BY <1>16, FilesKeptDoes DEF At, Then
  <2>2. \A f \in Chosen(r)' : task'[r].insert[f] \in Versions
    BY <2>1 DEF Chosen
  <2>3. "row" \in PlacesOf[task[r].kind]
    BY <1>e, <2>1 DEF PlacesOf
  <2> QED
    BY <1>a, <1>b, <1>c, <2>1, <2>2, <2>3, FitsThen
<1>17. CASE DropRow(r)
  <2>0. CASE Over(r)
    BY <1>d, <2>0
  <2>1. CASE ~Over(r)
    <3>1. /\ task'[r].pc = "files"
          /\ task[r].pc = "row" /\ task'[r].todo = task[r].todo /\ task'[r].flows = task[r].flows
          /\ task'[r].targets = task[r].targets \ task[r].old
      BY <1>17, <2>1, DropRowDoes DEF At, Then
    <3>2. Chosen(r)' = {}
      BY <3>1 DEF Chosen
    <3>3. "files" \in PlacesOf[task[r].kind]
      BY <1>e, <3>1 DEF PlacesOf
    <3> QED
      BY <1>a, <1>b, <1>c, <3>1, <3>2, <3>3, FitsThen
  <2> QED
    BY <2>0, <2>1
<1>18. CASE DropConfigFiles(r)
  <2>1. task[r].pc = "configFiles" /\ task'[r].pc = "configRows"
        /\ task'[r].todo = task[r].todo
        /\ task'[r].flows = task[r].flows
    BY <1>18, DropConfigFilesDoes DEF At, Then
  <2>2. \A f \in Chosen(r)' : task'[r].insert[f] \in Versions
    BY <2>1 DEF Chosen
  <2>3. "configRows" \in PlacesOf[task[r].kind]
    BY <1>e, <2>1 DEF PlacesOf
  <2> QED
    BY <1>a, <1>b, <1>c, <2>1, <2>2, <2>3, FitsThen
<1>19. CASE ConfigFilesKept(r)
  <2>1. task[r].pc = "configFiles" /\ task'[r].pc = "configRows"
        /\ task'[r].todo = task[r].todo
        /\ task'[r].flows = task[r].flows
    BY <1>19, ConfigFilesKeptDoes DEF At, Then
  <2>2. \A f \in Chosen(r)' : task'[r].insert[f] \in Versions
    BY <2>1 DEF Chosen
  <2>3. "configRows" \in PlacesOf[task[r].kind]
    BY <1>e, <2>1 DEF PlacesOf
  <2> QED
    BY <1>a, <1>b, <1>c, <2>1, <2>2, <2>3, FitsThen
<1>20. CASE DropConfigRows(r)
  <2>1. task[r].pc = "configRows" /\ task'[r].pc = "config"
        /\ task'[r].todo = task[r].todo
        /\ task'[r].flows = task[r].flows
    BY <1>20, DropConfigRowsDoes DEF At, Then
  <2>2. \A f \in Chosen(r)' : task'[r].insert[f] \in Versions
    BY <2>1 DEF Chosen
  <2>3. "config" \in PlacesOf[task[r].kind]
    BY <1>e, <2>1 DEF PlacesOf
  <2> QED
    BY <1>a, <1>b, <1>c, <2>1, <2>2, <2>3, FitsThen
<1>21. CASE DropConfig(r)
  BY <1>21, <1>d, DropConfigDoes
<1> QED
  BY <1>1, <1>2, <1>3, <1>4, <1>5, <1>6, <1>7, <1>8, <1>9, <1>10, <1>11, <1>12, <1>13, <1>14,
     <1>15, <1>16, <1>17, <1>18, <1>19, <1>20, <1>21 DEF Step, Leaves

(***************************************************************************)
(* CoreInv is inductive: who touches what, and the room for rows.          *)
(***************************************************************************)

LEMMA ApartThen ==
    ASSUME CoreInv, NEW r \in Requests, Frame(r)
    PROVE  Apart'
<1> SUFFICES ASSUME NEW p \in Requests, NEW q \in Requests, p # q,
                    task'[p] # Idle, task'[q] # Idle,
                    NEW f \in Touches(task[p])' \cap Touches(task[q])'
             PROVE  "overlap" \in muddle'[f] /\ f \notin task'[p].alone
  BY DEF Apart, Running, Requests, Idle, Flows, NoVersion, NoFlow
<1>1. ASSUME NEW a \in Requests, task'[a] # Idle PROVE task[a].pc # "idle" /\ task'[a].pc # "idle"
  <2>1. CASE a = r
    <3>1. ~Over(r)
      BY <1>1, <2>1 DEF Over
    <3> QED
      BY <2>1, <3>1 DEF Frame, Own
  <2>2. CASE a # r
    <3>1. task[a] # Idle /\ task'[a].pc = task[a].pc
      BY <1>1, <2>2, OthersKeep
    <3> QED
      BY <3>1, KindsOfPlaces
  <2> QED
    BY <2>1, <2>2
<1>2. /\ task[p].pc # "idle" /\ task[q].pc # "idle" /\ f \in Touches(task[p]) \cap Touches(task[q])
      /\ task'[p].alone \subseteq task[p].alone
  BY <1>1, TouchesKeep
<1>3. "overlap" \in muddle[f] /\ f \notin task[p].alone /\ f \notin task[q].alone
  BY <1>2, TouchedByOne
<1>4. CASE p = r
  BY <1>2, <1>3, <1>4, OverlapStays
<1>5. CASE q = r
  BY <1>2, <1>3, <1>5, OverlapStays
<1>6. CASE p # r /\ q # r
  <2>1. f \in Flows
    BY <1>2, TouchesWhat
  <2>2. CASE muddle[f] \subseteq muddle'[f]
    BY <1>2, <1>3, <2>2
  <2>3. CASE At(r, "deactivate") /\ f \in task[r].flows \cap task[r].alone
    <3>1. f \in Touches(task[r])
      BY <2>3, TouchesWhat DEF At, Deploys
    <3> QED
      BY <1>2, <1>3, <1>6, <3>1, OverlapStays
  <2> QED
    BY <2>1, <2>2, <2>3 DEF Frame, Marks
<1> QED
  BY <1>4, <1>5, <1>6

\* What a deploy has chosen, and how it comes nearer to its insert.
Nearer(r) ==
    task'[r].pc \in BeforeInsert =>
       /\ task[r].pc \in BeforeInsert \ {"insert"}
       /\ \/ task'[r].insert = task[r].insert
          \/ \E f \in task[r].todo, v \in Versions :
                /\ task[r].pc = "flow" /\ task'[r].insert = [task[r].insert EXCEPT ![f] = v]
                /\ v = NextVersion(r, f) \/ v[2] = 1

LEMMA StepNearer == ASSUME CoreInv, NEW r \in Requests, Step(r) PROVE Nearer(r)
<1> USE DEF Loop, Nearer, BeforeInsert, At, Then
<1>a. Over(r) => Nearer(r)
  BY IdleIsTask DEF Over
<1>1. CASE Confirmed(r)
  BY <1>1, ConfirmedDoes
<1>2. CASE Upload(r)
  BY <1>2, UploadDoes
<1>3. CASE UploadFails(r)
  BY <1>3, UploadFailsDoes
<1>4. CASE UploadSource(r)
  BY <1>4, UploadSourceDoes
<1>5. CASE SourceUploadFails(r)
  BY <1>5, SourceUploadFailsDoes
<1>6. CASE Insert(r)
  BY <1>6, InsertDoes
<1>7. CASE ConfigFilesKept(r)
  BY <1>7, ConfigFilesKeptDoes
<1>8. CASE DropConfigFiles(r)
  BY <1>8, DropConfigFilesDoes
<1>9. CASE DropConfigRows(r)
  BY <1>9, DropConfigRowsDoes
<1>10. CASE ReadOld(r)
  <2>1. task[r].pc = "old" /\ task'[r].insert = task[r].insert
    BY <1>10, ReadOldDoes
  <2> QED
    BY <2>1
<1>11. CASE OldUnread(r)
  <2>1. task[r].pc = "old" /\ task'[r].insert = task[r].insert
    BY <1>11, OldUnreadDoes
  <2> QED
    BY <2>1
<1>12. CASE Leaves(r)
  BY <1>12, <1>a, LeavesDoes
<1>13. CASE UploadLastSource(r)
  BY <1>13, <1>a, UploadLastSourceDoes
<1>14. CASE DropConfig(r)
  BY <1>14, <1>a, DropConfigDoes
<1>15. CASE Deactivate(r)
  <2>1. Over(r) \/ task'[r].pc \in {"reconcile", "files"}
    BY <1>15, DeactivateDoes
  <2> QED
    BY <1>a, <2>1
<1>16. CASE DropRow(r)
  <2>1. Over(r) \/ task'[r].pc \in {"reconcile", "files"}
    BY <1>16, DropRowDoes
  <2> QED
    BY <1>a, <2>1
<1>17. CASE ReconcileDifferences(r)
  <2>1. Over(r) \/ task'[r].pc \in {"reconcile", "files"}
    BY <1>17, ReconcileDoes
  <2> QED
    BY <1>a, <2>1
<1>18. CASE \E x \in Rows : DropFiles(r, x)
  <2>1. task'[r].pc = "row"
    BY <1>18, DropFilesDoes
  <2> QED
    BY <2>1
<1>19. CASE \E x \in Rows : FilesKept(r, x)
  <2>1. task'[r].pc = "row"
    BY <1>19, FilesKeptDoes
  <2> QED
    BY <2>1
<1>20. CASE \E f \in Flows : ReadPrevious(r, f)
  <2> PICK f \in Flows : ReadPrevious(r, f)
    BY <1>20
  <2> QED
    BY ReadPreviousDoes
<1>21. CASE \E f \in Flows : PreviousUnread(r, f)
  <2> PICK f \in Flows : PreviousUnread(r, f)
    BY <1>21
  <2> PICK v \in Versions :
             /\ v[2] = 1 /\ Only(r)
             /\ Then(r, "upload", task[r].todo, f, [task[r].insert EXCEPT ![f] = v],
                     task[r].old, task[r].targets, task[r].alone)
             /\ At(r, "flow") /\ f \in task[r].todo /\ f \in configs
             /\ muddle' = Mark({f}, "versionUnread")
             /\ UNCHANGED <<row, file, source, configs, begun>>
    BY PreviousUnreadDoes
  <2>1. /\ task'[r].insert = [task[r].insert EXCEPT ![f] = v] /\ v[2] = 1
        /\ task[r].pc = "flow" /\ f \in task[r].todo
    OBVIOUS
  <2> QED
    BY <2>1
<1> QED
  BY <1>1, <1>2, <1>3, <1>4, <1>5, <1>6, <1>7, <1>8, <1>9, <1>10, <1>11, <1>12, <1>13, <1>14,
     <1>15, <1>16, <1>17, <1>18, <1>19, <1>20, <1>21 DEF Step, Leaves

\* At its insert a deploy inserts, or it ends.
LEMMA AtInsert ==
    ASSUME CoreInv, NEW r \in Requests, Step(r), At(r, "insert"), ~Insert(r)
    PROVE  Leaves(r)
<1> USE DEF ChooseVersion, Found, At
<1>1. ~(Confirmed(r))
  BY DEF Confirmed
<1>2. ~(\E f \in Flows : ReadPrevious(r, f))
  BY DEF ReadPrevious
<1>3. ~(\E f \in Flows : PreviousUnread(r, f))
  BY DEF PreviousUnread
<1>4. ~(Upload(r))
  BY DEF Upload
<1>5. ~(UploadFails(r))
  BY DEF UploadFails
<1>6. ~(UploadSource(r))
  BY DEF UploadSource
<1>7. ~(SourceUploadFails(r))
  BY DEF SourceUploadFails
<1>8. ~(UploadLastSource(r))
  BY DEF UploadLastSource
<1>9. ~(ReadOld(r))
  BY DEF ReadOld
<1>10. ~(OldUnread(r))
  BY DEF OldUnread
<1>11. ~(Deactivate(r))
  BY DEF Deactivate
<1>12. ~(ReconcileDifferences(r))
  BY DEF ReconcileDifferences
<1>13. ~(\E x \in Rows : DropFiles(r, x))
  BY DEF DropFiles
<1>14. ~(\E x \in Rows : FilesKept(r, x))
  BY DEF FilesKept
<1>15. ~(DropRow(r))
  BY DEF DropRow
<1>16. ~(DropConfigFiles(r))
  BY DEF DropConfigFiles
<1>17. ~(ConfigFilesKept(r))
  BY DEF ConfigFilesKept
<1>18. ~(DropConfigRows(r))
  BY DEF DropConfigRows
<1>19. ~(DropConfig(r))
  BY DEF DropConfig
<1> QED
  BY <1>1, <1>2, <1>3, <1>4, <1>5, <1>6, <1>7, <1>8, <1>9, <1>10, <1>11, <1>12, <1>13, <1>14,
     <1>15, <1>16, <1>17, <1>18, <1>19 DEF Step, Leaves

LEMMA RoomThen ==
    ASSUME CoreInv, NEW r \in Requests, Step(r)
    PROVE  Room'
<1>a. Frame(r)
  BY StepFrame
<1>b. PICK n \in 0..MaxRequests : RoomFor(n)
  BY DEF CoreInv, Room
<1>c. n \in Nat /\ begun \in Nat /\ begun' = begun
  BY <1>a, RequestsAssumption DEF Frame, Types, CoreInv, TypeOK
<1>1. Waiting' = {q \in Requests : task'[q].pc \in BeforeInsert}
  BY DEF Waiting, BeforeInsert, Loop, Requests
<1>2. Waiting' \subseteq Waiting
  <2> SUFFICES ASSUME NEW q \in Requests, task'[q].pc \in BeforeInsert PROVE task[q].pc \in BeforeInsert
    BY <1>1 DEF Waiting
  <2>1. CASE q = r
    BY <2>1, StepNearer DEF Nearer
  <2>2. CASE q # r
    BY <1>a, <2>2, OthersKeep
  <2> QED
    BY <2>1, <2>2
<1>3. IsFiniteSet(Waiting) /\ Cardinality(Waiting) \in Nat /\ n + Cardinality(Waiting) <= begun
  BY <1>b, WaitingIsFinite DEF RoomFor
<1>4. IsFiniteSet(Waiting') /\ Cardinality(Waiting') <= Cardinality(Waiting) /\ Cardinality(Waiting') \in Nat
  BY <1>2, <1>3, FS_Subset, FS_CardinalityType
<1>5. ASSUME NEW q \in Requests, task'[q].pc \in BeforeInsert, NEW f \in Flows
      PROVE  task'[q].insert[f][2] <= n + 1
  <2>0. q \in Waiting /\ task[q] \in TaskType
    BY <1>1, <1>2, <1>5 DEF CoreInv, Shapes
  <2>1. task[q].insert[f][2] <= n + 1
    BY <1>b, <2>0 DEF RoomFor
  <2>2. CASE task'[q].insert = task[q].insert
    BY <2>1, <2>2
  <2>3. CASE task'[q].insert # task[q].insert
    <3>1. q = r
      BY <1>a, <2>3, OthersKeep
    <3>2. PICK g \in task[r].todo, v \in Versions :
             /\ task[r].pc = "flow" /\ task'[r].insert = [task[r].insert EXCEPT ![g] = v]
             /\ v = NextVersion(r, g) \/ v[2] = 1
      BY <1>5, <2>3, <3>1, StepNearer DEF Nearer
    <3>3. v[2] <= n + 1
      <4>1. CASE v = NextVersion(r, g)
        BY <1>b, <3>2, <4>1, RoomForVersion DEF At
      <4>2. CASE v[2] = 1
        BY <1>c, <4>2
      <4> QED
        BY <3>2, <4>1, <4>2
    <3>4. task[r].insert \in [Flows -> Versions \cup {NoVersion}]
      BY <2>0, <3>1, FieldsOfTask
    <3>5. task'[r].insert[f] = IF f = g THEN v ELSE task[r].insert[f]
      BY <3>2, <3>4
    <3> QED
      BY <2>1, <3>1, <3>3, <3>5
  <2> QED
    BY <2>2, <2>3
<1>6. \A x \in Used : /\ row'[x].version = row[x].version
                      /\ row[x].version \in Versions /\ row[x].version[2] <= n
  BY <1>a, <1>b, RowsKeep DEF RoomFor, Used
<1>7. CASE ~Insert(r)
  <2>1. ASSUME NEW x \in Rows, x \notin Used PROVE row'[x] = row[x]
    <3>1. CASE At(r, "insert")
      BY <1>7, <3>1, AtInsert, LeavesDoes
    <3>2. CASE ~At(r, "insert")
      BY <1>a, <2>1, <3>2, RowsKeep
    <3> QED
      BY <3>1, <3>2
  <2>2. Used' = Used
    <3>1. Used' = {x \in Rows : row'[x].state # "none"}
      BY DEF Used, Rows
    <3>2. \A x \in Used : x \in Used'
      BY <1>a, RowsKeep DEF Used
    <3>3. \A x \in Rows : x \notin Used => x \notin Used'
      BY <2>1, <3>1 DEF Used
    <3> QED
      BY <3>1, <3>2, <3>3 DEF Used
  <2>3. n + Cardinality(Waiting') <= begun'
    BY <1>c, <1>3, <1>4
  <2>4. \E k \in 0..NumFlows * n : Used' = 1..k
    BY <1>b, <2>2 DEF RoomFor
  <2>5. RoomFor(n)'
    BY <1>1, <1>5, <1>6, <2>2, <2>3, <2>4 DEF RoomFor, Waiting, Versions, Flows
  <2> QED
    BY <1>b, <2>5 DEF Room
<1>8. CASE Insert(r)
  <2>1. /\ \E k \in 0..(NumFlows * (n + 1)) : Used' = 1..k
        /\ n + 1 <= MaxRequests
        /\ \A z \in Rows \ Used : row'[z] = row[z] \/ \E f \in task[r].flows : row'[z] = NewRowOf(r, f)
    BY <1>8, <1>b, InsertRows
  <2>2. task'[r].pc = "deactivate" /\ task[r].pc = "insert" /\ r \in Waiting
    BY <1>8, InsertDoes DEF Then, At, Waiting, BeforeInsert, Loop
  <2>3. Waiting' \subseteq Waiting \ {r}
    BY <1>1, <1>2, <2>2 DEF BeforeInsert, Loop
  <2>4. Cardinality(Waiting \ {r}) = Cardinality(Waiting) - 1 /\ IsFiniteSet(Waiting \ {r})
    BY <1>3, <2>2, FS_RemoveElement
  <2>5. Cardinality(Waiting') <= Cardinality(Waiting) - 1
    BY <2>3, <2>4, FS_Subset
  <2>6. (n + 1) + Cardinality(Waiting') <= begun'
    BY <1>c, <1>3, <1>4, <2>5
  <2>7. ASSUME NEW x \in Used' PROVE row'[x].version \in Versions /\ row'[x].version[2] <= n + 1
    <3>0. x \in Rows /\ row'[x].state # "none"
      BY <2>7 DEF Used, Rows
    <3>1. CASE x \in Used
      <4>1. row'[x].version \in Versions /\ row'[x].version[2] <= n
        BY <1>6, <3>1
      <4>2. row'[x].version[2] \in Nat
        BY <4>1, VersionsArePairs
      <4> QED
        BY <1>c, <4>1, <4>2
    <3>2. CASE x \notin Used
      <4>1. PICK f \in task[r].flows : row'[x] = NewRowOf(r, f)
        BY <2>1, <3>0, <3>2 DEF Used
      <4>2. RequestFits(r) /\ task[r] \in TaskType
        BY DEF CoreInv, AllFit, Shapes
      <4>3. f \in Chosen(r) /\ f \in Flows
        BY <2>2, <4>2, FieldsOfTask DEF RequestFits, Chosen, Deploys, Loop
      <4>4. task[r].insert[f] \in Versions /\ task[r].insert[f][2] <= n + 1
        BY <1>b, <2>2, <4>2, <4>3 DEF RequestFits, RoomFor
      <4> QED
        BY <4>1, <4>4 DEF NewRowOf
    <3> QED
      BY <3>1, <3>2
  <2>8. ASSUME NEW q \in Requests, task'[q].pc \in BeforeInsert, NEW f \in Flows
        PROVE  task'[q].insert[f][2] <= (n + 1) + 1
    <3>1. task'[q].insert[f][2] <= n + 1
      BY <1>5, <2>8
    <3>2. task'[q].insert \in [Flows -> Versions \cup {NoVersion}]
      <4>1. task'[q] \in TaskType
        BY <1>a DEF Frame, Own, Over
      <4> QED
        BY <4>1, FieldsOfTask
    <3>3. task'[q].insert[f][2] \in Nat
      BY <3>2, VersionsArePairs
    <3> QED
      BY <1>c, <3>1, <3>3
  <2>9. RoomFor(n + 1)'
    BY <1>1, <2>1, <2>6, <2>7, <2>8 DEF RoomFor, Waiting, Versions, Flows
  <2>10. n + 1 \in 0..MaxRequests
    BY <1>c, <2>1, RequestsAssumption
  <2> QED
    BY <2>9, <2>10 DEF Room
<1> QED
  BY <1>7, <1>8

LEMMA CoreThen == ASSUME CoreInv, NEW r \in Requests, Step(r) PROVE CoreInv'
<1>1. Frame(r)
  BY StepFrame
<1>2. ASSUME NEW q \in Requests PROVE RequestFits(q)'
  BY <1>1, OwnFits, OthersFit
<1>3. AllFit'
  BY <1>2 DEF AllFit, Requests
<1> QED
  BY <1>1, <1>3, TypesThen, ApartThen, RoomThen DEF CoreInv

(***************************************************************************)
(* CoreInv is inductive: a request begins.                                 *)
(***************************************************************************)

\* The locals of a request that begins.
Fresh(t, marked) ==
    /\ t \in TaskType /\ t.alone = {} /\ t.todo = t.flows /\ t.old = {}
    /\ t.insert = [f \in Flows |-> NoVersion]
    /\ t.pc \in PlacesOf[t.kind] /\ t.pc \in {"confirm", "flow", "files", "configFiles"}
    /\ t.pc = "files" => t.flows = {} /\ t.kind = "deleteFlow" /\ \A x \in t.targets : x \in Used
    /\ t.kind = "preBuilt" => t.flows # {}
    /\ t.kind = "deleteFlow" => \E x \in Rows : t.targets = {x} /\ x \in Used
    /\ t.kind = "deleteConfig" => t.flow \in Flows
    /\ t.given \in {NoVersion, <<"int", 1>>} /\ (t.given # NoVersion => t.flows \subseteq marked)
    /\ t.kind = "deploy" => \A x \in Missing(t.flows, t.single) : row[x].flow \in t.shown

LEMMA RequestedIsFresh ==
    ASSUME CoreInv, Requested
    PROVE  \E t, marked : Fresh(t, marked) /\ Begin(t, marked)
<1>0. /\ NoVersion \in Versions \cup {NoVersion} /\ Idle.insert = [f \in Flows |-> NoVersion]
      /\ Idle.insert \in [Flows -> Versions \cup {NoVersion}]
  BY DEF Idle
<1>1. ASSUME NEW flows \in SUBSET Flows, NEW single \in BOOLEAN,
             NEW given \in {NoVersion, <<"int", 1>>}, StartDeploy(flows, single, given)
      PROVE  \E t, marked : Fresh(t, marked) /\ Begin(t, marked)
  <2> DEFINE shown == {row[x].flow : x \in Missing(flows, single)}
  <2> DEFINE t == [Idle EXCEPT !.kind = "deploy", !.flows = flows, !.todo = flows,
                               !.given = given, !.single = single, !.pc = "confirm",
                               !.shown = shown]
  <2> DEFINE marked == IF given = NoVersion THEN {} ELSE flows
  <2>1. Begin(t, marked)
    BY <1>1 DEF StartDeploy
  <2>2. shown \subseteq Flows
    <3>1. \A x \in Missing(flows, single) : x \in Used
      BY DEF Missing, CustomRows, Used
    <3> QED
      BY <3>1, UsedHasFlow
  <2>3. begun + 1 \in Requests
    BY <2>1 DEF Begin
  <2>4. <<"int", 1>> \in Versions
    <3>1. 1 \in 1..MaxRequests
      BY <2>3, RequestsAssumption DEF Requests, CoreInv, TypeOK
    <3> QED
      BY <3>1 DEF Versions
  <2>5. \A x \in Missing(flows, single) : row[x].flow \in shown
    OBVIOUS
  <2> HIDE DEF shown
  <2>6. /\ t.kind = "deploy" /\ t.flows = flows /\ t.todo = flows /\ t.given = given
        /\ t.single = single /\ t.pc = "confirm" /\ t.shown = shown /\ t.flow = NoFlow
        /\ t.insert = [f \in Flows |-> NoVersion] /\ t.old = {} /\ t.targets = {} /\ t.alone = {}
    BY DEF Idle
  <2>7. t \in TaskType
    BY <1>0, <2>2, <2>4 DEF Idle, TaskType, Kinds, Locations
  <2>8. given # NoVersion => flows \subseteq marked
    OBVIOUS
  <2> HIDE DEF t, marked
  <2>9. Fresh(t, marked)
    BY <2>5, <2>6, <2>7, <2>8 DEF Fresh, PlacesOf, BeforeInsert
  <2> QED
    BY <2>1, <2>9
<1>2. ASSUME NEW f \in Flows, DeployPreBuilt(f)
      PROVE  \E t, marked : Fresh(t, marked) /\ Begin(t, marked)
  <2> DEFINE t == [Idle EXCEPT !.kind = "preBuilt", !.flows = {f}, !.todo = {f}, !.pc = "flow"]
  <2>1. Begin(t, {})
    BY <1>2 DEF DeployPreBuilt
  <2>2. /\ t.kind = "preBuilt" /\ t.flows = {f} /\ t.todo = {f} /\ t.given = NoVersion
        /\ t.pc = "flow" /\ t.insert = [g \in Flows |-> NoVersion] /\ t.old = {} /\ t.alone = {}
    BY DEF Idle
  <2>3. t \in TaskType
    BY <1>0 DEF Idle, TaskType, Kinds, Locations
  <2> HIDE DEF t
  <2>4. Fresh(t, {})
    BY <2>2, <2>3 DEF Fresh, PlacesOf, Loop
  <2> QED
    BY <2>1, <2>4
<1>3. ASSUME NEW x \in Rows, DeleteFlow(x)
      PROVE  \E t, marked : Fresh(t, marked) /\ Begin(t, marked)
  <2> DEFINE t == [Idle EXCEPT !.kind = "deleteFlow", !.targets = {x}, !.pc = "files"]
  <2>1. Begin(t, {}) /\ x \in Used
    BY <1>3 DEF DeleteFlow, Used
  <2>2. /\ t.kind = "deleteFlow" /\ t.flows = {} /\ t.todo = {} /\ t.given = NoVersion
        /\ t.pc = "files" /\ t.insert = [g \in Flows |-> NoVersion] /\ t.old = {} /\ t.alone = {}
        /\ t.targets = {x}
    BY DEF Idle
  <2>3. t \in TaskType
    BY <1>0 DEF Idle, TaskType, Kinds, Locations
  <2> HIDE DEF t
  <2>4. Fresh(t, {})
    BY <2>1, <2>2, <2>3 DEF Fresh, PlacesOf
  <2> QED
    BY <2>1, <2>4
<1>4. ASSUME NEW f \in Flows, DeleteProviderConfig(f)
      PROVE  \E t, marked : Fresh(t, marked) /\ Begin(t, marked)
  <2> DEFINE t == [Idle EXCEPT !.kind = "deleteConfig", !.flow = f, !.pc = "configFiles"]
  <2>1. Begin(t, {})
    BY <1>4 DEF DeleteProviderConfig
  <2>2. /\ t.kind = "deleteConfig" /\ t.flows = {} /\ t.todo = {} /\ t.given = NoVersion
        /\ t.pc = "configFiles" /\ t.insert = [g \in Flows |-> NoVersion] /\ t.old = {}
        /\ t.alone = {} /\ t.flow = f
    BY DEF Idle
  <2>3. t \in TaskType
    BY <1>0 DEF Idle, TaskType, Kinds, Locations
  <2> HIDE DEF t
  <2>4. Fresh(t, {})
    BY <2>2, <2>3 DEF Fresh, PlacesOf
  <2> QED
    BY <2>1, <2>4
<1> QED
  BY <1>1, <1>2, <1>3, <1>4 DEF Requested

LEMMA FreshTouches ==
    ASSUME CoreInv, NEW t, NEW marked, Fresh(t, marked)
    PROVE  Touches(t) \subseteq Flows
<1>1. t.flows \subseteq Flows /\ t.kind \in Kinds /\ t.kind # "none"
  BY FieldsOfTask DEF Fresh, PlacesOf
<1>2. t.kind = "deleteFlow" => {row[x].flow : x \in t.targets} \subseteq Flows
  BY UsedHasFlow DEF Fresh
<1> QED
  BY <1>1, <1>2, TouchesOf DEF Kinds, Fresh

\* The new request, the others, and what they share.
Began(r, t, marked) ==
    /\ r = begun + 1 /\ begun' = r /\ mishaps' \in 0..MaxMishaps
    /\ UNCHANGED <<row, file, source, configs>>
    /\ task' \in [Requests -> TaskType]
    /\ task[r] = Idle /\ task'[r] = [t EXCEPT !.alone = task'[r].alone]
    /\ task'[r].alone \subseteq Touches(t)
    /\ \A q \in Requests : q # r =>
          /\ task'[q].kind = task[q].kind /\ task'[q].pc = task[q].pc
          /\ task'[q].flows = task[q].flows /\ task'[q].todo = task[q].todo
          /\ task'[q].given = task[q].given /\ task'[q].single = task[q].single
          /\ task'[q].flow = task[q].flow /\ task'[q].insert = task[q].insert
          /\ task'[q].old = task[q].old /\ task'[q].targets = task[q].targets
          /\ task'[q].shown = task[q].shown /\ task'[q].alone \subseteq task[q].alone
          /\ task[q] = Idle => task'[q] = Idle
    /\ muddle' \in [Flows -> SUBSET Reasons]
    /\ \A f \in Flows : /\ muddle[f] \subseteq muddle'[f]
                        /\ f \in marked => "given" \in muddle'[f]
    /\ \A q \in Requests : q # r /\ task[q].pc # "idle" =>
          \A f \in Touches(t) \cap Touches(task[q]) :
             "overlap" \in muddle'[f] /\ f \notin task'[q].alone /\ f \notin task'[r].alone

LEMMA BeginDoes ==
    ASSUME CoreInv, NEW t, NEW marked, Fresh(t, marked), Begin(t, marked)
    PROVE  \E r \in Requests : Began(r, t, marked)
<1> DEFINE r == begun + 1
<1> DEFINE Shared(q) == Touches(t) \cap Touches(task[q])
<1> DEFINE shared == UNION {Shared(q) : q \in Running}
<1>1. /\ r \in Requests /\ begun' = r /\ UNCHANGED <<row, file, source, configs>>
      /\ mishaps' = mishaps + Cardinality(Running) /\ mishaps' <= MaxMishaps
      /\ task' = [q \in Requests |->
                    IF q = r THEN [t EXCEPT !.alone = Touches(t) \ shared]
                    ELSE IF q \in Running THEN [task[q] EXCEPT !.alone = @ \ Shared(q)]
                    ELSE task[q]]
      /\ muddle' = [f \in Flows |-> muddle[f]
                      \cup (IF f \in shared THEN {"overlap"} ELSE {})
                      \cup (IF f \in marked THEN {"given"} ELSE {})]
  BY DEF Begin
<1>2. t \in TaskType /\ Touches(t) \subseteq Flows
  BY FreshTouches DEF Fresh
<1>3. \A q \in Requests : task[q] \in TaskType
  BY DEF CoreInv, Shapes
<1>4. \A q \in Running : Shared(q) \subseteq shared
  OBVIOUS
<1> HIDE DEF Shared, shared
<1>5. [t EXCEPT !.alone = Touches(t) \ shared] \in TaskType
  BY <1>2 DEF TaskType
<1>6. \A q \in Requests : [task[q] EXCEPT !.alone = @ \ Shared(q)] \in TaskType
  BY <1>3 DEF TaskType
<1>7. task' \in [Requests -> TaskType]
  BY <1>1, <1>3, <1>5, <1>6
<1>8. mishaps' \in 0..MaxMishaps
  <2>1. IsFiniteSet(Requests) /\ Running \subseteq Requests
    BY FS_Interval, RequestsAssumption DEF Requests, Running
  <2>2. Cardinality(Running) \in Nat
    BY <2>1, FS_Subset, FS_CardinalityType
  <2>3. mishaps \in 0..MaxMishaps
    BY DEF CoreInv, TypeOK
  <2> QED
    BY <1>1, <2>2, <2>3, MishapsAssumption
<1>9. task[r] = Idle
  <2>1. ~(r <= begun)
    BY RequestsAssumption DEF CoreInv, TypeOK
  <2>2. RequestFits(r)
    BY <1>1 DEF CoreInv, AllFit
  <2> QED
    BY <2>1, <2>2 DEF RequestFits
<1>10. task'[r] = [t EXCEPT !.alone = Touches(t) \ shared] /\ task'[r].alone = Touches(t) \ shared
  BY <1>1, <1>2 DEF TaskType
<1>11. ASSUME NEW q \in Requests, q # r
       PROVE  /\ task'[q].kind = task[q].kind /\ task'[q].pc = task[q].pc
              /\ task'[q].flows = task[q].flows /\ task'[q].todo = task[q].todo
              /\ task'[q].given = task[q].given /\ task'[q].single = task[q].single
              /\ task'[q].flow = task[q].flow /\ task'[q].insert = task[q].insert
              /\ task'[q].old = task[q].old /\ task'[q].targets = task[q].targets
              /\ task'[q].shown = task[q].shown /\ task'[q].alone \subseteq task[q].alone
              /\ task[q] = Idle => task'[q] = Idle
              /\ q \in Running => task'[q].alone = task[q].alone \ Shared(q)
  <2>1. CASE q \in Running
    <3>1. task'[q] = [task[q] EXCEPT !.alone = task[q].alone \ Shared(q)] /\ task[q] # Idle
      BY <1>1, <1>11, <2>1 DEF Running
    <3> QED
      BY <1>3, <3>1 DEF TaskType
  <2>2. CASE q \notin Running
    BY <1>1, <1>11, <2>2
  <2> QED
    BY <2>1, <2>2
<1>12. /\ muddle' \in [Flows -> SUBSET Reasons]
       /\ \A f \in Flows : /\ muddle[f] \subseteq muddle'[f]
                           /\ f \in marked => "given" \in muddle'[f]
                           /\ f \in shared => "overlap" \in muddle'[f]
  BY <1>1 DEF CoreInv, TypeOK, Reasons
<1>13. ASSUME NEW q \in Requests, q # r, task[q].pc # "idle", NEW f \in Touches(t) \cap Touches(task[q])
       PROVE  "overlap" \in muddle'[f] /\ f \notin task'[q].alone /\ f \notin task'[r].alone
  <2>1. q \in Running /\ f \in Shared(q) /\ f \in Flows
    BY <1>2, <1>13, TouchesWhat DEF Shared
  <2>2. f \in shared
    BY <1>4, <2>1
  <2> QED
    BY <1>10, <1>11, <1>12, <1>13, <2>1, <2>2
<1>14. r \in Requests /\ r = begun + 1 /\ begun' = r /\ UNCHANGED <<row, file, source, configs>>
  BY <1>1
<1>15. task'[r] = [t EXCEPT !.alone = task'[r].alone] /\ task'[r].alone \subseteq Touches(t)
  BY <1>10
<1> HIDE DEF r
<1>16. \A q \in Requests : q # r =>
          /\ task'[q].kind = task[q].kind /\ task'[q].pc = task[q].pc
          /\ task'[q].flows = task[q].flows /\ task'[q].todo = task[q].todo
          /\ task'[q].given = task[q].given /\ task'[q].single = task[q].single
          /\ task'[q].flow = task[q].flow /\ task'[q].insert = task[q].insert
          /\ task'[q].old = task[q].old /\ task'[q].targets = task[q].targets
          /\ task'[q].shown = task[q].shown /\ task'[q].alone \subseteq task[q].alone
          /\ task[q] = Idle => task'[q] = Idle
  BY <1>11
<1>17. \A f \in Flows : muddle[f] \subseteq muddle'[f] /\ (f \in marked => "given" \in muddle'[f])
  BY <1>12
<1>18. \A q \in Requests : q # r /\ task[q].pc # "idle" =>
          \A f \in Touches(t) \cap Touches(task[q]) :
             "overlap" \in muddle'[f] /\ f \notin task'[q].alone /\ f \notin task'[r].alone
  BY <1>13
<1>19. muddle' \in [Flows -> SUBSET Reasons]
  BY <1>12
<1> QED
  BY ZenonT(60), <1>7, <1>8, <1>9, <1>14, <1>15, <1>16, <1>17, <1>18, <1>19 DEF Began

LEMMA CoreBegins ==
    ASSUME CoreInv, NEW t, NEW marked, Fresh(t, marked), NEW r \in Requests, Began(r, t, marked)
    PROVE  CoreInv'
<1>1. /\ r = begun + 1 /\ begun' = r /\ mishaps' \in 0..MaxMishaps
      /\ UNCHANGED <<row, file, source, configs>>
      /\ task' \in [Requests -> TaskType]
      /\ task[r] = Idle /\ task'[r].alone \subseteq Touches(t)
      /\ muddle' \in [Flows -> SUBSET Reasons]
      /\ \A f \in Flows : muddle[f] \subseteq muddle'[f] /\ (f \in marked => "given" \in muddle'[f])
  BY DEF Began
<1>2. \A q \in Requests : q # r =>
         /\ task'[q].kind = task[q].kind /\ task'[q].pc = task[q].pc
         /\ task'[q].flows = task[q].flows /\ task'[q].todo = task[q].todo
         /\ task'[q].given = task[q].given /\ task'[q].single = task[q].single
         /\ task'[q].flow = task[q].flow /\ task'[q].insert = task[q].insert
         /\ task'[q].old = task[q].old /\ task'[q].targets = task[q].targets
         /\ task'[q].shown = task[q].shown /\ task'[q].alone \subseteq task[q].alone
         /\ task[q] = Idle => task'[q] = Idle
  BY DEF Began
<1>3. \A q \in Requests : q # r /\ task[q].pc # "idle" =>
         \A f \in Touches(t) \cap Touches(task[q]) :
            "overlap" \in muddle'[f] /\ f \notin task'[q].alone /\ f \notin task'[r].alone
  BY DEF Began
<1>4. /\ task'[r].kind = t.kind /\ task'[r].pc = t.pc /\ task'[r].flows = t.flows
      /\ task'[r].todo = t.todo /\ task'[r].given = t.given /\ task'[r].single = t.single
      /\ task'[r].flow = t.flow /\ task'[r].insert = t.insert /\ task'[r].old = t.old
      /\ task'[r].targets = t.targets /\ task'[r].shown = t.shown
  <2>1. task'[r] = [t EXCEPT !.alone = task'[r].alone] /\ t \in TaskType
    BY DEF Began, Fresh
  <2> QED
    BY <2>1 DEF TaskType
<1>5. /\ t \in TaskType /\ t.todo = t.flows /\ t.old = {} /\ t.insert = [f \in Flows |-> NoVersion]
      /\ t.pc \in PlacesOf[t.kind] /\ t.pc \in {"confirm", "flow", "files", "configFiles"}
      /\ t.pc = "files" => t.flows = {} /\ t.kind = "deleteFlow" /\ \A x \in t.targets : x \in Used
      /\ t.kind = "preBuilt" => t.flows # {}
      /\ t.kind = "deleteFlow" => \E x \in Rows : t.targets = {x} /\ x \in Used
      /\ t.kind = "deleteConfig" => t.flow \in Flows
      /\ t.given \in {NoVersion, <<"int", 1>>} /\ (t.given # NoVersion => t.flows \subseteq marked)
  BY DEF Fresh
<1>a. /\ \A q \in Requests : RequestFits(q) /\ task[q] \in TaskType
      /\ begun \in Nat /\ begun <= MaxRequests /\ r <= MaxRequests /\ r \in Nat
  BY RequestsAssumption DEF CoreInv, AllFit, Shapes, TypeOK, Requests
<1>6. TypeOK' /\ Shapes'
  <2>1. begun' \in 0..MaxRequests
    BY <1>1, <1>a
  <2>2. \A q \in Requests : task'[q] \in TaskType
    BY <1>1
  <2>3. Shapes'
    BY <1>1 DEF CoreInv, Shapes, TaskType, RowType, Rows, Requests, Versions, Flows
  <2>4. TypeOK'
    BY <1>1, <2>1, <2>2 DEF CoreInv, TypeOK, TaskType, RowType, Rows, Requests, Versions, Flows
  <2> QED
    BY <2>3, <2>4
<1>7. Used' = Used
  BY <1>1 DEF Used, Rows
<1>8. Touches(task[r])' = Touches(t)
  <2>1. t.kind \in Kinds \ {"none"}
    BY <1>5, FieldsOfTask DEF PlacesOf
  <2>2. CASE t.kind = "deploy"
    BY <1>4, <2>2, TouchesOf, TouchesThen
  <2>3. CASE t.kind = "preBuilt"
    BY <1>4, <2>3, TouchesOf, TouchesThen
  <2>4. CASE t.kind = "deleteFlow"
    <3>1. {row'[x].flow : x \in task'[r].targets} = {row[x].flow : x \in t.targets}
      BY <1>1, <1>4
    <3> QED
      BY <1>4, <2>4, <3>1, TouchesOf, TouchesThen
  <2>5. CASE t.kind = "deleteConfig"
    BY ZenonT(60), <1>4, <2>5, TouchesOf, TouchesThen
  <2> QED
    BY <2>1, <2>2, <2>3, <2>4, <2>5 DEF Kinds
<1>9. ASSUME NEW q \in Requests, q # r, task[q].pc # "idle"
      PROVE  Touches(task[q])' = Touches(task[q])
  <2>0. /\ task'[q].kind = task[q].kind /\ task'[q].flows = task[q].flows
        /\ task'[q].single = task[q].single /\ task'[q].flow = task[q].flow
        /\ task'[q].targets = task[q].targets
    BY <1>2, <1>9
  <2>1. task[q].kind \in Kinds \ {"none"}
    BY <1>9, <1>a, KindsOfPlaces DEF TaskType
  <2>2. CASE task[q].kind = "deploy"
    BY <2>0, <2>2, TouchesOf, TouchesThen
  <2>3. CASE task[q].kind = "preBuilt"
    BY <2>0, <2>3, TouchesOf, TouchesThen
  <2>4. CASE task[q].kind = "deleteFlow"
    <3>1. {row'[x].flow : x \in task'[q].targets} = {row[x].flow : x \in task[q].targets}
      BY <1>1, <2>0
    <3> QED
      BY <2>0, <2>4, <3>1, TouchesOf, TouchesThen
  <2>5. CASE task[q].kind = "deleteConfig"
    BY <2>0, <2>5, TouchesOf, TouchesThen
  <2> QED
    BY <2>1, <2>2, <2>3, <2>4, <2>5 DEF Kinds
<1>10. ASSUME NEW q \in Requests, q # r PROVE RequestFits(q)'
  <2>1. Chosen(q)' = Chosen(q)
    BY <1>2, <1>10 DEF Chosen, Deploys, Loop
  <2>2. \A f \in task[q].flows : muddle[f] \subseteq muddle'[f]
    BY <1>1, <1>a, FieldsOfTask
  <2>3. /\ task'[q].kind = task[q].kind /\ task'[q].pc = task[q].pc
        /\ task'[q].flows = task[q].flows /\ task'[q].todo = task[q].todo
        /\ task'[q].given = task[q].given /\ task'[q].single = task[q].single
        /\ task'[q].flow = task[q].flow /\ task'[q].insert = task[q].insert
        /\ task'[q].old = task[q].old /\ task'[q].targets = task[q].targets
        /\ task'[q].alone \subseteq task[q].alone
        /\ task[q] = Idle => task'[q] = Idle
    BY <1>2, <1>10
  <2>4. RequestFits(q)
    BY <1>a
  <2>5. q <= begun => q <= begun'
    BY <1>1, <1>a DEF Requests
  <2>6. task[q].pc # "idle" => Touches(task[q])' = Touches(task[q])
    BY <1>9, <1>10
  <2> QED
    BY <1>1, <1>7, <2>1, <2>2, <2>3, <2>4, <2>5, <2>6
       DEF RequestFits, Rows, Flows, Versions, NoVersion
<1>11. RequestFits(r)'
  <2>1. Chosen(r)' = {}
    BY <1>4, <1>5 DEF Chosen, Deploys, Loop
  <2>2. /\ t.pc # "idle" /\ t.pc \notin {"upload", "source", "lastSource", "old"}
        /\ t.pc \notin {"insert", "deactivate", "reconcile", "row"}
        /\ t.pc = "files" => t.todo = {} /\ t.kind # "deploy"
    BY <1>5
  <2>3. \A f \in t.flows : f \in Flows
    BY <1>5, FieldsOfTask
  <2>4. r <= begun'
    BY <1>1, <1>a
  <2> QED
    BY <1>1, <1>4, <1>5, <1>7, <1>8, <2>1, <2>2, <2>3, <2>4
       DEF RequestFits, Rows, Flows, Versions, NoVersion
<1>12. AllFit'
  BY <1>10, <1>11 DEF AllFit, Requests
<1>13. Apart'
  <2> SUFFICES ASSUME NEW p \in Requests, NEW q \in Requests, p # q,
                      task'[p] # Idle, task'[q] # Idle,
                      NEW f \in Touches(task[p])' \cap Touches(task[q])'
               PROVE  "overlap" \in muddle'[f] /\ f \notin task'[p].alone
    BY DEF Apart, Running, Requests, Idle, Flows, NoVersion, NoFlow
  <2>1. \A a \in Requests : a # r /\ task'[a] # Idle => task[a].pc # "idle"
    BY <1>2, KindsOfPlaces
  <2>2. CASE p = r
    BY <1>3, <1>8, <1>9, <2>1, <2>2
  <2>3. CASE q = r
    BY <1>3, <1>8, <1>9, <2>1, <2>3
  <2>4. CASE p # r /\ q # r
    <3>1. f \in Touches(task[p]) \cap Touches(task[q]) /\ task[p].pc # "idle" /\ task[q].pc # "idle"
      BY <1>9, <2>1, <2>4
    <3>2. "overlap" \in muddle[f] /\ f \notin task[p].alone /\ f \in Flows
      BY <3>1, TouchedByOne, TouchesWhat
    <3> QED
      BY <1>1, <1>2, <2>4, <3>2
  <2> QED
    BY <2>2, <2>3, <2>4
<1>14. Room'
  <2>1. PICK n \in 0..MaxRequests : RoomFor(n)
    BY DEF CoreInv, Room
  <2>2. IsFiniteSet(Waiting) /\ Cardinality(Waiting) \in Nat
    BY WaitingIsFinite
  <2>3. Waiting' \subseteq Waiting \cup {r}
    BY <1>2 DEF Waiting, BeforeInsert, Loop, Requests
  <2>4. IsFiniteSet(Waiting \cup {r}) /\ Cardinality(Waiting \cup {r}) <= Cardinality(Waiting) + 1
        /\ Cardinality(Waiting \cup {r}) \in Nat
    <3>1. /\ IsFiniteSet(Waiting \cup {r})
          /\ Cardinality(Waiting \cup {r}) = IF r \in Waiting THEN Cardinality(Waiting)
                                             ELSE Cardinality(Waiting) + 1
      BY <2>2, FS_AddElement
    <3> QED
      BY <2>2, <3>1
  <2>5. Cardinality(Waiting') <= Cardinality(Waiting \cup {r}) /\ Cardinality(Waiting') \in Nat
    BY <2>3, <2>4, FS_Subset, FS_CardinalityType
  <2>6. n + Cardinality(Waiting') <= begun'
    BY <1>1, <1>a, <2>1, <2>2, <2>4, <2>5 DEF RoomFor
  <2>7. ASSUME NEW q \in Waiting', NEW f \in Flows PROVE task'[q].insert[f][2] <= n + 1
    <3>1. CASE q = r
      <4>1. task'[q].insert[f] = NoVersion /\ NoVersion[2] = 0
        BY <1>4, <1>5, <3>1 DEF NoVersion
      <4> QED
        BY <4>1
    <3>2. CASE q # r
      BY <1>2, <2>1, <2>3, <2>7, <3>2 DEF RoomFor, Waiting
    <3> QED
      BY <3>1, <3>2
  <2>8. RoomFor(n)'
    BY <1>1, <1>7, <2>1, <2>6, <2>7 DEF RoomFor, Versions, Flows
  <2> QED
    BY <2>8 DEF Room
<1> QED
  BY <1>6, <1>12, <1>13, <1>14 DEF CoreInv

LEMMA CoreInit == ASSUME Init PROVE CoreInv
<1>1. /\ row = [x \in Rows |-> NewRow] /\ file = [fv \in Flows \X Versions |-> NoFile]
      /\ source = [f \in Flows |-> NoFile] /\ configs = Flows
      /\ task = [r \in Requests |-> Idle] /\ begun = 0 /\ mishaps = 0
      /\ muddle = [f \in Flows |-> {}]
  BY DEF Init
<1>2. NewRow \in RowType /\ NewRow.state = "none" /\ NewRow.flow = NoFlow
  BY DEF NewRow, RowType
<1>3. file \in [Flows \X Versions -> Requests \cup {NoFile}]
  BY <1>1
<1>4. 0 \in 0..MaxRequests /\ 0 \in 0..MaxMishaps
  BY RequestsAssumption, MishapsAssumption
<1>5. TypeOK
  BY <1>1, <1>2, <1>3, <1>4, IdleIsTask DEF TypeOK
<1>6. Shapes
  BY <1>1, <1>2, IdleIsTask DEF Shapes
<1>7. AllFit
  <2> SUFFICES ASSUME NEW r \in Requests PROVE RequestFits(r)
    BY DEF AllFit
  <2>1. task[r] = Idle /\ Idle.pc = "idle" /\ Idle.kind = "none" /\ Idle.todo = {}
        /\ Idle.flows = {} /\ Idle.given = NoVersion
    BY <1>1 DEF Idle
  <2>2. Chosen(r) = {}
    BY <2>1 DEF Chosen, Deploys, Loop
  <2>3. "idle" \in PlacesOf["none"]
    BY DEF PlacesOf
  <2> QED
    BY <2>1, <2>2, <2>3 DEF RequestFits, Deploys, Loop, NoVersion, Idle
<1>8. Apart
  BY <1>1 DEF Apart, Running
<1>9. Room
  <2>1. Waiting = {} /\ Used = {}
    BY <1>1, <1>2, IdleIsTask DEF Waiting, BeforeInsert, Loop, Used
  <2>2. Cardinality({}) = 0 /\ {} = 1..0
    BY FS_EmptySet
  <2>3. 0 \in 0..NumFlows * 0
    BY FlowsAssumption
  <2>4. 0 + Cardinality(Waiting) <= begun
    BY <1>1, <2>1, <2>2
  <2>5. RoomFor(0)
    BY <2>1, <2>2, <2>3, <2>4 DEF RoomFor
  <2> QED
    BY <1>4, <2>5 DEF Room
<1> QED
  BY <1>5, <1>6, <1>7, <1>8, <1>9 DEF CoreInv

LEMMA CoreStays == ASSUME CoreInv, UNCHANGED vars PROVE CoreInv'
<1> USE DEF Requests, CoreInv, Flows
<1>1. /\ row' = row /\ file' = file /\ source' = source /\ configs' = configs
      /\ task' = task /\ begun' = begun /\ mishaps' = mishaps /\ muddle' = muddle
  BY DEF vars
<1>2. Used' = Used /\ Waiting' = Waiting
  BY <1>1 DEF Used, Waiting, Rows, BeforeInsert, Loop
<1>3. Room'
  BY <1>1, <1>2 DEF Room, RoomFor, Versions
<1>4. Apart'
  <2>1. \A r \in Requests : Touches(task[r])' = Touches(task[r])
    BY <1>1 DEF Touches
  <2> QED
    BY <1>1, <2>1 DEF Apart, Running, Idle, NoVersion, NoFlow
<1>5. AllFit'
  <2> SUFFICES ASSUME NEW r \in Requests PROVE RequestFits(r)'
    BY DEF AllFit
  <2>1. RequestFits(r) /\ Chosen(r)' = Chosen(r) /\ Touches(task[r])' = Touches(task[r])
    BY <1>1 DEF AllFit, Chosen, Deploys, Loop, Touches
  <2>2. Idle' = Idle
    BY DEF Idle, NoVersion, NoFlow
  <2> QED
    BY <1>1, <1>2, <2>1, <2>2 DEF RequestFits, Rows, Versions, NoVersion
<1>6. TypeOK' /\ Shapes'
  BY <1>1 DEF TypeOK, Shapes, TaskType, RowType, Rows, Versions
<1> QED
  BY <1>3, <1>4, <1>5, <1>6

LEMMA CoreSteps == ASSUME CoreInv, [Next]_vars PROVE CoreInv'
<1>1. CASE Requested
  BY <1>1, RequestedIsFresh, BeginDoes, CoreBegins
<1>2. CASE \E r \in Requests : Step(r)
  BY <1>2, CoreThen
<1>3. CASE UNCHANGED vars
  BY <1>3, CoreStays
<1> QED
  BY <1>1, <1>2, <1>3 DEF Next

\* The variables keep their types, and the two halves of a row agree.
THEOREM TypeCorrect == Spec => []TypeOK
<1>1. Init => CoreInv
  BY CoreInit
<1>2. CoreInv /\ [Next]_vars => CoreInv'
  BY CoreSteps
<1>3. CoreInv => TypeOK
  BY DEF CoreInv
<1> QED
  BY <1>1, <1>2, <1>3, PTL DEF Spec

(***************************************************************************)
(* The flows and the requests that a step does not concern.                *)
(***************************************************************************)

\* Nothing has happened to a flow, except to its files.
SameData(f) ==
    /\ ActiveRows(f)' = ActiveRows(f) /\ \A x \in ActiveRows(f) : row'[x] = row[x]
    /\ source'[f] = source[f] /\ (f \in configs => f \in configs')
    /\ muddle[f] \subseteq muddle'[f]

SameFiles(f) == \A v \in Versions : file'[f, v] = file[f, v]
Dropped(f) == "dropped" \in muddle'[f]

\* The locals that tell what a request knows of a flow.
Keeps(q) ==
    LET s == task[q]
        t == task'[q]
    IN  /\ t.pc = s.pc /\ t.flows = s.flows /\ t.todo = s.todo /\ t.flow = s.flow
        /\ t.insert = s.insert /\ t.old = s.old /\ t.alone \subseteq s.alone

LEMMA Cleaner ==
    ASSUME NEW f, muddle[f] \subseteq muddle'[f]
    PROVE  /\ Clean(f, OfActive)' => Clean(f, OfActive)
           /\ Clean(f, OfFile)' => Clean(f, OfFile)
           /\ Clean(f, OfSource)' => Clean(f, OfSource)
           /\ Clean(f, OfConfig)' => Clean(f, OfConfig)
BY DEF Clean, OfActive, OfFile, OfSource, OfConfig

LEMMA NotClean ==
    ASSUME NEW f
    PROVE  /\ "overlap" \in muddle'[f] => /\ ~Clean(f, OfActive)' /\ ~Clean(f, OfFile)'
                                          /\ ~Clean(f, OfSource)' /\ ~Clean(f, OfConfig)'
           /\ "overlap" \in muddle[f] => /\ ~Clean(f, OfActive) /\ ~Clean(f, OfFile)
                                         /\ ~Clean(f, OfSource) /\ ~Clean(f, OfConfig)
           /\ "partial" \in muddle'[f] => ~Clean(f, OfActive)' /\ ~Clean(f, OfSource)'
           /\ "unread" \in muddle'[f] => ~Clean(f, OfActive)' /\ ~Clean(f, OfSource)'
           /\ "versionUnread" \in muddle'[f] => ~Clean(f, OfFile)'
           /\ "given" \in muddle'[f] => ~Clean(f, OfFile)'
           /\ "given" \in muddle[f] => ~Clean(f, OfFile)
           /\ "dropped" \in muddle'[f] => ~Clean(f, OfFile)'
           /\ "ahead" \in muddle'[f] => ~Clean(f, OfSource)'
           /\ "behind" \in muddle'[f] => ~Clean(f, OfSource)'
           /\ Clean(f, OfSource) => Clean(f, OfActive)
BY DEF Clean, OfActive, OfFile, OfSource, OfConfig

LEMMA KnowsLess ==
    ASSUME NEW q, NEW f, task'[q].alone \subseteq task[q].alone, muddle[f] \subseteq muddle'[f]
    PROVE  /\ Knows(q, f, OfActive)' => Knows(q, f, OfActive)
           /\ Knows(q, f, OfFile)' => Knows(q, f, OfFile)
           /\ Knows(q, f, OfSource)' => Knows(q, f, OfSource)
           /\ Knows(q, f, OfConfig)' => Knows(q, f, OfConfig)
BY DEF Knows, Clean, OfActive, OfFile, OfSource, OfConfig

LEMMA FlowSame ==
    ASSUME NEW f \in Flows, FlowInv(f), SameData(f), SameFiles(f) \/ Dropped(f),
           \A x \in ActiveRows(f) : row[x].version \in Versions,
           Inserting(f) => Inserting(f)' \/ "partial" \in muddle'[f],
           \A q \in Requests : f \in Ahead(q) => f \in Ahead(q)' \/ "ahead" \in muddle'[f]
    PROVE  FlowInv(f)'
<1> USE DEF SameData, FlowInv
<1>1. /\ Clean(f, OfActive)' => Clean(f, OfActive)
      /\ Clean(f, OfFile)' => Clean(f, OfFile)
      /\ Clean(f, OfSource)' => Clean(f, OfSource)
      /\ Clean(f, OfConfig)' => Clean(f, OfConfig)
  BY Cleaner
<1>2. OneActive(f)'
  BY <1>1, NotClean DEF OneActive
<1>3. FileThere(f)'
  <2>1. ASSUME Clean(f, OfFile)'
        PROVE  /\ \A x \in ActiveRows(f) : file'[f, row'[x].version] = row'[x].code
               /\ \A x, y \in ActiveRows(f) : x < y => Below(row'[x].version, row'[y].version)
    <3>1. /\ \A x \in ActiveRows(f) : file[f, row[x].version] = row[x].code
          /\ \A x, y \in ActiveRows(f) : x < y => Below(row[x].version, row[y].version)
      BY <1>1, <2>1 DEF FileThere
    <3>2. SameFiles(f)
      BY <2>1, NotClean DEF Dropped
    <3> QED
      BY <3>1, <3>2 DEF SameFiles
  <2> QED
    BY <2>1 DEF FileThere, Below
<1>4. SourceThere(f)'
  BY <1>1, NotClean DEF SourceThere, Requests
<1>5. ConfigThere(f)'
  BY <1>1 DEF ConfigThere
<1> QED
  BY <1>2, <1>3, <1>4, <1>5

LEMMA SetsSame ==
    ASSUME NEW q, Keeps(q)
    PROVE  /\ Chosen(q)' = Chosen(q) /\ Uploaded(q)' = Uploaded(q) /\ Read(q)' = Read(q)
           /\ Sourced(q)' = Sourced(q) /\ Ahead(q)' = Ahead(q)
           /\ \A pc \in Locations : At(q, pc)' <=> At(q, pc)
BY DEF Keeps, Chosen, Uploaded, Read, Sourced, Ahead, At, Deploys, Loop

\* What is read is uploaded, and what is uploaded chosen.
LEMMA SetsNest ==
    ASSUME NEW q, NEW f
    PROVE  /\ f \in Uploaded(q) => f \in Chosen(q)
           /\ f \in Read(q) => f \in Uploaded(q)
BY DEF Chosen, Uploaded, Read

LEMMA KnownSame ==
    ASSUME NEW q \in Requests, NEW f \in Flows, KnownInv(q, f), RequestFits(q), SameData(f), Keeps(q),
           SameFiles(f) \/ (Dropped(f) /\ f \notin task'[q].alone)
    PROVE  KnownInv(q, f)'
<1> USE DEF SameData, KnownInv
<1>1. /\ Knows(q, f, OfActive)' => Knows(q, f, OfActive)
      /\ Knows(q, f, OfFile)' => Knows(q, f, OfFile)
      /\ Knows(q, f, OfSource)' => Knows(q, f, OfSource)
      /\ Knows(q, f, OfConfig)' => Knows(q, f, OfConfig)
  BY KnowsLess DEF Keeps
<1>2. /\ Clean(f, OfFile)' => Clean(f, OfFile)
      /\ Clean(f, OfConfig)' => Clean(f, OfConfig)
  BY Cleaner
<1>3. /\ Chosen(q)' = Chosen(q) /\ Uploaded(q)' = Uploaded(q) /\ Read(q)' = Read(q)
      /\ Sourced(q)' = Sourced(q)
      /\ (At(q, "deactivate")' <=> At(q, "deactivate")) /\ (At(q, "config")' <=> At(q, "config"))
  BY SetsSame DEF Locations
<1>4. f \in Uploaded(q) => task[q].insert[f] \in Versions
  BY SetsNest DEF RequestFits
<1>5. /\ task'[q].flow = task[q].flow /\ task'[q].insert = task[q].insert /\ task'[q].old = task[q].old
  BY DEF Keeps
<1>6. OneLeft(q, f)'
  BY <1>1, <1>3, <1>5 DEF OneLeft
<1>7. NewVersion(q, f)'
  BY <1>2, <1>3, <1>5 DEF NewVersion, Below
<1>8. FileUploaded(q, f)'
  <2>1. CASE SameFiles(f)
    BY <1>1, <1>3, <1>4, <1>5, <2>1 DEF FileUploaded, SameFiles
  <2>2. CASE Dropped(f) /\ f \notin task'[q].alone
    <3>1. ~Knows(q, f, OfFile)'
      BY <2>2, NotClean DEF Knows, Dropped
    <3> QED
      BY <3>1 DEF FileUploaded
  <2> QED
    BY <2>1, <2>2
<1>9. SourceUploaded(q, f)'
  BY <1>1, <1>3 DEF SourceUploaded
<1>10. ConfigSeen(q, f)'
  BY <1>1, <1>3 DEF ConfigSeen
<1>11. RowsGone(q, f)'
  BY <1>2, <1>3, <1>5 DEF RowsGone
<1> QED
  BY <1>6, <1>7, <1>8, <1>9, <1>10, <1>11

(***************************************************************************)
(* What a step does not touch.                                             *)
(***************************************************************************)

\* The flows of a deploy are its own.
LEMMA OwnSets ==
    ASSUME CoreInv, NEW q \in Requests, NEW f \in Flows,
           \/ f \in Chosen(q) \cup Uploaded(q) \cup Read(q) \cup Sourced(q) \cup Ahead(q)
           \/ At(q, "deactivate") /\ f \in task[q].flows
           \/ At(q, "config") /\ task[q].flow = f
    PROVE  task[q].pc # "idle" /\ f \in Touches(task[q])
<1>1. task[q] \in TaskType /\ RequestFits(q)
  BY DEF CoreInv, Shapes, AllFit
<1>2. task[q].pc \in {"upload", "source", "lastSource", "old"} => task[q].flow \in task[q].flows
  BY <1>1 DEF RequestFits
<1>3. CASE At(q, "config") /\ task[q].flow = f
  BY <1>3, TouchesWhat DEF At
<1>4. CASE ~(At(q, "config") /\ task[q].flow = f)
  <2>1. task[q].pc \in Deploys /\ f \in task[q].flows
    BY <1>2, <1>4 DEF Chosen, Uploaded, Read, Sourced, Ahead, At, Deploys, Loop
  <2> QED
    BY <2>1, TouchesWhat DEF Deploys, Loop
<1> QED
  BY <1>3, <1>4

LEMMA OwnSetsThen ==
    ASSUME CoreInv, NEW r \in Requests, Frame(r), AllFit', NEW f \in Flows \ Touches(task[r])
    PROVE  /\ f \notin Chosen(r)' /\ f \notin Uploaded(r)' /\ f \notin Read(r)' /\ f \notin Sourced(r)'
           /\ ~(At(r, "config")' /\ task'[r].flow = f)
<1>1. RequestFits(r)'
  BY DEF AllFit, Requests
<1>2. /\ task'[r].pc \in PlacesOf[task'[r].kind]
      /\ task'[r].pc \in {"upload", "source", "lastSource", "old"} => task'[r].flow \in task'[r].flows
  BY <1>1 DEF RequestFits, PlacesOf, BeforeInsert, Loop
<1>3. CASE task'[r].pc = "idle"
  BY <1>3 DEF Chosen, Uploaded, Read, Sourced, Ahead, At, Deploys, Loop
<1>4. CASE task'[r].pc # "idle"
  <2>1. /\ Touches(task[r])' = Touches(task[r]) /\ task'[r].kind = task[r].kind
        /\ task[r].pc # "idle"
    BY <1>4, TouchesKeep
  <2>2. task[r].kind \in Kinds
    BY DEF CoreInv, Shapes, TaskType
  <2>3. task'[r].pc \in Deploys => f \notin task'[r].flows
    <3>1. task'[r].pc \in Deploys => task'[r].kind \in {"deploy", "preBuilt"}
      BY <1>2, <2>1, <2>2 DEF PlacesOf, Deploys, Loop, Kinds
    <3> QED
      BY <2>1, <3>1, TouchesThen
  <2>4. At(r, "config")' => task'[r].flow # f
    <3>1. task'[r].pc = "config" => task'[r].kind = "deleteConfig"
      BY <1>2, <2>1, <2>2 DEF PlacesOf, BeforeInsert, Loop, Kinds
    <3> QED
      BY <2>1, <3>1, TouchesThen DEF At
  <2> QED
    BY <1>2, <2>3, <2>4 DEF Chosen, Uploaded, Read, Sourced, Ahead, At, Deploys, Loop
<1> QED
  BY <1>3, <1>4

LEMMA OthersSets ==
    ASSUME CoreInv, NEW r \in Requests, Frame(r), NEW q \in Requests, q # r
    PROVE  /\ Keeps(q) /\ Ahead(q)' = Ahead(q)
           /\ At(q, "deactivate")' <=> At(q, "deactivate")
           /\ task'[q].flows = task[q].flows
<1>1. Keeps(q)
  BY OthersKeep DEF Keeps
<1> QED
  BY <1>1, SetsSame DEF Keeps, Locations

\* A deploy of another request that has inserted.
LEMMA OthersInsert ==
    ASSUME CoreInv, NEW r \in Requests, Frame(r), NEW f \in Flows, Inserting(f),
           ~(At(r, "deactivate") /\ f \in task[r].flows)
    PROVE  Inserting(f)'
<1>1. PICK q \in Requests : At(q, "deactivate") /\ f \in task[q].flows
  BY DEF Inserting
<1>2. q # r
  BY <1>1
<1>3. At(q, "deactivate")' /\ f \in task'[q].flows
  BY <1>1, <1>2, OthersSets
<1> QED
  BY <1>3 DEF Inserting, Requests

\* What is not touched keeps its data.
LEMMA SameElsewhere ==
    ASSUME CoreInv, NEW r \in Requests, Frame(r), NEW f \in Flows \ Touches(task[r])
    PROVE  /\ SameData(f)
           /\ SameFiles(f) \/ (Dropped(f) /\ \A q \in Requests : q # r => f \notin task'[q].alone)
<1>1. task[r].pc \in Deploys => task[r].flows \subseteq Touches(task[r])
  BY TouchesWhat DEF Frame
<1>2. ~(At(r, "deactivate") /\ f \in task[r].flows \cap task[r].alone)
  BY <1>1 DEF At, Deploys
<1>3. muddle[f] \subseteq muddle'[f]
  BY <1>2 DEF Frame, Marks
<1>4. ActiveRows(f)' = ActiveRows(f) /\ \A x \in ActiveRows(f) : row'[x] = row[x]
  BY ActiveKeep
<1>5. source'[f] = source[f] /\ (f \in configs' <=> f \in configs)
  BY DEF Frame, Elsewhere
<1>6. SameFiles(f) \/ (Dropped(f) /\ \A q \in Requests : q # r => f \notin task'[q].alone)
  BY DEF Frame, Elsewhere, SameFiles, Dropped
<1> QED
  BY <1>3, <1>4, <1>5, <1>6 DEF SameData

LEMMA FlowElsewhere ==
    ASSUME CoreInv, NEW r \in Requests, Frame(r), NEW f \in Flows \ Touches(task[r]), FlowInv(f)
    PROVE  FlowInv(f)'
<1>1. SameData(f) /\ (SameFiles(f) \/ Dropped(f))
  BY SameElsewhere
<1>2. \A x \in ActiveRows(f) : row[x].version \in Versions
  BY ActiveIsUsed
<1>3. ~(At(r, "deactivate") /\ f \in task[r].flows) /\ f \notin Ahead(r)
  BY OwnSets
<1>4. Inserting(f) => Inserting(f)'
  BY <1>3, OthersInsert
<1>5. \A q \in Requests : f \in Ahead(q) => f \in Ahead(q)'
  BY <1>3, OthersSets
<1> QED
  BY <1>1, <1>2, <1>4, <1>5, FlowSame

\* What the others know.
LEMMA KnownOfOthers ==
    ASSUME CoreInv, NEW r \in Requests, Frame(r), NEW q \in Requests, q # r, NEW f \in Flows,
           KnownInv(q, f)
    PROVE  KnownInv(q, f)'
<1>1. Keeps(q)
  BY OthersSets
<1>2. CASE f \notin Touches(task[r])
  <2>1. SameData(f) /\ (SameFiles(f) \/ (Dropped(f) /\ f \notin task'[q].alone))
    BY <1>2, SameElsewhere
  <2>2. RequestFits(q)
    BY DEF CoreInv, AllFit
  <2> QED
    BY <1>1, <2>1, <2>2, KnownSame
<1>3. CASE f \in Touches(task[r])
  <2>1. /\ Chosen(q)' = Chosen(q) /\ Uploaded(q)' = Uploaded(q) /\ Read(q)' = Read(q)
        /\ Sourced(q)' = Sourced(q) /\ (At(q, "config")' <=> At(q, "config"))
        /\ task'[q].flow = task[q].flow
    BY <1>1, SetsSame DEF Locations, Keeps
  <2>2. CASE \/ f \in Chosen(q) \cup Uploaded(q) \cup Read(q) \cup Sourced(q)
             \/ At(q, "config") /\ task[q].flow = f
    <3>1. task[q].pc # "idle" /\ f \in Touches(task[q])
      BY <2>2, OwnSets
    <3>2. "overlap" \in muddle'[f] /\ f \notin task'[q].alone
      BY <1>3, <3>1, OverlapStays
    <3>3. /\ ~Clean(f, OfActive)' /\ ~Clean(f, OfFile)' /\ ~Clean(f, OfSource)' /\ ~Clean(f, OfConfig)'
      BY <3>2, NotClean
    <3>4. /\ ~Knows(q, f, OfActive)' /\ ~Knows(q, f, OfFile)'
          /\ ~Knows(q, f, OfSource)' /\ ~Knows(q, f, OfConfig)'
      BY <3>2, <3>3 DEF Knows
    <3> QED
      BY <3>3, <3>4 DEF KnownInv, OneLeft, NewVersion, FileUploaded, SourceUploaded,
         ConfigSeen, RowsGone
  <2>3. CASE ~(\/ f \in Chosen(q) \cup Uploaded(q) \cup Read(q) \cup Sourced(q)
               \/ At(q, "config") /\ task[q].flow = f)
    BY <2>1, <2>3 DEF KnownInv, OneLeft, NewVersion, FileUploaded, SourceUploaded, ConfigSeen,
       RowsGone
  <2> QED
    BY <2>2, <2>3
<1> QED
  BY <1>2, <1>3

\* What the request itself knows of the flows that it does not touch: nothing.
LEMMA KnownElsewhere ==
    ASSUME CoreInv, NEW r \in Requests, Frame(r), AllFit', NEW f \in Flows \ Touches(task[r])
    PROVE  KnownInv(r, f)'
BY OwnSetsThen DEF KnownInv, OneLeft, NewVersion, FileUploaded, SourceUploaded, ConfigSeen,
   RowsGone

(***************************************************************************)
(* What a deploy is to delete was shown.                                   *)
(***************************************************************************)

\* The targets of a deletion are chosen once.
Targets(r) ==
    /\ task'[r].pc \in {"files", "row"} =>
          \/ task[r].pc \in {"files", "row"} /\ task'[r].targets \subseteq task[r].targets
          \/ /\ task[r].pc \notin {"files", "row"} /\ row' = row
             /\ task'[r].targets = Missing(task[r].flows, task[r].single)
    /\ task'[r].pc \notin {"files", "row"} => task[r].pc \notin {"files", "row"}
    /\ configs' = configs

LEMMA TargetsStep ==
    ASSUME CoreInv, NEW r \in Requests, Step(r), task'[r].pc # "idle"
    PROVE  Targets(r)
<1> USE DEF Then, At, Targets
<1>0. ~Over(r)
  BY IdleIsTask DEF Over
<1>1. CASE Confirmed(r)
  BY <1>0, <1>1, ConfirmedDoes
<1>2. CASE Upload(r)
  BY <1>0, <1>2, UploadDoes
<1>3. CASE UploadFails(r)
  BY <1>0, <1>3, UploadFailsDoes
<1>4. CASE UploadSource(r)
  BY <1>0, <1>4, UploadSourceDoes
<1>5. CASE SourceUploadFails(r)
  BY <1>0, <1>5, SourceUploadFailsDoes
<1>6. CASE ReadOld(r)
  BY <1>0, <1>6, ReadOldDoes
<1>7. CASE OldUnread(r)
  BY <1>0, <1>7, OldUnreadDoes
<1>8. CASE Insert(r)
  BY <1>0, <1>8, InsertDoes
<1>9. CASE Deactivate(r)
  BY <1>0, <1>9, DeactivateDoes
<1>10. CASE ReconcileDifferences(r)
  BY <1>0, <1>10, ReconcileDoes
<1>11. CASE DropRow(r)
  BY <1>0, <1>11, DropRowDoes
<1>12. CASE DropConfigFiles(r)
  BY <1>0, <1>12, DropConfigFilesDoes
<1>13. CASE ConfigFilesKept(r)
  BY <1>0, <1>13, ConfigFilesKeptDoes
<1>14. CASE DropConfigRows(r)
  BY <1>0, <1>14, DropConfigRowsDoes
<1>15. CASE \E x \in Rows : DropFiles(r, x)
  BY <1>15, DropFilesDoes
<1>16. CASE \E x \in Rows : FilesKept(r, x)
  BY <1>16, FilesKeptDoes
<1>17. CASE \E f \in Flows : ReadPrevious(r, f)
  BY <1>17, ReadPreviousDoes
<1>18. CASE \E f \in Flows : PreviousUnread(r, f)
  BY <1>18, PreviousUnreadDoes
<1>19. CASE Leaves(r)
  BY <1>0, <1>19, LeavesDoes
<1>20. CASE UploadLastSource(r)
  BY <1>0, <1>20, UploadLastSourceDoes
<1>21. CASE DropConfig(r)
  BY <1>0, <1>21, DropConfigDoes
<1> QED
  BY <1>1, <1>2, <1>3, <1>4, <1>5, <1>6, <1>7, <1>8, <1>9, <1>10, <1>11, <1>12, <1>13, <1>14,
     <1>15, <1>16, <1>17, <1>18, <1>19, <1>20, <1>21 DEF Step, Leaves

LEMMA MissingThen ==
    ASSUME CoreInv, NEW r \in Requests, Frame(r), NEW q \in Requests,
           task'[q].flows = task[q].flows, task'[q].single = task[q].single,
           NEW x \in Missing(task[q].flows, task[q].single)'
    PROVE  /\ ~task[q].single /\ row'[x].flow \in Flows
           /\ \/ row'[x].flow \notin Touches(task[r])
              \/ row'[x].flow \notin task[r].flows /\ row'[x].flow \in configs
              => x \in Missing(task[q].flows, task[q].single) /\ row'[x] = row[x]
<1>1. /\ ~task'[q].single /\ x \in Rows /\ row'[x].state = "active" /\ row'[x].custom
      /\ row'[x].flow \in configs' /\ row'[x].flow \notin task'[q].flows
  BY DEF Missing, CustomRows, Rows
<1>2. configs' \subseteq Flows
  BY DEF Frame, Types
<1>3. PICK f \in Flows : f = row'[x].flow
  BY <1>1, <1>2
<1>4. x \in ActiveRows(f)'
  BY <1>1, <1>3 DEF ActiveRows, IsActive, Rows
<1>5. ASSUME f \notin Touches(task[r]) \/ (f \notin task[r].flows /\ f \in configs)
      PROVE  x \in Missing(task[q].flows, task[q].single) /\ row'[x] = row[x]
  <2>1. x \in ActiveRows(f)
    BY <1>4, <1>5, ActiveKeep
  <2>2. row'[x] = row[x]
    BY <1>4, <2>1, ActiveKeep
  <2>3. f \in configs
    BY <1>1, <1>3, <1>5 DEF Frame, Elsewhere
  <2>4. row[x].flow = f /\ row[x].state = "active" /\ row[x].custom
    BY <1>1, <1>3, <2>2
  <2> QED
    BY <1>1, <1>3, <2>2, <2>3, <2>4 DEF Missing, CustomRows
<1> QED
  BY <1>1, <1>3, <1>5

LEMMA TargetsAreUsed ==
    ASSUME CoreInv, NEW q \in Requests, task[q].pc \in {"files", "row"}, NEW x \in task[q].targets
    PROVE  x \in Used /\ x \in Rows
BY TouchesWhat, UsedHasFlow

LEMMA ShownToOthers ==
    ASSUME CoreInv, NEW r \in Requests, Frame(r), NEW q \in Requests, q # r, WasShown(q)
    PROVE  WasShown(q)'
<1> SUFFICES ASSUME task'[q].kind = "deploy", NEW x \in ToDelete(q)', row'[x].flow \in task'[q].alone
             PROVE  row'[x].flow \in task'[q].shown
  BY DEF WasShown
<1>1. /\ task'[q].kind = task[q].kind /\ task'[q].pc = task[q].pc
      /\ task'[q].flows = task[q].flows /\ task'[q].single = task[q].single
      /\ task'[q].targets = task[q].targets /\ task'[q].shown = task[q].shown
      /\ task'[q].alone \subseteq task[q].alone
  BY OthersKeep
<1>2. \A y \in ToDelete(q) : row[y].flow \in task[q].alone => row[y].flow \in task[q].shown
  BY <1>1 DEF WasShown
<1>3. CASE task[q].pc \in {"files", "row"}
  <2>1. x \in task[q].targets /\ x \in ToDelete(q)
    BY <1>1, <1>3 DEF ToDelete
  <2>2. row'[x].flow = row[x].flow
    BY <1>3, <2>1, TargetsAreUsed, RowsKeep
  <2> QED
    BY <1>1, <1>2, <2>1, <2>2
<1>4. CASE task[q].pc \notin {"files", "row"}
  <2>1. x \in Missing(task[q].flows, task[q].single)'
    BY <1>1, <1>4 DEF ToDelete
  <2>2. ~task[q].single /\ row'[x].flow \in Flows
    BY <1>1, <2>1, MissingThen
  <2>3. task[q].pc # "idle" /\ Touches(task[q]) = Flows
    BY <1>1, <2>2, KindsOfPlaces, TouchesOf
  <2>4. row'[x].flow \notin Touches(task[r])
    BY <2>2, <2>3, OverlapStays
  <2>5. x \in Missing(task[q].flows, task[q].single) /\ row'[x] = row[x]
    BY <1>1, <2>1, <2>4, MissingThen
  <2>6. x \in ToDelete(q)
    BY <1>4, <2>5 DEF ToDelete
  <2> QED
    BY <1>1, <1>2, <2>5, <2>6
<1> QED
  BY <1>3, <1>4

LEMMA ShownStays ==
    ASSUME CoreInv, NEW r \in Requests, Step(r), Frame(r), WasShown(r)
    PROVE  WasShown(r)'
<1> SUFFICES ASSUME task'[r].kind = "deploy", NEW x \in ToDelete(r)', row'[x].flow \in task'[r].alone
             PROVE  row'[x].flow \in task'[r].shown
  BY DEF WasShown
<1>0. task'[r].pc # "idle"
  <2>1. task'[r] # Idle
    BY IdleIsTask
  <2> QED
    BY <2>1 DEF Frame, Own, Over
<1>1. /\ task'[r].kind = task[r].kind /\ task'[r].flows = task[r].flows
      /\ task'[r].single = task[r].single /\ task'[r].shown = task[r].shown
      /\ task'[r].alone \subseteq task[r].alone
  BY <1>0, TouchesKeep
<1>2. \A y \in ToDelete(r) : row[y].flow \in task[r].alone => row[y].flow \in task[r].shown
  BY <1>1 DEF WasShown
<1>3. Targets(r)
  BY <1>0, TargetsStep
<1>4. CASE task'[r].pc \in {"files", "row"} /\ task[r].pc \in {"files", "row"}
  <2>1. x \in task[r].targets /\ x \in ToDelete(r)
    BY <1>3, <1>4 DEF ToDelete, Targets
  <2>2. row'[x].flow = row[x].flow
    BY <1>4, <2>1, TargetsAreUsed, RowsKeep
  <2> QED
    BY <1>1, <1>2, <2>1, <2>2
<1>5. CASE task'[r].pc \in {"files", "row"} /\ task[r].pc \notin {"files", "row"}
  <2>1. x \in ToDelete(r) /\ row' = row
    BY <1>3, <1>5 DEF ToDelete, Targets
  <2> QED
    BY <1>1, <1>2, <2>1
<1>6. CASE task'[r].pc \notin {"files", "row"}
  <2>1. x \in Missing(task[r].flows, task[r].single)' /\ task[r].pc \notin {"files", "row"}
    BY <1>1, <1>3, <1>6 DEF ToDelete, Targets
  <2>2. row'[x].flow \notin task[r].flows /\ row'[x].flow \in configs
    BY <1>1, <1>3, <2>1 DEF Missing, CustomRows, Targets
  <2>3. x \in Missing(task[r].flows, task[r].single) /\ row'[x] = row[x]
    BY <1>1, <2>1, <2>2, MissingThen
  <2>4. x \in ToDelete(r)
    BY <2>1, <2>3 DEF ToDelete
  <2> QED
    BY <1>1, <1>2, <2>3, <2>4
<1> QED
  BY <1>4, <1>5, <1>6

(***************************************************************************)
(* The flows that a step does touch: the steps that leave the rows alone.  *)
(***************************************************************************)

OwnInv(r) == \A f \in Touches(task[r]) : FlowInv(f)' /\ KnownInv(r, f)'

\* What a request knows of a flow it knew already, or finds out, or cannot rely on.
Carries(r, f) ==
    /\ f \in Chosen(r)' =>
          \/ f \in Chosen(r) /\ task'[r].insert[f] = task[r].insert[f]
          \/ /\ f \in configs
             /\ Clean(f, OfFile)' =>
                   \A x \in ActiveRows(f) : Below(row[x].version, task'[r].insert[f])
    /\ f \in Uploaded(r)' => f \in Uploaded(r) /\ task'[r].insert[f] = task[r].insert[f]
    /\ f \in Read(r)' => \/ f \in Read(r) /\ task[r].old \subseteq task'[r].old
                         \/ ActiveRows(f) \subseteq task'[r].old
                         \/ ~Knows(r, f, OfActive)'
    /\ f \in Sourced(r)' => f \in Sourced(r) \/ ~Knows(r, f, OfSource)'
    /\ task'[r].alone \subseteq task[r].alone
    /\ task'[r].pc \notin {"config", "deactivate"} /\ task[r].pc # "deactivate"

LEMMA KnownCarried ==
    ASSUME NEW r \in Requests, NEW f \in Flows, KnownInv(r, f), RequestFits(r),
           SameData(f), SameFiles(f), Carries(r, f)
    PROVE  KnownInv(r, f)'
<1> USE DEF SameData, Carries, KnownInv
<1>1. /\ Knows(r, f, OfActive)' => Knows(r, f, OfActive)
      /\ Knows(r, f, OfFile)' => Knows(r, f, OfFile)
      /\ Knows(r, f, OfSource)' => Knows(r, f, OfSource)
      /\ Knows(r, f, OfConfig)' => Knows(r, f, OfConfig)
  BY KnowsLess
<1>2. Clean(f, OfFile)' => Clean(f, OfFile)
  BY Cleaner
<1>3. ~At(r, "deactivate")' /\ ~At(r, "config")' /\ ~At(r, "deactivate")
  BY DEF At
<1>4. f \in Uploaded(r) => task[r].insert[f] \in Versions
  BY SetsNest DEF RequestFits
<1>5. OneLeft(r, f)'
  <2> SUFFICES ASSUME f \in Read(r)', Knows(r, f, OfActive)'
               PROVE  ActiveRows(f)' \subseteq task'[r].old
    BY <1>3 DEF OneLeft
  <2>1. f \in Read(r) => ActiveRows(f) \subseteq task[r].old
    BY <1>1, <1>3 DEF OneLeft
  <2> QED
    BY <2>1
<1>6. NewVersion(r, f)'
  <2> SUFFICES ASSUME f \in Chosen(r)', Clean(f, OfFile)'
               PROVE  \A x \in ActiveRows(f) : Below(row[x].version, task'[r].insert[f])
    BY DEF NewVersion, Below
  <2>1. f \in Chosen(r) => \A x \in ActiveRows(f) : Below(row[x].version, task[r].insert[f])
    BY <1>2, <1>3 DEF NewVersion
  <2> QED
    BY <2>1
<1>7. FileUploaded(r, f)'
  BY <1>1, <1>4 DEF FileUploaded, SameFiles
<1>8. SourceUploaded(r, f)'
  BY <1>1 DEF SourceUploaded
<1>9. ConfigSeen(r, f)'
  BY <1>1 DEF ConfigSeen
<1>10. RowsGone(r, f)'
  BY <1>3 DEF RowsGone
<1> QED
  BY <1>5, <1>6, <1>7, <1>8, <1>9, <1>10

\* A request that does not deploy knows nothing of the flows.
LEMMA KnownNothing ==
    ASSUME NEW r \in Requests, NEW f, task'[r].pc \notin Deploys \cup {"config"}
    PROVE  KnownInv(r, f)'
<1>1. /\ f \notin Chosen(r)' /\ f \notin Uploaded(r)' /\ f \notin Read(r)' /\ f \notin Sourced(r)'
      /\ ~At(r, "config")'
  BY DEF Chosen, Uploaded, Read, Sourced, Ahead, At, Deploys, Loop
<1> QED
  BY <1>1 DEF KnownInv, OneLeft, NewVersion, FileUploaded, SourceUploaded, ConfigSeen, RowsGone

LEMMA QuietData ==
    ASSUME NEW f \in Flows, UNCHANGED <<row, file, source, configs>>, muddle[f] \subseteq muddle'[f]
    PROVE  SameData(f) /\ SameFiles(f)
<1>1. ActiveRows(f)' = ActiveRows(f)
  BY DEF ActiveRows, IsActive, Rows
<1> QED
  BY <1>1 DEF SameData, SameFiles

LEMMA FlowQuiet ==
    ASSUME CoreInv, NEW r \in Requests, Frame(r), NEW f \in Flows, FlowInv(f),
           SameData(f), SameFiles(f) \/ Dropped(f),
           At(r, "deactivate") /\ f \in task[r].flows => "partial" \in muddle'[f],
           f \in Ahead(r) => f \in Ahead(r)' \/ "ahead" \in muddle'[f]
    PROVE  FlowInv(f)'
<1>1. \A x \in ActiveRows(f) : row[x].version \in Versions
  BY ActiveIsUsed
<1>2. Inserting(f) => Inserting(f)' \/ "partial" \in muddle'[f]
  BY OthersInsert
<1>3. \A q \in Requests : f \in Ahead(q) => f \in Ahead(q)' \/ "ahead" \in muddle'[f]
  BY OthersSets
<1> QED
  BY <1>1, <1>2, <1>3, FlowSame

\* What the proofs about the steps start from.
LEMMA Given ==
    ASSUME VersionInv, NEW r \in Requests, Frame(r)
    PROVE  /\ CoreInv /\ RequestFits(r) /\ task[r] \in TaskType /\ task[r].pc # "idle"
           /\ Touches(task[r]) \subseteq Flows
           /\ \A f \in Touches(task[r]) : FlowInv(f) /\ KnownInv(r, f)
<1>1. CoreInv /\ task[r].pc # "idle"
  BY DEF VersionInv, Frame
<1>2. Touches(task[r]) \subseteq Flows
  BY <1>1, TouchesWhat
<1> QED
  BY <1>1, <1>2 DEF VersionInv, CoreInv, AllFit, Shapes

\* A step after which the request does not deploy, and that leaves the data alone.
LEMMA QuietEnd ==
    ASSUME VersionInv, NEW r \in Requests, Frame(r), UNCHANGED <<row, file, source, configs>>,
           task'[r].pc \notin Deploys \cup {"config"},
           \A f \in Flows :
              /\ muddle[f] \subseteq muddle'[f]
              /\ At(r, "deactivate") /\ f \in task[r].flows => "partial" \in muddle'[f]
              /\ f \in Ahead(r) => "ahead" \in muddle'[f]
    PROVE  OwnInv(r)
<1> SUFFICES ASSUME NEW f \in Touches(task[r]) PROVE FlowInv(f)' /\ KnownInv(r, f)'
  BY DEF OwnInv
<1>1. f \in Flows /\ FlowInv(f) /\ CoreInv
  BY Given
<1>2. SameData(f) /\ SameFiles(f)
  BY <1>1, QuietData
<1> QED
  BY <1>1, <1>2, FlowQuiet, KnownNothing

\* A step of a deploy that leaves the data alone.
LEMMA QuietStep ==
    ASSUME VersionInv, NEW r \in Requests, Frame(r), UNCHANGED <<row, file, source, configs>>,
           task[r].pc # "deactivate", \A f \in Flows : muddle[f] \subseteq muddle'[f],
           \A f \in Flows : f \in Ahead(r) => f \in Ahead(r)',
           \A f \in Flows : Carries(r, f)
    PROVE  OwnInv(r)
<1> SUFFICES ASSUME NEW f \in Touches(task[r]) PROVE FlowInv(f)' /\ KnownInv(r, f)'
  BY DEF OwnInv
<1>1. f \in Flows /\ FlowInv(f) /\ KnownInv(r, f) /\ CoreInv /\ RequestFits(r)
  BY Given
<1>2. SameData(f) /\ SameFiles(f)
  BY <1>1, QuietData
<1>3. ~At(r, "deactivate")
  BY DEF At
<1> QED
  BY <1>1, <1>2, <1>3, FlowQuiet, KnownCarried

LEMMA ConfirmedOwn ==
    ASSUME VersionInv, NEW r \in Requests, Frame(r), Confirmed(r)
    PROVE  OwnInv(r)
<1>1. CoreInv /\ RequestFits(r)
  BY Given
<1>2. /\ task[r].pc = "confirm" /\ task'[r].pc = "flow"
      /\ task'[r].flows = task[r].flows /\ task'[r].todo = task[r].todo
      /\ task'[r].alone = task[r].alone
      /\ UNCHANGED <<row, file, source, configs, muddle>>
  BY <1>1, ConfirmedDoes DEF Then, At
<1>3. task[r].todo = task[r].flows
  BY <1>1, <1>2 DEF RequestFits
<1>4. Chosen(r)' = {} /\ Uploaded(r)' = {} /\ Read(r)' = {} /\ Sourced(r)' = {} /\ Ahead(r) = {}
  BY <1>2, <1>3 DEF Chosen, Uploaded, Read, Sourced, Ahead, At, Deploys, Loop
<1>5. \A f \in Flows : Carries(r, f)
  BY <1>2, <1>4 DEF Carries
<1> QED
  BY <1>2, <1>4, <1>5, QuietStep

\* The version of a flow is chosen.
LEMMA ChosenOwn ==
    ASSUME VersionInv, NEW r \in Requests, Frame(r), NEW g \in Flows, NEW v \in Versions,
           Then(r, "upload", task[r].todo, g, [task[r].insert EXCEPT ![g] = v],
                task[r].old, task[r].targets, task[r].alone),
           At(r, "flow"), g \in task[r].todo, g \in configs,
           UNCHANGED <<row, file, source, configs>>,
           \A f \in Flows : muddle[f] \subseteq muddle'[f],
           Clean(g, OfFile)' => \A x \in ActiveRows(g) : Below(row[x].version, v)
    PROVE  OwnInv(r)
<1>1. CoreInv /\ RequestFits(r) /\ task[r] \in TaskType
  BY Given
<1>2. /\ task[r].pc = "flow" /\ task'[r].pc = "upload"
      /\ task'[r].flows = task[r].flows /\ task'[r].todo = task[r].todo /\ task'[r].flow = g
      /\ task'[r].alone = task[r].alone /\ task'[r].old = task[r].old
      /\ task'[r].insert = [task[r].insert EXCEPT ![g] = v]
  BY DEF Then, At
<1>3. task[r].insert \in [Flows -> Versions \cup {NoVersion}]
  BY <1>1, FieldsOfTask
<1>4. /\ task'[r].insert[g] = v
      /\ \A f \in Flows : f # g => task'[r].insert[f] = task[r].insert[f]
  BY <1>2, <1>3
<1>5. /\ Chosen(r) = task[r].flows \ task[r].todo /\ Chosen(r)' = Chosen(r) \cup {g}
      /\ Uploaded(r)' = Chosen(r) /\ Uploaded(r) = Chosen(r) /\ Read(r)' = Read(r)
      /\ Sourced(r)' = Sourced(r) /\ Ahead(r)' = Ahead(r)
  BY <1>2 DEF Chosen, Uploaded, Read, Sourced, Ahead, At, Deploys, Loop
<1>6. \A f \in Flows : Carries(r, f)
  <2> TAKE f \in Flows
  <2>1. CASE f = g
    <3>1. f \notin Uploaded(r)'
      BY <1>5, <2>1
    <3> QED
      BY <1>2, <1>4, <1>5, <2>1, <3>1 DEF Carries
  <2>2. CASE f # g
    BY <1>2, <1>4, <1>5, <2>2 DEF Carries
  <2> QED
    BY <2>1, <2>2
<1> QED
  BY <1>2, <1>5, <1>6, QuietStep

LEMMA ReadPreviousOwn ==
    ASSUME VersionInv, NEW r \in Requests, Frame(r), NEW g \in Flows, ReadPrevious(r, g)
    PROVE  OwnInv(r)
<1>1. CoreInv /\ RequestFits(r) /\ FlowInv(g)
  BY Given DEF VersionInv
<1>2. /\ NextVersion(r, g) \in Versions
      /\ Then(r, "upload", task[r].todo, g, [task[r].insert EXCEPT ![g] = NextVersion(r, g)],
              task[r].old, task[r].targets, task[r].alone)
      /\ At(r, "flow") /\ g \in task[r].todo /\ g \in configs
      /\ UNCHANGED <<row, file, source, configs, muddle>>
  BY <1>1, ReadPreviousDoes
<1>3. ASSUME Clean(g, OfFile)', NEW x \in ActiveRows(g)
      PROVE  Below(row[x].version, NextVersion(r, g))
  <2>1. Clean(g, OfFile)
    BY <1>2, <1>3, Cleaner
  <2>2. task[r].given = NoVersion
    <3>1. "given" \notin muddle[g]
      BY <2>1, NotClean
    <3>2. g \in task[r].flows /\ task[r].pc \in BeforeInsert
      BY <1>1, <1>2 DEF RequestFits, At, BeforeInsert, Loop
    <3> QED
      BY <1>1, <3>1, <3>2 DEF RequestFits
  <2>3. Newest(g) \in ActiveRows(g) /\ x <= Newest(g)
    BY <1>3, NewestIsActive
  <2> DEFINE w == row[Newest(g)].version
  <2>4. NextVersion(r, g) = <<w[1], w[2] + 1>>
    BY <1>3, <2>2 DEF NextVersion, Increment
  <2>5. w \in Versions /\ row[x].version \in Versions
    BY <1>1, <1>3, <2>3, ActiveIsUsed
  <2>6. x < Newest(g) => Below(row[x].version, w)
    BY <1>1, <1>3, <2>1, <2>3 DEF FlowInv, FileThere
  <2>7. x \in Nat /\ Newest(g) \in Nat
    BY <1>3, <2>3 DEF ActiveRows, Rows
  <2>8. x = Newest(g) => row[x].version = w
    OBVIOUS
  <2> HIDE DEF w
  <2>9. w[2] \in Nat /\ row[x].version[2] \in Nat
    BY <2>5, VersionsArePairs
  <2> QED
    BY <2>3, <2>4, <2>6, <2>7, <2>8, <2>9 DEF Below
<1>4. NextVersion(r, g) \in Versions
  BY <1>2
<1>5. PICK v \in Versions : v = NextVersion(r, g)
  BY <1>2
<1> QED
  BY <1>2, <1>3, <1>5, ChosenOwn

LEMMA PreviousUnreadOwn ==
    ASSUME VersionInv, NEW r \in Requests, Frame(r), NEW g \in Flows, PreviousUnread(r, g)
    PROVE  OwnInv(r)
<1>1. CoreInv
  BY Given
<1>2. PICK v \in Versions :
        /\ Then(r, "upload", task[r].todo, g, [task[r].insert EXCEPT ![g] = v],
                task[r].old, task[r].targets, task[r].alone)
        /\ At(r, "flow") /\ g \in task[r].todo /\ g \in configs
        /\ muddle' = Mark({g}, "versionUnread")
        /\ UNCHANGED <<row, file, source, configs, begun>>
  BY <1>1, PreviousUnreadDoes
<1>3. "versionUnread" \in muddle'[g] /\ \A f \in Flows : muddle[f] \subseteq muddle'[f]
  BY <1>1, <1>2, Marked DEF Reasons
<1>4. ~Clean(g, OfFile)'
  BY <1>3, NotClean
<1> QED
  BY <1>2, <1>3, <1>4, ChosenOwn

LEMMA UploadFailsOwn ==
    ASSUME VersionInv, NEW r \in Requests, Frame(r), UploadFails(r)
    PROVE  OwnInv(r)
<1>1. CoreInv
  BY Given
<1>2. /\ task[r].pc = "upload" /\ task'[r].pc = "lastSource" /\ task'[r].flow = task[r].flow
      /\ task'[r].flows = task[r].flows /\ task'[r].todo = task[r].todo
      /\ task'[r].alone = task[r].alone /\ task'[r].old = task[r].old
      /\ task'[r].insert = task[r].insert
      /\ UNCHANGED <<row, file, source, configs, muddle>>
  BY <1>1, UploadFailsDoes DEF Then, At
<1>3. /\ Chosen(r)' = Chosen(r) /\ Uploaded(r)' = Uploaded(r) /\ Read(r)' = Read(r)
      /\ Sourced(r)' = Sourced(r) /\ Ahead(r)' = Ahead(r)
  BY <1>2 DEF Chosen, Uploaded, Read, Sourced, Ahead, At, Deploys, Loop
<1>4. \A f \in Flows : Carries(r, f)
  BY <1>2, <1>3 DEF Carries
<1> QED
  BY <1>2, <1>3, <1>4, QuietStep

\* The source that could not be uploaded: the deploy is not alone on the flow any more.
LEMMA SourceUploadFailsOwn ==
    ASSUME VersionInv, NEW r \in Requests, Frame(r), SourceUploadFails(r)
    PROVE  OwnInv(r)
<1>1. CoreInv /\ RequestFits(r) /\ task[r] \in TaskType
  BY Given
<1>2. /\ task[r].pc = "source" /\ task'[r].pc = "old" /\ task'[r].flow = task[r].flow
      /\ task'[r].flows = task[r].flows /\ task'[r].todo = task[r].todo
      /\ task'[r].alone = task[r].alone \ {task[r].flow} /\ task'[r].old = task[r].old
      /\ task'[r].insert = task[r].insert
      /\ muddle' = Mark({task[r].flow}, "behind")
      /\ UNCHANGED <<row, file, source, configs>>
  BY <1>1, SourceUploadFailsDoes DEF Then, At
<1>3. /\ Chosen(r)' = Chosen(r) /\ Uploaded(r)' = Uploaded(r) /\ Read(r)' = Read(r)
      /\ Sourced(r)' = Sourced(r) \cup {task[r].flow} /\ Ahead(r)' = Ahead(r) \cup {task[r].flow}
  BY <1>2 DEF Chosen, Uploaded, Read, Sourced, Ahead, At, Deploys, Loop
<1>4. \A f \in Flows : muddle[f] \subseteq muddle'[f] /\ (f = task[r].flow => "behind" \in muddle'[f])
  BY <1>1, <1>2, Marked DEF Reasons
<1>5. \A f \in Flows : f = task[r].flow => ~Knows(r, f, OfSource)'
  BY <1>2, <1>4, NotClean DEF Knows
<1>6. \A f \in Flows : Carries(r, f)
  BY <1>2, <1>3, <1>5 DEF Carries
<1> QED
  BY <1>2, <1>3, <1>4, <1>6, QuietStep

\* The old rows of a flow are read, or the deploy is not alone on it any more.
LEMMA FoundOwn ==
    ASSUME VersionInv, NEW r \in Requests, Frame(r), NEW old, NEW alone,
           Then(r, IF task[r].todo \ {task[r].flow} = {} THEN "insert" ELSE "flow",
                task[r].todo \ {task[r].flow}, NoFlow, task[r].insert, old, task[r].targets, alone),
           At(r, "old"), UNCHANGED <<row, file, source, configs>>,
           task[r].old \subseteq old, alone \subseteq task[r].alone,
           \A f \in Flows : muddle[f] \subseteq muddle'[f],
           \A f \in Flows : f = task[r].flow =>
              \/ ActiveRows(f) \subseteq old
              \/ f \notin alone /\ "unread" \in muddle'[f]
    PROVE  OwnInv(r)
<1>1. CoreInv /\ RequestFits(r) /\ task[r] \in TaskType
  BY Given
<1>2. /\ task[r].pc = "old" /\ task'[r].pc \in {"insert", "flow"}
      /\ task'[r].flows = task[r].flows /\ task'[r].todo = task[r].todo \ {task[r].flow}
      /\ task'[r].alone = alone /\ task'[r].old = old /\ task'[r].insert = task[r].insert
  BY DEF Then, At
<1>3. task[r].flow \in task[r].todo /\ task[r].todo \subseteq task[r].flows
  BY <1>1, <1>2 DEF RequestFits
<1>4. task'[r].flows \ task'[r].todo = (task[r].flows \ task[r].todo) \cup {task[r].flow}
  BY <1>2, <1>3
<1>5. /\ Chosen(r)' = Chosen(r) /\ Uploaded(r)' = Uploaded(r)
      /\ Read(r)' = Read(r) \cup {task[r].flow}
      /\ Sourced(r)' = Sourced(r) /\ Ahead(r)' = Ahead(r)
  BY <1>2, <1>4 DEF Chosen, Uploaded, Read, Sourced, Ahead, At, Deploys, Loop
<1>6. \A f \in Flows : f = task[r].flow => ActiveRows(f) \subseteq old \/ ~Knows(r, f, OfActive)'
  BY <1>2, NotClean DEF Knows
<1>7. \A f \in Flows : Carries(r, f)
  BY <1>2, <1>5, <1>6 DEF Carries
<1> QED
  BY <1>2, <1>5, <1>7, QuietStep

LEMMA ReadOldOwn ==
    ASSUME VersionInv, NEW r \in Requests, Frame(r), ReadOld(r)
    PROVE  OwnInv(r)
<1>1. CoreInv
  BY Given
<1>2. muddle' = muddle /\ task[r].old \subseteq task[r].old \cup ActiveRows(task[r].flow)
  BY <1>1, ReadOldDoes
<1> QED
  BY <1>1, <1>2, ReadOldDoes, FoundOwn

LEMMA OldUnreadOwn ==
    ASSUME VersionInv, NEW r \in Requests, Frame(r), OldUnread(r)
    PROVE  OwnInv(r)
<1>1. CoreInv
  BY Given
<1>2. muddle' = Mark({task[r].flow}, "unread")
  BY <1>1, OldUnreadDoes
<1>3. \A f \in Flows : muddle[f] \subseteq muddle'[f] /\ (f = task[r].flow => "unread" \in muddle'[f])
  BY <1>1, <1>2, Marked DEF Reasons
<1>4. /\ Then(r, IF task[r].todo \ {task[r].flow} = {} THEN "insert" ELSE "flow",
              task[r].todo \ {task[r].flow}, NoFlow, task[r].insert,
              task[r].old, task[r].targets, task[r].alone \ {task[r].flow})
      /\ At(r, "old") /\ UNCHANGED <<row, file, source, configs>>
  BY <1>1, OldUnreadDoes
<1>5. /\ task[r].alone \ {task[r].flow} \subseteq task[r].alone
      /\ \A f \in Flows : f = task[r].flow =>
            \/ ActiveRows(f) \subseteq task[r].old
            \/ f \notin task[r].alone \ {task[r].flow} /\ "unread" \in muddle'[f]
  BY <1>3
<1> QED
  BY <1>3, <1>4, <1>5, FoundOwn

\* The file of a flow is uploaded, under a name that no active version has.
LEMMA UploadOwn ==
    ASSUME VersionInv, NEW r \in Requests, Frame(r), Upload(r)
    PROVE  OwnInv(r)
<1>0. PICK g : g = task[r].flow
  OBVIOUS
<1>1. CoreInv /\ RequestFits(r) /\ task[r] \in TaskType
  BY Given
<1>2. /\ task[r].pc = "upload" /\ task'[r].pc = "source" /\ task'[r].flow = g
      /\ task'[r].flows = task[r].flows /\ task'[r].todo = task[r].todo
      /\ task'[r].alone = task[r].alone /\ task'[r].old = task[r].old
      /\ task'[r].insert = task[r].insert
      /\ file' = [file EXCEPT ![<<g, task[r].insert[g]>>] = r]
      /\ UNCHANGED <<row, source, configs, muddle>>
  BY <1>0, <1>1, UploadDoes DEF Then, At
<1>3. g \in task[r].todo /\ g \in Flows /\ g \in Chosen(r)
  BY <1>0, <1>1, <1>2, FieldsOfTask DEF RequestFits, Chosen, Deploys, Loop
<1>4. /\ Chosen(r)' = Chosen(r) /\ Uploaded(r)' = Uploaded(r) \cup {g} /\ Read(r)' = Read(r)
      /\ Sourced(r)' = Sourced(r) /\ Ahead(r)' = Ahead(r) /\ g \notin Read(r) /\ g \notin Sourced(r)
  BY <1>0, <1>2, <1>3 DEF Chosen, Uploaded, Read, Sourced, Ahead, At, Deploys, Loop
<1>5. PICK v \in Versions : v = task[r].insert[g]
  BY <1>1, <1>3 DEF RequestFits
<1>6. /\ file \in [Flows \X Versions -> Requests \cup {NoFile}]
      /\ file'[g, v] = r
      /\ \A f \in Flows, w \in Versions : f # g \/ w # v => file'[f, w] = file[f, w]
  <2>1. file \in [Flows \X Versions -> Requests \cup {NoFile}]
    BY <1>1 DEF CoreInv, TypeOK
  <2>2. <<g, v>> \in Flows \X Versions
    BY <1>3, <1>5
  <2>3. \A p \in Flows \X Versions : file'[p] = IF p = <<g, v>> THEN r ELSE file[p]
    BY <1>2, <1>5, <2>1
  <2>4. ASSUME NEW f \in Flows, NEW w \in Versions, f # g \/ w # v PROVE file'[<<f, w>>] = file[<<f, w>>]
    <3>1. <<f, w>> \in Flows \X Versions /\ <<f, w>> # <<g, v>>
      BY <2>4
    <3> QED
      BY <2>3, <3>1
  <2> QED
    BY <2>1, <2>2, <2>3, <2>4
<1>7. \A f \in Flows : SameData(f)
  <2> TAKE f \in Flows
  <2>1. ActiveRows(f)' = ActiveRows(f)
    BY <1>2 DEF ActiveRows, IsActive, Rows
  <2> QED
    BY <1>2, <2>1 DEF SameData
<1> SUFFICES ASSUME NEW f \in Touches(task[r]) PROVE FlowInv(f)' /\ KnownInv(r, f)'
  BY DEF OwnInv
<1>8. f \in Flows /\ FlowInv(f) /\ KnownInv(r, f)
  BY Given
<1>9. CASE f # g
  <2>1. SameFiles(f)
    BY <1>6, <1>8, <1>9 DEF SameFiles
  <2>2. FlowInv(f)'
    BY <1>1, <1>2, <1>4, <1>7, <1>8, <2>1, FlowQuiet DEF At
  <2>3. Carries(r, f)
    BY <1>2, <1>4, <1>9 DEF Carries
  <2> QED
    BY <1>1, <1>7, <1>8, <2>1, <2>2, <2>3, KnownCarried
<1>10. CASE f = g
  <2>1. SameData(g) /\ FlowInv(g) /\ KnownInv(r, g)
    BY <1>7, <1>8, <1>10
  <2>2. /\ Clean(g, OfFile)' => Clean(g, OfFile)
        /\ Clean(g, OfActive)' => Clean(g, OfActive)
        /\ Clean(g, OfSource)' => Clean(g, OfSource)
        /\ Clean(g, OfConfig)' => Clean(g, OfConfig)
    BY <2>1, Cleaner DEF SameData
  <2>3. ASSUME Clean(g, OfFile) PROVE \A x \in ActiveRows(g) : file'[g, row[x].version] = file[g, row[x].version]
    <3> TAKE x \in ActiveRows(g)
    <3>1. Below(row[x].version, v)
      BY <1>2, <1>3, <1>5, <2>1, <2>3 DEF KnownInv, NewVersion, At
    <3>2. row[x].version \in Versions
      BY <1>1, <1>3, ActiveIsUsed
    <3>3. row[x].version # v
      BY <3>1, <3>2, VersionsArePairs DEF Below
    <3> QED
      BY <1>3, <1>6, <3>2, <3>3
  <2>4. FileThere(g)'
    <3> SUFFICES ASSUME Clean(g, OfFile)
                 PROVE  /\ \A x \in ActiveRows(g) : file'[g, row'[x].version] = row'[x].code
                        /\ \A x, y \in ActiveRows(g) : x < y => Below(row'[x].version, row'[y].version)
      BY <2>1, <2>2 DEF FileThere, SameData, Below
    <3>1. /\ \A x \in ActiveRows(g) : file[g, row[x].version] = row[x].code
          /\ \A x, y \in ActiveRows(g) : x < y => Below(row[x].version, row[y].version)
      BY <2>1 DEF FlowInv, FileThere
    <3> QED
      BY <1>2, <2>3, <3>1
  <2>5. Inserting(g) => Inserting(g)'
    BY <1>1, <1>2, <1>3, OthersInsert DEF At
  <2>6. OneActive(g)'
    BY <2>1, <2>2, <2>5 DEF FlowInv, OneActive, SameData
  <2>7. (\A q \in Requests : g \notin Ahead(q)') => (\A q \in Requests : g \notin Ahead(q))
    BY <1>1, <1>4, OthersSets
  <2>8. SourceThere(g)'
    BY <2>1, <2>2, <2>7 DEF FlowInv, SourceThere, SameData, Requests
  <2>9. ConfigThere(g)'
    BY <2>1, <2>2 DEF FlowInv, ConfigThere, SameData
  <2>10. FileUploaded(r, g)' /\ OneLeft(r, g)' /\ SourceUploaded(r, g)' /\ RowsGone(r, g)'
    BY <1>2, <1>4, <1>5, <1>6 DEF FileUploaded, OneLeft, SourceUploaded, RowsGone, At
  <2>11. NewVersion(r, g)'
    BY <1>2, <1>4, <2>1, <2>2 DEF KnownInv, NewVersion, SameData, At, Below
  <2>12. ConfigSeen(r, g)'
    BY <1>2, <1>4, <2>1, <2>2 DEF KnownInv, ConfigSeen, SameData, Knows
  <2> QED
    BY <1>10, <2>4, <2>6, <2>8, <2>9, <2>10, <2>11, <2>12 DEF FlowInv, KnownInv
<1> QED
  BY <1>9, <1>10

\* The source of a flow is uploaded: no row says so yet.
LEMMA UploadSourceOwn ==
    ASSUME VersionInv, NEW r \in Requests, Frame(r), UploadSource(r)
    PROVE  OwnInv(r)
<1>0. PICK g : g = task[r].flow
  OBVIOUS
<1>1. CoreInv /\ RequestFits(r) /\ task[r] \in TaskType
  BY Given
<1>2. /\ task[r].pc = "source" /\ task'[r].pc = "old" /\ task'[r].flow = g
      /\ task'[r].flows = task[r].flows /\ task'[r].todo = task[r].todo
      /\ task'[r].alone = task[r].alone /\ task'[r].old = task[r].old
      /\ task'[r].insert = task[r].insert
      /\ source' = [source EXCEPT ![g] = r]
      /\ UNCHANGED <<row, file, configs, muddle>>
  BY <1>0, <1>1, UploadSourceDoes DEF Then, At
<1>3. g \in task[r].todo /\ g \in Flows
  BY <1>0, <1>1, <1>2, FieldsOfTask DEF RequestFits
<1>4. /\ Chosen(r)' = Chosen(r) /\ Uploaded(r)' = Uploaded(r) /\ Read(r)' = Read(r)
      /\ Sourced(r)' = Sourced(r) \cup {g} /\ Ahead(r)' = Ahead(r) \cup {g}
  BY <1>0, <1>2, <1>3 DEF Chosen, Uploaded, Read, Sourced, Ahead, At, Deploys, Loop
<1>5. source'[g] = r /\ \A f \in Flows : f # g => source'[f] = source[f]
  BY <1>1, <1>2, <1>3 DEF CoreInv, TypeOK
<1> SUFFICES ASSUME NEW f \in Touches(task[r]) PROVE FlowInv(f)' /\ KnownInv(r, f)'
  BY DEF OwnInv
<1>6. f \in Flows /\ FlowInv(f) /\ KnownInv(r, f)
  BY Given
<1>7. ActiveRows(f)' = ActiveRows(f) /\ SameFiles(f)
  BY <1>2 DEF ActiveRows, IsActive, Rows, SameFiles
<1>8. CASE f # g
  <2>1. SameData(f)
    BY <1>2, <1>5, <1>6, <1>7, <1>8 DEF SameData
  <2>2. FlowInv(f)'
    BY <1>1, <1>2, <1>4, <1>6, <1>7, <2>1, FlowQuiet DEF At
  <2>3. Carries(r, f)
    BY <1>2, <1>4, <1>8 DEF Carries
  <2> QED
    BY <1>1, <1>6, <1>7, <2>1, <2>2, <2>3, KnownCarried
<1>9. CASE f = g
  <2>1. FlowInv(g) /\ KnownInv(r, g) /\ ActiveRows(g)' = ActiveRows(g) /\ SameFiles(g)
    BY <1>6, <1>7, <1>9
  <2>2. /\ Clean(g, OfFile)' <=> Clean(g, OfFile)
        /\ Clean(g, OfActive)' <=> Clean(g, OfActive)
        /\ Clean(g, OfConfig)' <=> Clean(g, OfConfig)
    BY <1>2 DEF Clean, OfFile, OfActive, OfConfig
  <2>3. Inserting(g) => Inserting(g)'
    BY <1>1, <1>2, <1>3, OthersInsert DEF At
  <2>4. OneActive(g)'
    BY <2>1, <2>2, <2>3 DEF FlowInv, OneActive
  <2>5. FileThere(g)'
    <3>1. Clean(g, OfFile) =>
            /\ \A x \in ActiveRows(g) : file[g, row[x].version] = row[x].code
            /\ \A x, y \in ActiveRows(g) : x < y => Below(row[x].version, row[y].version)
      BY <2>1 DEF FlowInv, FileThere
    <3> SUFFICES ASSUME Clean(g, OfFile)
                 PROVE  /\ \A x \in ActiveRows(g) : file'[g, row'[x].version] = row'[x].code
                        /\ \A x, y \in ActiveRows(g) : x < y => Below(row'[x].version, row'[y].version)
      BY <2>1, <2>2 DEF FileThere, Below
    <3> QED
      BY <1>2, <3>1
  <2>6. SourceThere(g)'
    BY <1>4 DEF SourceThere, Requests
  <2>7. ConfigThere(g)'
    BY <1>2, <2>1, <2>2 DEF FlowInv, ConfigThere
  <2>8. SourceUploaded(r, g)'
    BY <1>5 DEF SourceUploaded
  <2>9. /\ Knows(r, g, OfFile)' <=> Knows(r, g, OfFile)
        /\ Knows(r, g, OfActive)' <=> Knows(r, g, OfActive)
        /\ Knows(r, g, OfConfig)' <=> Knows(r, g, OfConfig)
    BY <1>2, <2>2 DEF Knows
  <2>10. ~At(r, "deactivate") /\ ~At(r, "deactivate")' /\ ~At(r, "config")'
    BY <1>2 DEF At
  <2>11. OneLeft(r, g)' /\ RowsGone(r, g)'
    BY <1>2, <1>4, <2>1, <2>9, <2>10 DEF KnownInv, OneLeft, RowsGone
  <2>12. NewVersion(r, g)' /\ ConfigSeen(r, g)'
    BY <1>2, <1>4, <2>1, <2>2, <2>9, <2>10 DEF KnownInv, NewVersion, ConfigSeen, Below
  <2>13. FileUploaded(r, g)'
    BY <1>2, <1>4, <2>1, <2>9 DEF KnownInv, FileUploaded
  <2> QED
    BY <1>9, <2>4, <2>5, <2>6, <2>7, <2>8, <2>11, <2>12, <2>13 DEF FlowInv, KnownInv
<1> QED
  BY <1>8, <1>9

\* The deploy whose file was not uploaded ends after its source: it is marked as ahead.
LEMMA UploadLastSourceOwn ==
    ASSUME VersionInv, NEW r \in Requests, Frame(r), UploadLastSource(r)
    PROVE  OwnInv(r)
<1>1. CoreInv /\ task[r] \in TaskType
  BY Given
<1>2. /\ task[r].pc = "lastSource" /\ task'[r].pc = "idle"
      /\ source' = [source EXCEPT ![task[r].flow] = r]
      /\ \A f \in Flows :
            /\ muddle[f] \subseteq muddle'[f]
            /\ f \in Ahead(r) \cup {task[r].flow} => "ahead" \in muddle'[f]
      /\ UNCHANGED <<row, file, configs>>
  BY <1>1, UploadLastSourceDoes, IdleIsTask DEF Over, At
<1> SUFFICES ASSUME NEW f \in Touches(task[r]) PROVE FlowInv(f)' /\ KnownInv(r, f)'
  BY DEF OwnInv
<1>3. f \in Flows /\ FlowInv(f)
  BY Given
<1>4. KnownInv(r, f)'
  BY <1>2, KnownNothing DEF Deploys, Loop
<1>5. ActiveRows(f)' = ActiveRows(f) /\ SameFiles(f)
  BY <1>2 DEF ActiveRows, IsActive, Rows, SameFiles
<1>6. CASE f # task[r].flow
  <2>1. source'[f] = source[f]
    BY <1>1, <1>2, <1>3, <1>6 DEF CoreInv, TypeOK
  <2>2. SameData(f)
    BY <1>2, <1>3, <1>5, <2>1 DEF SameData
  <2>3. f \in Ahead(r) => "ahead" \in muddle'[f]
    BY <1>2, <1>3
  <2>4. ~At(r, "deactivate")
    BY <1>2 DEF At
  <2> QED
    BY <1>1, <1>3, <1>4, <1>5, <2>2, <2>3, <2>4, FlowQuiet
<1>7. CASE f = task[r].flow
  <2>1. ~Clean(f, OfSource)'
    BY <1>2, <1>3, <1>7, NotClean
  <2>2. /\ Clean(f, OfActive)' => Clean(f, OfActive)
        /\ Clean(f, OfFile)' => Clean(f, OfFile)
        /\ Clean(f, OfConfig)' => Clean(f, OfConfig)
    BY <1>2, <1>3, Cleaner
  <2>3. SourceThere(f)'
    BY <2>1 DEF SourceThere
  <2>4. Inserting(f) => Inserting(f)'
    BY <1>1, <1>2, <1>3, OthersInsert DEF At
  <2>5. OneActive(f)'
    BY <1>3, <1>5, <2>2, <2>4 DEF FlowInv, OneActive
  <2>6. FileThere(f)'
    BY <1>2, <1>3, <1>5, <2>2 DEF FlowInv, FileThere, Below
  <2>7. ConfigThere(f)'
    BY <1>2, <1>3, <1>5, <2>2 DEF FlowInv, ConfigThere
  <2> QED
    BY <1>4, <2>3, <2>5, <2>6, <2>7 DEF FlowInv
<1> QED
  BY <1>6, <1>7

\* A request that leaves: a deploy marks what it leaves half done.
LEMMA LeavesOwn ==
    ASSUME VersionInv, NEW r \in Requests, Frame(r), Leaves(r)
    PROVE  OwnInv(r)
<1>1. CoreInv
  BY Given
<1>2. /\ task'[r].pc = "idle" /\ UNCHANGED <<row, file, source, configs>>
      /\ \A f \in Flows :
            /\ muddle[f] \subseteq muddle'[f]
            /\ At(r, "deactivate") /\ f \in task[r].flows => "partial" \in muddle'[f]
            /\ ~At(r, "deactivate") /\ f \in Ahead(r) => "ahead" \in muddle'[f]
  BY <1>1, LeavesDoes, IdleIsTask DEF Over
<1>3. At(r, "deactivate") => Ahead(r) = {}
  BY DEF At, Ahead
<1>4. \A f \in Flows :
         /\ muddle[f] \subseteq muddle'[f]
         /\ At(r, "deactivate") /\ f \in task[r].flows => "partial" \in muddle'[f]
         /\ f \in Ahead(r) => "ahead" \in muddle'[f]
  BY <1>2, <1>3
<1>5. task'[r].pc \notin Deploys \cup {"config"}
  BY <1>2 DEF Deploys, Loop
<1> QED
  BY <1>2, <1>4, <1>5, QuietEnd

LEMMA ReconcileOwn ==
    ASSUME VersionInv, NEW r \in Requests, Frame(r), ReconcileDifferences(r)
    PROVE  OwnInv(r)
<1>1. CoreInv /\ RequestFits(r)
  BY Given
<1>2. /\ task'[r].pc \in {"idle", "files"} /\ UNCHANGED <<row, file, source, configs, muddle>>
      /\ task[r].pc = "reconcile" \/ (task[r].pc = "flow" /\ task[r].flows = {})
  BY <1>1, ReconcileDoes, IdleIsTask DEF Over, Then, At
<1>3. Ahead(r) = {} /\ ~At(r, "deactivate")
  BY <1>2 DEF Ahead, At
<1>4. task'[r].pc \notin Deploys \cup {"config"}
  BY <1>2 DEF Deploys, Loop
<1> QED
  BY <1>2, <1>3, <1>4, QuietEnd

LEMMA FilesKeptOwn ==
    ASSUME VersionInv, NEW r \in Requests, Frame(r), NEW x \in Rows, FilesKept(r, x)
    PROVE  OwnInv(r)
<1>1. CoreInv
  BY Given
<1>2. /\ task'[r].pc = "row" /\ UNCHANGED <<row, file, source, configs, muddle>>
      /\ task[r].pc = "files"
  BY <1>1, FilesKeptDoes DEF Then, At
<1>3. Ahead(r) = {} /\ ~At(r, "deactivate")
  BY <1>2 DEF Ahead, At
<1>4. task'[r].pc \notin Deploys \cup {"config"}
  BY <1>2 DEF Deploys, Loop
<1> QED
  BY <1>2, <1>3, <1>4, QuietEnd

LEMMA ConfigFilesKeptOwn ==
    ASSUME VersionInv, NEW r \in Requests, Frame(r), ConfigFilesKept(r)
    PROVE  OwnInv(r)
<1>1. CoreInv
  BY Given
<1>2. /\ task'[r].pc = "configRows" /\ UNCHANGED <<row, file, source, configs, muddle>>
      /\ task[r].pc = "configFiles"
  BY <1>1, ConfigFilesKeptDoes DEF Then, At
<1>3. Ahead(r) = {} /\ ~At(r, "deactivate")
  BY <1>2 DEF Ahead, At
<1>4. task'[r].pc \notin Deploys \cup {"config"}
  BY <1>2 DEF Deploys, Loop
<1> QED
  BY <1>2, <1>3, <1>4, QuietEnd

\* The files of a provider config are deleted: its flow is marked.
LEMMA DroppedOwn ==
    ASSUME VersionInv, NEW r \in Requests, Frame(r), NEW id \in Nat, DeleteSyncFilesForConfig(id),
           UNCHANGED <<row, source, configs>>, task[r].pc \in {"files", "configFiles"},
           task'[r].pc \in {"row", "configRows"}
    PROVE  OwnInv(r)
<1>1. CoreInv
  BY Given
<1>2. Ahead(r) = {} /\ ~At(r, "deactivate") /\ task'[r].pc \notin Deploys \cup {"config"}
  BY DEF Ahead, At, Deploys, Loop
<1>3. /\ \A f \in Flows \ {id} : \A v \in Versions : file'[f, v] = file[f, v]
      /\ \A f \in Flows \ {id} : muddle'[f] = muddle[f]
      /\ id \in Flows => muddle[id] \subseteq muddle'[id] /\ "dropped" \in muddle'[id]
  BY <1>1, FilesGo
<1> SUFFICES ASSUME NEW f \in Touches(task[r]) PROVE FlowInv(f)' /\ KnownInv(r, f)'
  BY DEF OwnInv
<1>4. f \in Flows /\ FlowInv(f)
  BY Given
<1>5. muddle[f] \subseteq muddle'[f] /\ (SameFiles(f) \/ Dropped(f))
  BY <1>3, <1>4 DEF SameFiles, Dropped
<1>6. ActiveRows(f)' = ActiveRows(f)
  BY DEF ActiveRows, IsActive, Rows
<1>7. SameData(f)
  BY <1>5, <1>6 DEF SameData
<1> QED
  BY <1>1, <1>2, <1>4, <1>5, <1>7, FlowQuiet, KnownNothing

LEMMA DropFilesOwn ==
    ASSUME VersionInv, NEW r \in Requests, Frame(r), NEW x \in Rows, DropFiles(r, x)
    PROVE  OwnInv(r)
<1>1. CoreInv
  BY Given
<1>2. /\ task[r].pc = "files" /\ task'[r].pc = "row" /\ DeleteSyncFilesForConfig(x)
      /\ UNCHANGED <<row, source, configs>>
  BY <1>1, DropFilesDoes DEF Then, At
<1>3. x \in Nat
  BY DEF Rows
<1> QED
  BY <1>2, <1>3, DroppedOwn

LEMMA DropConfigFilesOwn ==
    ASSUME VersionInv, NEW r \in Requests, Frame(r), DropConfigFiles(r)
    PROVE  OwnInv(r)
<1>1. CoreInv /\ task[r] \in TaskType
  BY Given
<1>2. /\ task[r].pc = "configFiles" /\ task'[r].pc = "configRows"
      /\ DeleteSyncFilesForConfig(task[r].flow) /\ UNCHANGED <<row, source, configs>>
  BY <1>1, DropConfigFilesDoes DEF Then, At
<1>3. task[r].flow \in Nat
  <2>1. task[r].flow \in Flows \cup {NoFlow}
    BY <1>1, FieldsOfTask
  <2>2. Flows \subseteq Nat /\ NoFlow \in Nat
    BY DEF Flows, NoFlow
  <2> QED
    BY <2>1, <2>2
<1> QED
  BY <1>2, <1>3, DroppedOwn

(***************************************************************************)
(* The steps that delete rows.                                             *)
(***************************************************************************)

\* A flow that loses active rows, and that no deploy has inserted.
LEMMA FlowLosesRows ==
    ASSUME CoreInv, NEW r \in Requests, Frame(r), NEW f \in Touches(task[r]), f \in Flows, FlowInv(f),
           ActiveRows(f)' \subseteq ActiveRows(f), \A x \in ActiveRows(f)' : row'[x] = row[x],
           UNCHANGED <<file, source, muddle>>, f \in configs => f \in configs' \/ ActiveRows(f)' = {},
           task[r].pc # "deactivate", Ahead(r) = {}
    PROVE  FlowInv(f)'
<1>1. /\ Clean(f, OfActive)' <=> Clean(f, OfActive)
      /\ Clean(f, OfFile)' <=> Clean(f, OfFile)
      /\ Clean(f, OfSource)' <=> Clean(f, OfSource)
      /\ Clean(f, OfConfig)' <=> Clean(f, OfConfig)
  BY DEF Clean, OfActive, OfFile, OfSource, OfConfig
<1>2. Clean(f, OfActive) => ~Inserting(f)
  <2> SUFFICES ASSUME NEW q \in Requests, At(q, "deactivate"), f \in task[q].flows
               PROVE  ~Clean(f, OfActive)
    BY DEF Inserting
  <2>1. q # r /\ task[r].pc # "idle"
    BY DEF At, Frame
  <2>2. task[q].pc # "idle" /\ f \in Touches(task[q])
    BY OwnSets
  <2>3. "overlap" \in muddle[f]
    BY <2>1, <2>2, TouchedByOne
  <2> QED
    BY <2>3, NotClean
<1>3. Clean(f, OfActive) => \A x, y \in ActiveRows(f) : x = y
  BY <1>2 DEF FlowInv, OneActive
<1>4. OneActive(f)'
  BY <1>1, <1>3 DEF OneActive
<1>5. FileThere(f)'
  <2>1. Clean(f, OfFile) =>
          /\ \A x \in ActiveRows(f) : file[f, row[x].version] = row[x].code
          /\ \A x, y \in ActiveRows(f) : x < y => Below(row[x].version, row[y].version)
    BY DEF FlowInv, FileThere
  <2> SUFFICES ASSUME Clean(f, OfFile)
               PROVE  /\ \A x \in ActiveRows(f)' : file'[f, row'[x].version] = row'[x].code
                      /\ \A x, y \in ActiveRows(f)' :
                            x < y => Below(row'[x].version, row'[y].version)
    BY <1>1 DEF FileThere, Below
  <2> QED
    BY <2>1
<1>6. SourceThere(f)'
  <2>1. ASSUME Clean(f, OfSource)', \A q \in Requests : f \notin Ahead(q)', NEW x \in ActiveRows(f)'
        PROVE  source'[f] = row'[x].code
    <3>1. \A q \in Requests : f \notin Ahead(q)
      BY <2>1, OthersSets
    <3>2. Clean(f, OfSource) /\ Clean(f, OfActive)
      BY <1>1, <2>1, NotClean
    <3>3. x \in ActiveRows(f) /\ \A y \in ActiveRows(f) : y = x
      BY <1>3, <2>1, <3>2
    <3>4. x \in Nat
      BY <3>3 DEF ActiveRows, Rows
    <3>5. \A y \in ActiveRows(f) : y <= x
      BY <3>3, <3>4
    <3>6. source[f] = row[x].code
      BY <3>1, <3>2, <3>3, <3>5 DEF FlowInv, SourceThere
    <3> QED
      BY <2>1, <3>6
  <2> QED
    BY <2>1 DEF SourceThere, Requests
<1>7. ConfigThere(f)'
  BY <1>1 DEF FlowInv, ConfigThere
<1> QED
  BY <1>4, <1>5, <1>6, <1>7 DEF FlowInv

LEMMA DropRowOwn ==
    ASSUME VersionInv, NEW r \in Requests, Frame(r), DropRow(r)
    PROVE  OwnInv(r)
<1>1. CoreInv
  BY Given
<1>2. /\ task[r].pc = "row" /\ task'[r].pc \in {"idle", "files"}
      /\ UNCHANGED <<file, source, configs, muddle>>
  BY <1>1, DropRowDoes, IdleIsTask DEF Over, Then, At
<1>3. Ahead(r) = {} /\ task'[r].pc \notin Deploys \cup {"config"}
  BY <1>2 DEF Ahead, At, Deploys, Loop
<1> SUFFICES ASSUME NEW f \in Touches(task[r]) PROVE FlowInv(f)' /\ KnownInv(r, f)'
  BY DEF OwnInv
<1>4. f \in Flows /\ FlowInv(f)
  BY Given
<1>5. ActiveRows(f)' \subseteq ActiveRows(f)
  BY <1>1, <1>2, <1>4, ActiveKeep DEF At
<1>6. \A x \in ActiveRows(f)' : row'[x] = row[x]
  BY <1>1, <1>4, <1>5, ActiveKeep
<1> QED
  BY <1>1, <1>2, <1>3, <1>4, <1>5, <1>6, FlowLosesRows, KnownNothing

LEMMA DropConfigRowsOwn ==
    ASSUME VersionInv, NEW r \in Requests, Frame(r), DropConfigRows(r)
    PROVE  OwnInv(r)
<1>1. CoreInv /\ task[r] \in TaskType
  BY Given
<1>2. /\ task[r].pc = "configRows" /\ task'[r].pc = "config" /\ task'[r].flow = task[r].flow
      /\ UNCHANGED <<file, source, configs, muddle>>
      /\ row' = [x \in Rows |-> IF row[x].flow = task[r].flow
                                THEN [row[x] EXCEPT !.state = "deleted"] ELSE row[x]]
  BY <1>1, DropConfigRowsDoes DEF Then, At
<1>3. Ahead(r) = {}
  BY <1>2 DEF Ahead, At
<1> SUFFICES ASSUME NEW f \in Touches(task[r]) PROVE FlowInv(f)' /\ KnownInv(r, f)'
  BY DEF OwnInv
<1>4. f \in Flows /\ FlowInv(f) /\ f = task[r].flow
  BY <1>1, <1>2, Given, TouchesWhat
<1>5. ActiveRows(f)' = {}
  <2> SUFFICES ASSUME NEW x \in Rows, row'[x].flow = f, row'[x].state = "active" PROVE FALSE
    BY DEF ActiveRows, IsActive, Rows
  <2>1. row[x] \in RowType
    BY <1>1 DEF CoreInv, TypeOK
  <2>2. CASE row[x].flow = f
    BY <1>2, <1>4, <2>1, <2>2 DEF RowType
  <2>3. CASE row[x].flow # f
    BY <1>2, <1>4, <2>3
  <2> QED
    BY <2>2, <2>3
<1>6. FlowInv(f)'
  BY <1>1, <1>2, <1>3, <1>4, <1>5, FlowLosesRows
<1>7. f \notin Chosen(r)' /\ f \notin Uploaded(r)' /\ f \notin Read(r)' /\ f \notin Sourced(r)'
  BY <1>2 DEF Chosen, Uploaded, Read, Sourced, Ahead, At, Deploys, Loop
<1>8. KnownInv(r, f)'
  BY <1>5, <1>7 DEF KnownInv, OneLeft, NewVersion, FileUploaded, SourceUploaded, ConfigSeen,
     RowsGone
<1> QED
  BY <1>6, <1>8

LEMMA DropConfigOwn ==
    ASSUME VersionInv, NEW r \in Requests, Frame(r), DropConfig(r)
    PROVE  OwnInv(r)
<1>1. CoreInv /\ task[r] \in TaskType
  BY Given
<1>2. /\ task[r].pc = "config" /\ task'[r].pc = "idle"
      /\ configs' = configs \ {task[r].flow} /\ UNCHANGED <<row, file, source, muddle>>
  BY <1>1, DropConfigDoes, IdleIsTask DEF Over, At
<1>3. Ahead(r) = {} /\ task'[r].pc \notin Deploys \cup {"config"} /\ At(r, "config")
  BY <1>2 DEF Ahead, At, Deploys, Loop
<1> SUFFICES ASSUME NEW f \in Touches(task[r]) PROVE FlowInv(f)' /\ KnownInv(r, f)'
  BY DEF OwnInv
<1>4. f \in Flows /\ FlowInv(f) /\ KnownInv(r, f) /\ f = task[r].flow
  BY <1>1, <1>2, Given, TouchesWhat
<1>5. ActiveRows(f)' = ActiveRows(f)
  BY <1>2 DEF ActiveRows, IsActive, Rows
<1>6. Clean(f, OfConfig)' => ActiveRows(f) = {}
  <2>1. Clean(f, OfConfig)' => Clean(f, OfConfig)
    BY <1>2 DEF Clean, OfConfig
  <2> QED
    BY <1>3, <1>4, <2>1 DEF KnownInv, RowsGone
<1>7. ConfigThere(f)'
  BY <1>5, <1>6 DEF ConfigThere
<1>8. /\ Clean(f, OfActive)' => Clean(f, OfActive)
      /\ Clean(f, OfFile)' => Clean(f, OfFile)
      /\ Clean(f, OfSource)' => Clean(f, OfSource)
  BY <1>2, Cleaner
<1>9. Inserting(f) => Inserting(f)'
  BY <1>1, <1>2, <1>4, OthersInsert DEF At
<1>10. OneActive(f)'
  BY <1>4, <1>5, <1>8, <1>9 DEF FlowInv, OneActive
<1>11. FileThere(f)'
  <2>1. Clean(f, OfFile) =>
          /\ \A x \in ActiveRows(f) : file[f, row[x].version] = row[x].code
          /\ \A x, y \in ActiveRows(f) : x < y => Below(row[x].version, row[y].version)
    BY <1>4 DEF FlowInv, FileThere
  <2> QED
    BY <1>2, <1>5, <1>8, <2>1 DEF FileThere, Below
<1>12. SourceThere(f)'
  <2>1. (\A q \in Requests : f \notin Ahead(q)') => (\A q \in Requests : f \notin Ahead(q))
    BY <1>1, <1>3, OthersSets
  <2> QED
    BY <1>2, <1>4, <1>5, <1>8, <2>1 DEF FlowInv, SourceThere, Requests
<1> QED
  BY <1>3, <1>7, <1>10, <1>11, <1>12, KnownNothing DEF FlowInv

(***************************************************************************)
(* The two statements of a deploy on the rows.                             *)
(***************************************************************************)

\* After the insert: what a deploy read of a flow, and what it inserted.
LEMMA InsertedRows ==
    ASSUME CoreInv, NEW r \in Requests, Frame(r), Insert(r), NEW f \in Flows
    PROVE  /\ f \notin task[r].flows => ActiveRows(f)' = ActiveRows(f)
           /\ f \in task[r].flows =>
                 \E y \in Rows :
                    /\ ActiveRows(f)' = ActiveRows(f) \cup {y} /\ y \notin ActiveRows(f)
                    /\ \A x \in ActiveRows(f) : x < y
                    /\ row'[y].version = task[r].insert[f] /\ row'[y].code = r
           /\ \A x \in ActiveRows(f) : row'[x] = row[x]
<1>1. PICK n \in 0..MaxRequests : RoomFor(n)
  BY DEF CoreInv, Room
<1>2. /\ \A x \in Used : row'[x] = row[x]
      /\ \A g \in task[r].flows : \E y \in Rows \ Used :
            /\ row'[y] = NewRowOf(r, g) /\ \A x \in Used : x < y
            /\ \A z \in Rows \ Used : row'[z].flow = g => z = y
      /\ \A z \in Rows \ Used : row'[z] = row[z] \/ \E g \in task[r].flows : row'[z] = NewRowOf(r, g)
  BY <1>1, InsertRows
<1>3. \A x \in ActiveRows(f) : x \in Used /\ row'[x] = row[x]
  BY <1>2, ActiveIsUsed
<1>4. /\ ActiveRows(f)' = {x \in Rows : row'[x].flow = f /\ row'[x].state = "active"}
      /\ ActiveRows(f) = {x \in Rows : row[x].flow = f /\ row[x].state = "active"}
  BY DEF ActiveRows, IsActive, Rows
<1>5. ActiveRows(f) \subseteq ActiveRows(f)'
  BY <1>3, <1>4
<1>6. \A x \in ActiveRows(f)' : x \in Used => x \in ActiveRows(f)
  BY <1>2, <1>4
<1>7. \A x \in ActiveRows(f)' : x \notin Used => f \in task[r].flows /\ row'[x].flow = f /\ x \in Rows
  <2> TAKE x \in ActiveRows(f)'
  <2> HAVE x \notin Used
  <2>1. x \in Rows /\ row'[x].flow = f /\ row'[x].state = "active"
    BY <1>4
  <2>2. row'[x] # row[x]
    BY <2>1 DEF Used
  <2>3. PICK g \in task[r].flows : row'[x] = NewRowOf(r, g)
    BY <1>2, <2>1, <2>2
  <2>4. g = f
    BY <2>1, <2>3 DEF NewRowOf
  <2> QED
    BY <2>1, <2>3, <2>4
<1>8. ASSUME f \in task[r].flows
      PROVE  \E y \in Rows :
                /\ ActiveRows(f)' = ActiveRows(f) \cup {y} /\ y \notin ActiveRows(f)
                /\ \A x \in ActiveRows(f) : x < y
                /\ row'[y].version = task[r].insert[f] /\ row'[y].code = r
  <2>1. PICK y \in Rows \ Used :
          /\ row'[y] = NewRowOf(r, f) /\ \A x \in Used : x < y
          /\ \A z \in Rows \ Used : row'[z].flow = f => z = y
    BY <1>2, <1>8
  <2>2. /\ row'[y].flow = f /\ row'[y].state = "active" /\ row'[y].version = task[r].insert[f]
        /\ row'[y].code = r
    BY <2>1 DEF NewRowOf
  <2>3. y \in ActiveRows(f)' /\ y \notin ActiveRows(f)
    BY <1>3, <1>4, <2>1, <2>2
  <2>4. \A x \in ActiveRows(f)' : x \in ActiveRows(f) \/ x = y
    BY <1>6, <1>7, <2>1
  <2> QED
    BY <1>3, <1>5, <2>1, <2>2, <2>3, <2>4
<1> QED
  BY <1>3, <1>5, <1>6, <1>7, <1>8

LEMMA InsertOwn ==
    ASSUME VersionInv, NEW r \in Requests, Frame(r), Insert(r)
    PROVE  OwnInv(r)
<1> USE DEF KnownInv
<1>1. CoreInv /\ RequestFits(r) /\ task[r] \in TaskType
  BY Given
<1>2. /\ task[r].pc = "insert" /\ task'[r].pc = "deactivate"
      /\ task'[r].flows = task[r].flows /\ task'[r].todo = task[r].todo
      /\ task'[r].alone = task[r].alone /\ task'[r].old = task[r].old
      /\ task'[r].insert = task[r].insert
      /\ UNCHANGED <<file, source, configs, muddle>>
  BY <1>1, InsertDoes DEF Then, At
<1>3. task[r].todo = {} /\ task[r].flows \subseteq Flows
  BY <1>1, <1>2, FieldsOfTask DEF RequestFits
<1>4. /\ Chosen(r) = task[r].flows /\ Chosen(r)' = task[r].flows
      /\ Uploaded(r) = task[r].flows /\ Uploaded(r)' = task[r].flows
      /\ Read(r) = task[r].flows /\ Read(r)' = task[r].flows
      /\ Sourced(r) = task[r].flows /\ Sourced(r)' = task[r].flows
      /\ Ahead(r) = task[r].flows
  BY <1>2, <1>3 DEF Chosen, Uploaded, Read, Sourced, Ahead, At, Deploys, Loop
<1>5. ~At(r, "deactivate") /\ At(r, "deactivate")' /\ ~At(r, "config")'
  BY <1>2 DEF At
<1> SUFFICES ASSUME NEW f \in Touches(task[r]) PROVE FlowInv(f)' /\ KnownInv(r, f)'
  BY DEF OwnInv
<1>6. f \in Flows /\ FlowInv(f) /\ KnownInv(r, f)
  BY Given
<1>7. /\ Clean(f, OfActive)' <=> Clean(f, OfActive)
      /\ Clean(f, OfFile)' <=> Clean(f, OfFile)
      /\ Clean(f, OfSource)' <=> Clean(f, OfSource)
      /\ Clean(f, OfConfig)' <=> Clean(f, OfConfig)
  BY <1>2 DEF Clean, OfActive, OfFile, OfSource, OfConfig
<1>8. /\ Knows(r, f, OfActive)' <=> Knows(r, f, OfActive)
      /\ Knows(r, f, OfFile)' <=> Knows(r, f, OfFile)
      /\ Knows(r, f, OfSource)' <=> Knows(r, f, OfSource)
      /\ Knows(r, f, OfConfig)' <=> Knows(r, f, OfConfig)
  BY <1>2, <1>7 DEF Knows
<1>9. CASE f \notin task[r].flows
  <2>1. KnownInv(r, f)'
    BY <1>4, <1>5, <1>9 DEF OneLeft, NewVersion, FileUploaded, SourceUploaded, ConfigSeen,
       RowsGone
  <2>2. ActiveRows(f)' = ActiveRows(f) /\ \A x \in ActiveRows(f) : row'[x] = row[x]
    BY <1>1, <1>6, <1>9, InsertedRows
  <2>3. SameData(f) /\ SameFiles(f)
    BY <1>2, <2>2 DEF SameData, SameFiles
  <2>4. FlowInv(f)'
    BY <1>1, <1>4, <1>5, <1>6, <1>9, <2>3, FlowQuiet
  <2> QED
    BY <2>1, <2>4
<1>10. CASE f \in task[r].flows
  <2>1. PICK y \in Rows :
          /\ ActiveRows(f)' = ActiveRows(f) \cup {y} /\ y \notin ActiveRows(f)
          /\ \A x \in ActiveRows(f) : x < y
          /\ row'[y].version = task[r].insert[f] /\ row'[y].code = r
    BY <1>1, <1>6, <1>10, InsertedRows
  <2>2. \A x \in ActiveRows(f) : row'[x] = row[x]
    BY <1>1, <1>6, InsertedRows
  <2>3. y \in Nat /\ \A x \in ActiveRows(f) : x \in Nat
    BY DEF Rows, ActiveRows
  <2>4. OneActive(f)'
    <3>1. Inserting(f)'
      BY <1>2, <1>10 DEF Inserting, At, Requests
    <3> QED
      BY <3>1 DEF OneActive
  <2>5. ASSUME Clean(f, OfFile)
        PROVE  /\ \A x \in ActiveRows(f)' : file'[f, row'[x].version] = row'[x].code
               /\ \A x, z \in ActiveRows(f)' : x < z => Below(row'[x].version, row'[z].version)
    <3>1. /\ \A x \in ActiveRows(f) : file[f, row[x].version] = row[x].code
          /\ \A x, z \in ActiveRows(f) : x < z => Below(row[x].version, row[z].version)
      BY <1>6, <2>5 DEF FlowInv, FileThere
    <3>2. file[f, task[r].insert[f]] = r
      BY <1>4, <1>6, <1>10, <2>5 DEF FileUploaded, Knows
    <3>3. \A x \in ActiveRows(f) : Below(row[x].version, task[r].insert[f])
      BY <1>4, <1>5, <1>6, <1>10, <2>5 DEF NewVersion
    <3>4. \A x \in ActiveRows(f)' : file'[f, row'[x].version] = row'[x].code
      BY <1>2, <2>1, <2>2, <3>1, <3>2
    <3>5. \A x, z \in ActiveRows(f)' : x < z => Below(row'[x].version, row'[z].version)
      <4> TAKE x, z \in ActiveRows(f)'
      <4> HAVE x < z
      <4>1. x # y
        BY <2>1, <2>3
      <4>2. x \in ActiveRows(f) /\ row'[x] = row[x]
        BY <2>1, <2>2, <4>1
      <4>3. CASE z = y
        BY <2>1, <3>3, <4>2, <4>3
      <4>4. CASE z # y
        BY <2>1, <2>2, <3>1, <4>2, <4>4
      <4> QED
        BY <4>3, <4>4
    <3> QED
      BY <3>4, <3>5
  <2>6. FileThere(f)'
    BY <1>7, <2>5 DEF FileThere, Below
  <2>7. SourceThere(f)'
    <3> SUFFICES ASSUME Clean(f, OfSource)', NEW x \in ActiveRows(f)',
                        \A z \in ActiveRows(f)' : z <= x
                 PROVE  source'[f] = row'[x].code
      BY DEF SourceThere
    <3>1. x = y
      <4>1. y <= x
        BY <2>1
      <4>2. x \in ActiveRows(f) => x < y
        BY <2>1
      <4> QED
        BY <2>1, <2>3, <4>1, <4>2
    <3>2. source[f] = r
      BY <1>4, <1>6, <1>7, <1>10 DEF SourceUploaded, Knows
    <3> QED
      BY <1>2, <2>1, <3>1, <3>2
  <2>8. ConfigThere(f)'
    BY <1>2, <1>4, <1>6, <1>7, <1>10 DEF ConfigSeen, ConfigThere, Knows
  <2>9. OneLeft(r, f)'
    <3> SUFFICES ASSUME Knows(r, f, OfActive)'
                 PROVE  \A x \in ActiveRows(f)' \ task[r].old :
                           /\ row'[x].version = task[r].insert[f] /\ row'[x].code = r
                           /\ \A z \in ActiveRows(f)' \ task[r].old : x = z
      BY <1>2, <1>5 DEF OneLeft
    <3>1. ActiveRows(f) \subseteq task[r].old
      BY <1>4, <1>5, <1>6, <1>8, <1>10 DEF OneLeft
    <3>2. \A x \in ActiveRows(f)' \ task[r].old : x = y
      BY <2>1, <3>1
    <3> QED
      BY <2>1, <3>2
  <2>10. NewVersion(r, f)' /\ RowsGone(r, f)'
    BY <1>5 DEF NewVersion, RowsGone
  <2>11. FileUploaded(r, f)'
    BY <1>2, <1>4, <1>6, <1>8, <1>10 DEF FileUploaded
  <2>12. SourceUploaded(r, f)' /\ ConfigSeen(r, f)'
    BY <1>2, <1>4, <1>6, <1>8, <1>10 DEF SourceUploaded, ConfigSeen
  <2> QED
    BY <2>4, <2>6, <2>7, <2>8, <2>9, <2>10, <2>11, <2>12 DEF FlowInv
<1> QED
  BY <1>9, <1>10

\* The rows that a deploy read are inactive.
LEMMA RowsLeft ==
    ASSUME CoreInv, NEW r \in Requests, Frame(r), Deactivate(r), NEW f \in Flows
    PROVE  /\ ActiveRows(f)' = ActiveRows(f) \ task[r].old
           /\ \A x \in ActiveRows(f)' : row'[x] = row[x]
<1>1. row' = [x \in Rows |-> IF x \in task[r].old /\ row[x].state = "active"
                             THEN [row[x] EXCEPT !.state = "inactive"] ELSE row[x]]
  BY DeactivateDoes
<1>2. \A x \in Rows : row[x] \in RowType
  BY DEF CoreInv, TypeOK
<1>3. /\ ActiveRows(f)' = {x \in Rows : row'[x].flow = f /\ row'[x].state = "active"}
      /\ ActiveRows(f) = {x \in Rows : row[x].flow = f /\ row[x].state = "active"}
  BY DEF ActiveRows, IsActive, Rows
<1>4. ASSUME NEW x \in Rows
      PROVE  /\ x \in task[r].old => row'[x].state # "active"
             /\ x \notin task[r].old => row'[x] = row[x]
  BY <1>1, <1>2 DEF RowType
<1>5. \A x \in ActiveRows(f)' : x \notin task[r].old /\ row'[x] = row[x] /\ x \in ActiveRows(f)
  BY <1>3, <1>4
<1>6. \A x \in ActiveRows(f) \ task[r].old : x \in ActiveRows(f)'
  BY <1>3, <1>4
<1> QED
  BY <1>5, <1>6

LEMMA DeactivateOwn ==
    ASSUME VersionInv, NEW r \in Requests, Frame(r), Deactivate(r)
    PROVE  OwnInv(r)
<1>1. CoreInv /\ RequestFits(r) /\ task[r] \in TaskType
  BY Given
<1>2. /\ task[r].pc = "deactivate" /\ task'[r].pc \in {"idle", "reconcile"}
      /\ muddle' = [f \in Flows |-> IF f \in task[r].flows \cap task[r].alone THEN {}
                                    ELSE muddle[f]]
      /\ UNCHANGED <<file, source, configs>>
  BY <1>1, DeactivateDoes, IdleIsTask DEF Over, Then, At
<1>3. task[r].todo = {} /\ task[r].flows \subseteq Flows /\ \A x \in task[r].old : row[x].flow \in task[r].flows
  BY <1>1, <1>2, FieldsOfTask DEF RequestFits, Deploys
<1>4. /\ Chosen(r) = task[r].flows /\ Uploaded(r) = task[r].flows /\ Read(r) = task[r].flows
      /\ Sourced(r) = task[r].flows /\ Ahead(r) = {} /\ At(r, "deactivate")
  BY <1>2, <1>3 DEF Chosen, Uploaded, Read, Sourced, Ahead, At, Deploys, Loop
<1>5. task'[r].pc \notin Deploys \cup {"config"}
  BY <1>2 DEF Deploys, Loop
<1> SUFFICES ASSUME NEW f \in Touches(task[r]) PROVE FlowInv(f)' /\ KnownInv(r, f)'
  BY DEF OwnInv
<1>6. f \in Flows /\ FlowInv(f) /\ KnownInv(r, f)
  BY Given
<1>7. KnownInv(r, f)'
  BY <1>5, KnownNothing
<1>8. ActiveRows(f)' = ActiveRows(f) \ task[r].old /\ \A x \in ActiveRows(f)' : row'[x] = row[x]
  BY <1>1, <1>6, RowsLeft
<1>9. CASE f \notin task[r].flows
  <2>1. ActiveRows(f)' = ActiveRows(f)
    <3>1. \A x \in ActiveRows(f) : row[x].flow = f
      BY DEF ActiveRows, IsActive
    <3> QED
      BY <1>3, <1>8, <1>9, <3>1
  <2>2. muddle'[f] = muddle[f]
    BY <1>2, <1>6, <1>9
  <2>3. SameData(f) /\ SameFiles(f)
    BY <1>2, <1>8, <2>1, <2>2 DEF SameData, SameFiles
  <2>4. FlowInv(f)'
    BY <1>1, <1>4, <1>6, <1>9, <2>3, FlowQuiet
  <2> QED
    BY <1>7, <2>4
<1>10. CASE f \in task[r].flows
  <2>1. /\ Clean(f, OfActive)' => Knows(r, f, OfActive)
        /\ Clean(f, OfSource)' => Knows(r, f, OfActive) /\ Knows(r, f, OfSource)
        /\ Clean(f, OfConfig)' => Knows(r, f, OfConfig)
    <3>1. CASE f \in task[r].alone
      BY <3>1 DEF Knows
    <3>2. CASE f \notin task[r].alone
      <4>1. muddle'[f] = muddle[f]
        BY <1>2, <1>6, <3>2
      <4> QED
        BY <4>1 DEF Knows, Clean, OfActive, OfSource, OfConfig
    <3> QED
      BY <3>1, <3>2
  <2>2. Knows(r, f, OfActive) =>
          \A x \in ActiveRows(f)' :
             /\ row[x].version = task[r].insert[f] /\ row[x].code = r
             /\ \A y \in ActiveRows(f)' : x = y
    BY <1>4, <1>6, <1>8, <1>10 DEF KnownInv, OneLeft
  <2>3. OneActive(f)'
    BY <2>1, <2>2 DEF OneActive
  <2>4. FileThere(f)'
    <3>1. CASE f \in task[r].alone
      <4>1. file[f, task[r].insert[f]] = r
        BY <1>4, <1>6, <1>10, <3>1 DEF KnownInv, FileUploaded, Knows
      <4>2. \A x \in ActiveRows(f)' :
               /\ row'[x].version = task[r].insert[f] /\ row'[x].code = r
               /\ \A y \in ActiveRows(f)' : x = y
        BY <1>8, <2>2, <3>1 DEF Knows
      <4>3. \A x \in ActiveRows(f)' : x \in Nat
        BY <1>8 DEF ActiveRows, Rows
      <4>4. \A x \in ActiveRows(f)' : file'[f, row'[x].version] = row'[x].code
        BY <1>2, <4>1, <4>2
      <4>5. \A x, y \in ActiveRows(f)' : ~(x < y)
        BY <4>2, <4>3
      <4> QED
        BY <4>4, <4>5 DEF FileThere, Below
    <3>2. CASE f \notin task[r].alone
      <4>1. muddle'[f] = muddle[f]
        BY <1>2, <1>6, <3>2
      <4>2. Clean(f, OfFile)' <=> Clean(f, OfFile)
        BY <4>1 DEF Clean, OfFile
      <4>3. Clean(f, OfFile) =>
              /\ \A x \in ActiveRows(f) : file[f, row[x].version] = row[x].code
              /\ \A x, y \in ActiveRows(f) : x < y => Below(row[x].version, row[y].version)
        BY <1>6 DEF FlowInv, FileThere
      <4> SUFFICES ASSUME Clean(f, OfFile)
                   PROVE  /\ \A x \in ActiveRows(f)' : file'[f, row'[x].version] = row'[x].code
                          /\ \A x, y \in ActiveRows(f)' :
                                x < y => Below(row'[x].version, row'[y].version)
        BY <4>2 DEF FileThere, Below
      <4> QED
        BY <1>2, <1>8, <4>3
    <3> QED
      BY <3>1, <3>2
  <2>5. SourceThere(f)'
    <3>1. Knows(r, f, OfSource) => source[f] = r
      BY <1>4, <1>6, <1>10 DEF KnownInv, SourceUploaded
    <3> QED
      BY <1>2, <1>8, <2>1, <2>2, <3>1 DEF SourceThere
  <2>6. ConfigThere(f)'
    BY <1>2, <1>4, <1>6, <1>10, <2>1 DEF KnownInv, ConfigSeen, ConfigThere
  <2> QED
    BY <1>7, <2>3, <2>4, <2>5, <2>6 DEF FlowInv
<1> QED
  BY <1>9, <1>10

(***************************************************************************)
(* VersionInv is inductive.                                                *)
(***************************************************************************)

LEMMA StepOwn == ASSUME VersionInv, NEW r \in Requests, Frame(r), Step(r) PROVE OwnInv(r)
<1>1. CASE Confirmed(r)
  BY <1>1, ConfirmedOwn
<1>2. CASE Leaves(r)
  BY <1>2, LeavesOwn
<1>3. CASE \E f \in Flows : ReadPrevious(r, f)
  BY <1>3, ReadPreviousOwn
<1>4. CASE \E f \in Flows : PreviousUnread(r, f)
  BY <1>4, PreviousUnreadOwn
<1>5. CASE Upload(r)
  BY <1>5, UploadOwn
<1>6. CASE UploadFails(r)
  BY <1>6, UploadFailsOwn
<1>7. CASE UploadSource(r)
  BY <1>7, UploadSourceOwn
<1>8. CASE SourceUploadFails(r)
  BY <1>8, SourceUploadFailsOwn
<1>9. CASE UploadLastSource(r)
  BY <1>9, UploadLastSourceOwn
<1>10. CASE ReadOld(r)
  BY <1>10, ReadOldOwn
<1>11. CASE OldUnread(r)
  BY <1>11, OldUnreadOwn
<1>12. CASE Insert(r)
  BY <1>12, InsertOwn
<1>13. CASE Deactivate(r)
  BY <1>13, DeactivateOwn
<1>14. CASE ReconcileDifferences(r)
  BY <1>14, ReconcileOwn
<1>15. CASE \E x \in Rows : DropFiles(r, x)
  BY <1>15, DropFilesOwn
<1>16. CASE \E x \in Rows : FilesKept(r, x)
  BY <1>16, FilesKeptOwn
<1>17. CASE DropRow(r)
  BY <1>17, DropRowOwn
<1>18. CASE DropConfigFiles(r)
  BY <1>18, DropConfigFilesOwn
<1>19. CASE ConfigFilesKept(r)
  BY <1>19, ConfigFilesKeptOwn
<1>20. CASE DropConfigRows(r)
  BY <1>20, DropConfigRowsOwn
<1>21. CASE DropConfig(r)
  BY <1>21, DropConfigOwn
<1> QED
  BY <1>1, <1>2, <1>3, <1>4, <1>5, <1>6, <1>7, <1>8, <1>9, <1>10, <1>11,
     <1>12, <1>13, <1>14, <1>15, <1>16, <1>17, <1>18, <1>19, <1>20, <1>21 DEF Step, Leaves

LEMMA VersionThen == ASSUME VersionInv, NEW r \in Requests, Step(r) PROVE VersionInv'
<1>1. CoreInv /\ CoreInv' /\ Frame(r) /\ AllFit'
  BY CoreThen, StepFrame DEF VersionInv, CoreInv
<1>2. /\ \A f \in Flows : FlowInv(f)
      /\ \A q \in Requests, f \in Flows : KnownInv(q, f)
      /\ \A q \in Requests : WasShown(q)
  BY DEF VersionInv
<1>3. \A f \in Touches(task[r]) : FlowInv(f)' /\ KnownInv(r, f)'
  BY <1>1, StepOwn DEF OwnInv
<1>4. ASSUME NEW f \in Flows PROVE FlowInv(f)'
  BY <1>1, <1>2, <1>3, FlowElsewhere
<1>5. ASSUME NEW q \in Requests, NEW f \in Flows PROVE KnownInv(q, f)'
  <2>1. CASE q = r /\ f \in Touches(task[r])
    BY <1>3, <2>1
  <2>2. CASE q = r /\ f \notin Touches(task[r])
    BY <1>1, <2>2, KnownElsewhere
  <2>3. CASE q # r
    BY <1>1, <1>2, <2>3, KnownOfOthers
  <2> QED
    BY <2>1, <2>2, <2>3
<1>6. ASSUME NEW q \in Requests PROVE WasShown(q)'
  <2>1. CASE q = r
    BY <1>1, <1>2, <2>1, ShownStays
  <2>2. CASE q # r
    BY <1>1, <1>2, <2>2, ShownToOthers
  <2> QED
    BY <2>1, <2>2
<1> QED
  BY <1>1, <1>4, <1>5, <1>6 DEF VersionInv, Flows, Requests

\* The rows that are missing from a folder, when the rows stay.
LEMMA MissingStays ==
    ASSUME NEW q \in Requests, UNCHANGED <<row, configs>>
    PROVE  Missing(task[q].flows, task[q].single)' = Missing(task'[q].flows, task'[q].single)
BY DEF Missing, CustomRows, Rows

LEMMA ShownSame ==
    ASSUME NEW q \in Requests, WasShown(q), UNCHANGED <<row, configs>>,
           task'[q].kind = task[q].kind, task'[q].pc = task[q].pc, task'[q].flows = task[q].flows,
           task'[q].single = task[q].single, task'[q].targets = task[q].targets,
           task'[q].shown = task[q].shown, task'[q].alone \subseteq task[q].alone
    PROVE  WasShown(q)'
<1>1. ToDelete(q)' = ToDelete(q)
  BY MissingStays DEF ToDelete
<1> QED
  BY <1>1 DEF WasShown

LEMMA VersionBegins ==
    ASSUME VersionInv, NEW t, NEW marked, Fresh(t, marked), NEW r \in Requests, Began(r, t, marked)
    PROVE  VersionInv'
<1>1. CoreInv /\ CoreInv'
  BY CoreBegins DEF VersionInv
<1>2. /\ \A f \in Flows : FlowInv(f)
      /\ \A q \in Requests, f \in Flows : KnownInv(q, f)
      /\ \A q \in Requests : WasShown(q) /\ RequestFits(q)
  BY DEF VersionInv, CoreInv, AllFit
<1>3. /\ UNCHANGED <<row, file, source, configs>> /\ task[r].pc = "idle"
      /\ \A f \in Flows : muddle[f] \subseteq muddle'[f]
  BY IdleIsTask DEF Began
<1>4. \A q \in Requests : q # r =>
         /\ task'[q].kind = task[q].kind /\ task'[q].pc = task[q].pc
         /\ task'[q].flows = task[q].flows /\ task'[q].todo = task[q].todo
         /\ task'[q].single = task[q].single
         /\ task'[q].flow = task[q].flow /\ task'[q].insert = task[q].insert
         /\ task'[q].old = task[q].old /\ task'[q].targets = task[q].targets
         /\ task'[q].shown = task[q].shown /\ task'[q].alone \subseteq task[q].alone
  BY DEF Began
<1>5. /\ task'[r].kind = t.kind /\ task'[r].pc = t.pc /\ task'[r].flows = t.flows
      /\ task'[r].todo = t.todo /\ task'[r].single = t.single /\ task'[r].shown = t.shown
  <2>1. task'[r] = [t EXCEPT !.alone = task'[r].alone] /\ t \in TaskType
    BY DEF Began, Fresh
  <2> QED
    BY <2>1 DEF TaskType
<1>6. /\ t.todo = t.flows /\ t.pc \in {"confirm", "flow", "files", "configFiles"}
      /\ t.pc = "files" => t.kind = "deleteFlow"
      /\ t.kind = "deploy" => \A x \in Missing(t.flows, t.single) : row[x].flow \in t.shown
  BY DEF Fresh
<1>7. \A q \in Requests : q # r => Keeps(q)
  BY <1>4 DEF Keeps
<1>8. \A f \in Flows : SameData(f) /\ SameFiles(f)
  BY <1>3, QuietData
<1>9. ASSUME NEW f \in Flows PROVE FlowInv(f)'
  <2>1. Inserting(f) => Inserting(f)'
    <3> SUFFICES ASSUME NEW q \in Requests, At(q, "deactivate"), f \in task[q].flows
                 PROVE  Inserting(f)'
      BY DEF Inserting
    <3>1. q # r
      BY <1>3 DEF At
    <3>2. At(q, "deactivate")' /\ f \in task'[q].flows
      BY <1>4, <3>1 DEF At
    <3> QED
      BY <3>2 DEF Inserting, Requests
  <2>2. Ahead(r) = {}
    BY <1>3 DEF Ahead, At
  <2>3. \A q \in Requests : f \in Ahead(q) => f \in Ahead(q)'
    BY <1>7, <2>2, SetsSame
  <2>4. \A x \in ActiveRows(f) : row[x].version \in Versions
    BY <1>1, ActiveIsUsed
  <2> QED
    BY <1>2, <1>8, <2>1, <2>3, <2>4, FlowSame
<1>10. ASSUME NEW q \in Requests, NEW f \in Flows PROVE KnownInv(q, f)'
  <2>1. CASE q = r
    <3>1. /\ Chosen(r)' = {} /\ Uploaded(r)' = {} /\ Read(r)' = {} /\ Sourced(r)' = {}
          /\ ~At(r, "config")'
      BY <1>5, <1>6 DEF Chosen, Uploaded, Read, Sourced, Ahead, At, Deploys, Loop
    <3> QED
      BY <2>1, <3>1 DEF KnownInv, OneLeft, NewVersion, FileUploaded, SourceUploaded,
         ConfigSeen, RowsGone
  <2>2. CASE q # r
    BY <1>2, <1>7, <1>8, <2>2, KnownSame
  <2> QED
    BY <2>1, <2>2
<1>11. ASSUME NEW q \in Requests PROVE WasShown(q)'
  <2>1. CASE q = r
    <3>1. t.kind = "deploy" => ToDelete(r)' = Missing(t.flows, t.single)
      BY <1>3, <1>5, <1>6, MissingStays DEF ToDelete
    <3> QED
      BY <1>3, <1>5, <1>6, <2>1, <3>1 DEF WasShown
  <2>2. CASE q # r
    BY <1>2, <1>3, <1>4, <2>2, ShownSame
  <2> QED
    BY <2>1, <2>2
<1> QED
  BY <1>1, <1>9, <1>10, <1>11 DEF VersionInv, Flows, Requests

LEMMA VersionInit == ASSUME Init PROVE VersionInv
<1>1. /\ CoreInv /\ \A r \in Requests : task[r].pc = "idle" /\ task[r].kind = "none"
  BY CoreInit, IdleIsTask DEF Init
<1>2. \A f \in Flows : ActiveRows(f) = {}
  BY DEF Init, NewRow, ActiveRows, IsActive
<1>3. \A f \in Flows : FlowInv(f)
  BY <1>2 DEF FlowInv, OneActive, FileThere, SourceThere, ConfigThere
<1>4. ASSUME NEW r \in Requests, NEW f \in Flows PROVE KnownInv(r, f)
  <2>1. /\ Chosen(r) = {} /\ Uploaded(r) = {} /\ Read(r) = {} /\ Sourced(r) = {} /\ ~At(r, "config")
    BY <1>1 DEF Chosen, Uploaded, Read, Sourced, Ahead, At, Deploys, Loop
  <2> QED
    BY <2>1 DEF KnownInv, OneLeft, NewVersion, FileUploaded, SourceUploaded, ConfigSeen,
       RowsGone
<1>5. \A r \in Requests : WasShown(r)
  BY <1>1 DEF WasShown
<1> QED
  BY <1>1, <1>3, <1>4, <1>5 DEF VersionInv

LEMMA VersionStays == ASSUME VersionInv, UNCHANGED vars PROVE VersionInv'
<1>1. /\ row' = row /\ file' = file /\ source' = source /\ configs' = configs
      /\ task' = task /\ muddle' = muddle
  BY DEF vars
<1>2. CoreInv /\ CoreInv'
  BY CoreStays DEF VersionInv
<1>3. /\ \A f \in Flows : FlowInv(f)
      /\ \A q \in Requests, f \in Flows : KnownInv(q, f)
      /\ \A q \in Requests : WasShown(q) /\ RequestFits(q)
  BY DEF VersionInv, CoreInv, AllFit
<1>4. \A q \in Requests : Keeps(q)
  BY <1>1 DEF Keeps
<1>5. \A f \in Flows : SameData(f) /\ SameFiles(f)
  BY <1>1, QuietData
<1>6. ASSUME NEW f \in Flows PROVE FlowInv(f)'
  <2>1. Inserting(f) => Inserting(f)'
    BY <1>1 DEF Inserting, At, Requests
  <2>2. \A q \in Requests : f \in Ahead(q) => f \in Ahead(q)'
    BY <1>4, SetsSame
  <2>3. \A x \in ActiveRows(f) : row[x].version \in Versions
    BY <1>2, ActiveIsUsed
  <2> QED
    BY <1>3, <1>5, <2>1, <2>2, <2>3, FlowSame
<1>7. \A q \in Requests, f \in Flows : KnownInv(q, f)'
  BY <1>3, <1>4, <1>5, KnownSame
<1>8. \A q \in Requests : WasShown(q)'
  BY <1>1, <1>3, ShownSame
<1> QED
  BY <1>2, <1>6, <1>7, <1>8 DEF VersionInv, Flows, Requests

LEMMA VersionSteps == ASSUME VersionInv, [Next]_vars PROVE VersionInv'
<1>1. CASE Requested
  <2>1. CoreInv
    BY DEF VersionInv
  <2> QED
    BY <1>1, <2>1, RequestedIsFresh, BeginDoes, VersionBegins
<1>2. CASE \E r \in Requests : Step(r)
  BY <1>2, VersionThen
<1>3. CASE UNCHANGED vars
  BY <1>3, VersionStays
<1> QED
  BY <1>1, <1>2, <1>3 DEF Next

(***************************************************************************)
(* What VersionInv says of the versions and of the deletions.              *)
(***************************************************************************)

LEMMA OneVersion == ASSUME VersionInv PROVE OneActiveVersion
<1> SUFFICES ASSUME NEW f \in Flows, muddle[f] \cap {"overlap", "partial", "unread"} = {}, ~Inserting(f)
             PROVE  Cardinality(ActiveRows(f)) <= 1
  BY DEF OneActiveVersion
<1>1. \A x, y \in ActiveRows(f) : x = y
  BY DEF VersionInv, FlowInv, OneActive, Clean, OfActive
<1>2. CASE ActiveRows(f) = {}
  BY <1>2, FS_EmptySet
<1>3. CASE ActiveRows(f) # {}
  <2>1. PICK x : ActiveRows(f) = {x}
    BY <1>1, <1>3
  <2>2. Cardinality(ActiveRows(f)) = 1
    BY <2>1, FS_Singleton, Zenon
  <2> QED
    BY <2>2
<1> QED
  BY <1>2, <1>3

LEMMA VersionRuns == ASSUME VersionInv PROVE ActiveVersionRunsItsCode
<1> SUFFICES ASSUME NEW f \in Flows, ActiveRows(f) # {},
                    muddle[f] \cap {"overlap", "versionUnread", "given", "dropped"} = {}
             PROVE  file[f, row[Newest(f)].version] = row[Newest(f)].code
  BY DEF ActiveVersionRunsItsCode
<1>1. Newest(f) \in ActiveRows(f)
  BY NewestIsActive
<1>2. \A x \in ActiveRows(f) : file[f, row[x].version] = row[x].code
  BY DEF VersionInv, FlowInv, FileThere, Clean, OfFile
<1> QED
  BY <1>1, <1>2

LEMMA SourceOfVersion == ASSUME VersionInv PROVE SourceOfActiveVersion
<1> SUFFICES ASSUME NEW f \in Flows, ActiveRows(f) # {}, ~Deploying(f),
                    muddle[f] \cap {"overlap", "partial", "unread", "ahead", "behind"} = {}
             PROVE  DownloadFlow(Newest(f)) = row[Newest(f)].code
  BY DEF SourceOfActiveVersion
<1>1. CoreInv /\ Newest(f) \in ActiveRows(f) /\ \A y \in ActiveRows(f) : y <= Newest(f)
  BY NewestIsActive DEF VersionInv
<1>2. \A q \in Requests : f \notin Ahead(q)
  <2> SUFFICES ASSUME NEW q \in Requests, f \in Ahead(q) PROVE FALSE
    OBVIOUS
  <2>1. task[q].pc = "old" => task[q].flow \in task[q].flows
    BY <1>1 DEF CoreInv, AllFit, RequestFits
  <2>2. f \in task[q].flows /\ task[q].pc \in Loop
    BY <2>1 DEF Ahead, At, Loop
  <2> QED
    BY <2>2 DEF Deploying, Loop
<1>3. source[f] = row[Newest(f)].code
  BY <1>1, <1>2 DEF VersionInv, FlowInv, SourceThere, Clean, OfSource
<1>4. row[Newest(f)].flow = f /\ row[Newest(f)].state = "active" /\ f # NoFlow
  BY <1>1, ActiveIsUsed, ZeroIsNoFlow
<1> QED
  BY <1>3, <1>4 DEF DownloadFlow, ZipAndSendFiles, Location

\* What runs for a flow is one version, with its code, and the source that is sent for it is
\* that code's: deploys, deletions and failures in any order, unless the history of the flow
\* says why not.
THEOREM ActiveVersionHolds == Spec => []ActiveVersion
<1>1. Init => VersionInv
  BY VersionInit
<1>2. VersionInv /\ [Next]_vars => VersionInv'
  BY VersionSteps
<1>3. VersionInv => ActiveVersion
  BY OneVersion, VersionRuns, SourceOfVersion DEF ActiveVersion
<1> QED
  BY <1>1, <1>2, <1>3, PTL DEF Spec

LEMMA ActiveHasConfig == ASSUME VersionInv PROVE ActiveFlowHasConfig
BY DEF VersionInv, FlowInv, ConfigThere, Clean, OfConfig, ActiveFlowHasConfig

LEMMA ShownIsDeleted == ASSUME VersionInv PROVE DeletesWhatWasShown
<1> SUFFICES ASSUME NEW r \in Requests, task[r].kind = "deploy", task[r].pc \in {"files", "row"},
                    NEW x \in task[r].targets
             PROVE  row[x].flow \in task[r].shown \cup (Touches(task[r]) \ task[r].alone)
  BY DEF DeletesWhatWasShown
<1>1. row[x].flow \in Touches(task[r])
  BY TouchesWhat DEF VersionInv
<1>2. row[x].flow \in task[r].alone => row[x].flow \in task[r].shown
  BY DEF VersionInv, WasShown, ToDelete
<1> QED
  BY <1>1, <1>2

\* A deletion leaves no active flow without its provider config, and a reconciliation deletes
\* only what the customer was shown, unless another request changed it meanwhile.
THEOREM DeletionsHold == Spec => []DeletionsAreRight
<1>1. Init => VersionInv
  BY VersionInit
<1>2. VersionInv /\ [Next]_vars => VersionInv'
  BY VersionSteps
<1>3. VersionInv => DeletionsAreRight
  BY ActiveHasConfig, ShownIsDeleted DEF DeletionsAreRight
<1> QED
  BY <1>1, <1>2, <1>3, PTL DEF Spec

=============================================================================
