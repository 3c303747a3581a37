---------------------------- MODULE ModuleLoader -----------------------------
(***************************************************************************)
(* The loader of py_vulcanize: modules that import one another are loaded  *)
(* depth first, registered under their name before they are parsed, and    *)
(* found there by every later import and request.  A file that exports to  *)
(* the name space must reach the base module; what a module reaches is     *)
(* computed as it is loaded, and kept.                                     *)
(***************************************************************************)
EXTENDS Naturals, Sequences, SequencesExt, Functions, FiniteSets

CONSTANTS N, MaxImports, MaxDepth,     \* 32
          Acyclic, MaxBad, MaxRequests,
          Exporters,                   \* modules that may export
          Excludable                   \* modules that a request may exclude

Modules == 1..N
Base == N
Request == [name : Modules, excluded : SUBSET Excludable]
NoRequest == [name |-> 0, excluded |-> {}]

VARIABLES imports, file, exports,      \* the files: what they import, say, and export
          loaded_modules, dependent_modules,
          reached,                     \* _all_dependent_modules_recursive
          stack,                       \* of the modules being loaded, <<module, next import>>
          request, outcome, requests

files == <<imports, file, exports>>
vars == <<files, loaded_modules, dependent_modules, reached, stack, request, outcome, requests>>

FindModuleResource(m) == file[m] # "missing"
Parses(m) == file[m] # "unparsable"
NewModule == <<>>                      \* it depends on nothing yet

ImportLists == {s \in UNION {[1..k -> Modules] : k \in 0..MaxImports} : IsInjective(s)}

Init ==
  /\ imports \in [Modules -> ImportLists]
  /\ Acyclic => \A m \in Modules : \A i \in DOMAIN imports[m] : imports[m][i] > m
  /\ file \in [Modules -> {"good", "missing", "unparsable", "no script"}]
  /\ Cardinality({m \in Modules : file[m] # "good"}) <= MaxBad
  /\ exports \in SUBSET Exporters
  /\ loaded_modules = {} /\ dependent_modules = [m \in Modules |-> NewModule]
  /\ reached = [m \in Modules |-> {}]
  /\ stack = <<>> /\ request = NoRequest /\ outcome = "none" /\ requests = 0

----------------------------------------------------------------------------

(* What is left of the imports of a module that a request excludes.        *)
ImportsOf(m, r) == SelectSeq(imports[m], LAMBDA d : d \notin r.excluded)

(* LoadModule(), for a name that is not registered.  It is, before it is   *)
(* parsed, and stays so whatever is raised.                                *)
Enter(m, below) ==
  IF ~FindModuleResource(m) THEN /\ stack' = <<>> /\ outcome' = "missing" /\ UNCHANGED loaded_modules
  ELSE /\ loaded_modules' = loaded_modules \cup {m}
       /\ IF ~Parses(m) THEN stack' = <<>> /\ outcome' = "unparsable"
          ELSE stack' = Append(below, <<m, 1>>) /\ UNCHANGED outcome

LoadModule(r) ==
  /\ stack = <<>> /\ requests < MaxRequests
  /\ requests' = requests + 1 /\ request' = r
  /\ IF r.name \in loaded_modules
     THEN outcome' = "ok" /\ UNCHANGED <<stack, loaded_modules>>
     ELSE LET m == r.name IN
          IF ~FindModuleResource(m) \/ ~Parses(m) THEN Enter(m, <<>>)
          ELSE /\ loaded_modules' = loaded_modules \cup {m}
               /\ stack' = <<<<m, 1>>>> /\ outcome' = "none"
  /\ UNCHANGED <<files, dependent_modules, reached>>

Top == Last(stack)
Importing == stack # <<>> /\ Top[2] <= Len(ImportsOf(Top[1], request))
Imported == ImportsOf(Top[1], request)[Top[2]]
Advanced == Append(Front(stack), <<Top[1], Top[2] + 1>>)

(* An import that is registered: it may be one that is still being loaded. *)
Import ==
  /\ Importing /\ Imported \in loaded_modules
  /\ dependent_modules' = [dependent_modules EXCEPT ![Top[1]] = Append(@, Imported)]
  /\ stack' = Advanced
  /\ UNCHANGED <<files, loaded_modules, reached, request, outcome, requests>>

ImportNew ==
  /\ Importing /\ Imported \notin loaded_modules
  /\ Enter(Imported, stack)
  /\ UNCHANGED <<files, dependent_modules, reached, request, requests>>

RECURSIVE all_dependent_modules(_, _)

all_dependent_modules(m, memo) ==
  IF memo[m] # {} THEN memo
  ELSE FoldLeft(LAMBDA acc, d : LET after == all_dependent_modules(d, acc)
                                IN [after EXCEPT ![m] = @ \cup after[d]],
                [memo EXCEPT ![m] = Range(dependent_modules[m])],
                dependent_modules[m])

(* A module all of whose imports are loaded must reach the base if it      *)
(* exports, and its scripts must be found.                                 *)
Loaded ==
  /\ stack # <<>> /\ ~Importing
  /\ reached' = all_dependent_modules(Top[1], reached)
  /\ CASE Top[1] \in exports /\ Base \notin reached'[Top[1]] ->
            stack' = <<>> /\ outcome' = "no base" /\ UNCHANGED dependent_modules
       [] file[Top[1]] = "no script" /\ ~(Top[1] \in exports /\ Base \notin reached'[Top[1]]) ->
            stack' = <<>> /\ outcome' = "no script" /\ UNCHANGED dependent_modules
       [] OTHER ->
            /\ stack' = IF Len(stack) = 1 THEN <<>>
                        ELSE LET f == Front(stack) IN Append(Front(f), <<Last(f)[1], Last(f)[2] + 1>>)
            /\ outcome' = IF Len(stack) = 1 THEN "ok" ELSE outcome
            /\ dependent_modules' = IF Len(stack) = 1 THEN dependent_modules
                 ELSE [dependent_modules EXCEPT ![stack[Len(stack) - 1][1]] = Append(@, Top[1])]
  /\ UNCHANGED <<files, loaded_modules, request, requests>>

Next == \/ \E r \in Request : LoadModule(r)
        \/ Import \/ ImportNew \/ Loaded

Spec == Init /\ [][Next]_vars /\ WF_vars(Import \/ ImportNew \/ Loaded)

----------------------------------------------------------------------------

RECURSIVE ComputeLoadSequence(_, _, _)

ComputeLoadSequence(m, acc, depth) ==
  IF acc.loop \/ depth > MaxDepth THEN [acc EXCEPT !.loop = TRUE]
  ELSE LET after == FoldLeft(LAMBDA a, d : IF d \in Range(a.seq) THEN a
                                           ELSE ComputeLoadSequence(d, a, depth + 1),
                             acc, dependent_modules[m])
       IN IF after.loop \/ m \in Range(after.seq) THEN after
          ELSE [after EXCEPT !.seq = Append(@, m)]

LoadSequence(m) == ComputeLoadSequence(m, [seq |-> <<>>, loop |-> FALSE], 0)

----------------------------------------------------------------------------

(* What a module reaches by a relation. *)
Reach(m, next(_)) ==
  LET step[k \in 0..N] == IF k = 0 THEN next(m)
                          ELSE step[k - 1] \cup UNION {next(d) : d \in step[k - 1]}
  IN step[N]
ByImports(m) == Reach(m, LAMBDA d : Range(imports[d]))
ByModules(m) == Reach(m, LAMBDA d : Range(dependent_modules[d]))

Served == stack = <<>> /\ outcome = "ok"

(* The stack is a path of imports, and no module is loaded within itself.  *)
TypeOK ==
  /\ \A i \in DOMAIN stack : stack[i][1] \in loaded_modules
  /\ \A i, j \in DOMAIN stack : stack[i][1] = stack[j][1] => i = j
  /\ \A m \in Modules : Len(dependent_modules[m]) <= Len(imports[m])

(* What a request is given has been loaded, with all that it imports.      *)
ServedWhole ==
  Served => \A m \in ByImports(request.name) \cup {request.name} :
              dependent_modules[m] = ImportsOf(m, request)

(* The sequence has each module once, after those that it imports.         *)
DependenciesFirst ==
  LET s == LoadSequence(request.name).seq IN
  Served /\ ~LoadSequence(request.name).loop =>
    /\ IsInjective(s) /\ Range(s) = ByModules(request.name) \cup {request.name}
    /\ \A i \in DOMAIN s : \A d \in Range(dependent_modules[s[i]]) :
         \E j \in 1..i : s[j] = d /\ (j < i \/ d = s[i])

(* A loop is told of only where there is one. *)
LoopIsLoop ==
  Served /\ LoadSequence(request.name).loop =>
    \E m \in ByModules(request.name) \cup {request.name} : m \in ByModules(m)

(* What is kept as reached from a module is what is reached from it.       *)
ReachedIsAll == Served => \A m \in loaded_modules : reached[m] \in {{}, ByModules(m)}

(* A module is refused for want of the base only if it does not reach it.  *)
RefusedWithoutBase ==
  outcome = "no base" =>
    \E m \in exports \cap loaded_modules : Base \notin ByImports(m)

(* A request is not answered. *)
Loading == stack # <<>>
==============================================================================
