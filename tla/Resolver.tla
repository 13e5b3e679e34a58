------------------------------ MODULE Resolver ------------------------------
(***************************************************************************)
(* Resolver.java: the order in which modules are loaded.  add builds up a  *)
(* graph of dependencies; resolve searches it depth first, here call by    *)
(* call; all resolves every module and merges what it gets, shortest       *)
(* first.  Who gets an exception or an answer may go on and add modules.   *)
(***************************************************************************)
EXTENDS Naturals, SequencesExt

CONSTANTS
  Names,        \* module names
  MaxDepends,   \* bound on the number of dependencies in the graph
  None

VARIABLES
  modules,      \* per name added, the names it depends on, in order
  phase,        \* who runs: resolve, all, each (a resolve within all) or
                \* idle, nobody; and how it ended: returned, listed, threw
  root,         \* the name resolve was asked for
  calls,        \* the recursive calls of resolve: names and places in the loop
  resolved,     \* the list and
  unresolved,   \* the set they share
  keys,         \* the modules that all still has to resolve
  resolutions,  \* those it has to merge; each ends with its own key
  merging,      \* the rest of the one it merges
  listed        \* what it has listed

vars == <<modules, phase, root, calls, resolved, unresolved, keys, resolutions, merging, listed>>

Known == DOMAIN modules

Edges == {e \in Known \X Known : Contains(modules[e[1]], e[2])}

Init ==
  /\ modules = <<>>
  /\ phase = "idle" /\ root = None
  /\ calls = <<>> /\ resolved = <<>> /\ unresolved = {}
  /\ keys = {} /\ resolutions = {} /\ merging = <<>> /\ listed = <<>>

(***************************************************************************)
(* add(name, depends): module creates what is missing, dependsOn skips     *)
(* what is there.                                                          *)
(***************************************************************************)
Old(name) == IF name \in Known THEN modules[name] ELSE <<>>

(* The dependencies of the module, by the number of those added so far.    *)
Depending(name, deps) ==
  LET after[k \in 0..Len(deps)] ==
        IF k = 0 THEN Old(name)
        ELSE IF Contains(after[k - 1], deps[k]) THEN after[k - 1]
        ELSE Append(after[k - 1], deps[k])
  IN after

Add(name, deps) ==
  /\ phase = "idle"
  /\ modules' = [n \in Known \cup {name} \cup ToSet(deps) |->
                   IF n = name THEN Depending(name, deps)[Len(deps)] ELSE Old(n)]
  /\ UNCHANGED <<phase, root, calls, resolved, unresolved, keys, resolutions, merging, listed>>

(***************************************************************************)
(* resolve(name, resolved, unresolved).                                    *)
(***************************************************************************)
Searching == phase \in {"resolve", "each"}

Call(name) == [name |-> name, next |-> 1]

(* The call is over at once if there is no such module. *)
Enter(name, callers, open) ==
  /\ calls' = IF name \in Known THEN Append(callers, Call(name)) ELSE callers
  /\ unresolved' = open \cup {name}

Begin(name) == root' = name /\ resolved' = <<>> /\ Enter(name, <<>>, {})

Top == Last(calls)

Looping == Searching /\ calls # <<>> /\ Top.next <= Len(modules[Top.name])

Dep == modules[Top.name][Top.next]

Advanced == [calls EXCEPT ![Len(calls)].next = @ + 1]

Skip ==
  /\ Looping /\ Contains(resolved, Dep)
  /\ calls' = Advanced
  /\ UNCHANGED <<modules, phase, root, resolved, unresolved, keys, resolutions, merging, listed>>

Circular ==
  /\ Looping /\ ~Contains(resolved, Dep) /\ Dep \in unresolved
  /\ phase' = "threw"
  /\ UNCHANGED <<modules, root, calls, resolved, unresolved, keys, resolutions, merging, listed>>

(* Mutant of Descend: what is resolved is resolved again. *)
DescendAgain ==
  /\ Looping /\ Dep \notin unresolved
  /\ Enter(Dep, Advanced, unresolved)
  /\ UNCHANGED <<modules, phase, root, resolved, keys, resolutions, merging, listed>>

Descend ==
  /\ Looping /\ ~Contains(resolved, Dep) /\ Dep \notin unresolved
  /\ Enter(Dep, Advanced, unresolved)
  /\ UNCHANGED <<modules, phase, root, resolved, keys, resolutions, merging, listed>>

(* Mutant of Leave: the name is not removed from unresolved. *)
LeaveOpen ==
  /\ Searching /\ calls # <<>> /\ ~Looping
  /\ resolved' = Append(resolved, Top.name)
  /\ calls' = Front(calls)
  /\ UNCHANGED <<modules, phase, root, unresolved, keys, resolutions, merging, listed>>

Leave ==
  /\ Searching /\ calls # <<>> /\ ~Looping
  /\ resolved' = Append(resolved, Top.name)
  /\ unresolved' = unresolved \ {Top.name}
  /\ calls' = Front(calls)
  /\ UNCHANGED <<modules, phase, root, keys, resolutions, merging, listed>>

(***************************************************************************)
(* resolve(name)                                                           *)
(***************************************************************************)
Resolve(name) ==
  /\ phase = "idle" /\ phase' = "resolve"
  /\ Begin(name)
  /\ UNCHANGED <<modules, keys, resolutions, merging, listed>>

Return ==
  /\ Searching /\ calls = <<>>
  /\ \/ unresolved # {} /\ phase' = "threw" /\ UNCHANGED resolutions
     \/ /\ unresolved = {} /\ phase = "resolve"
        /\ phase' = "returned" /\ UNCHANGED resolutions
     \/ /\ unresolved = {} /\ phase = "each"
        /\ phase' = "all" /\ resolutions' = resolutions \cup {resolved}
  /\ UNCHANGED <<modules, root, calls, resolved, unresolved, keys, merging, listed>>

(***************************************************************************)
(* all().  The keys of a HashMap come in any order, so those of the same   *)
(* length are sorted in any order.                                         *)
(***************************************************************************)
All ==
  /\ phase = "idle" /\ phase' = "all" /\ keys' = Known
  /\ UNCHANGED <<modules, root, calls, resolved, unresolved, resolutions, merging, listed>>

ResolveKey(key) ==
  /\ phase = "all" /\ phase' = "each" /\ keys' = keys \ {key}
  /\ Begin(key)
  /\ UNCHANGED <<modules, resolutions, merging, listed>>

Merge(resolution) ==
  /\ phase = "all" /\ keys = {} /\ merging = <<>>
  /\ \A other \in resolutions : Len(resolution) <= Len(other)
  /\ merging' = resolution /\ resolutions' = resolutions \ {resolution}
  /\ UNCHANGED <<modules, phase, root, calls, resolved, unresolved, keys, listed>>

(* Mutant of MergeOne: a module is listed whether it is there or not. *)
MergeOneTwice ==
  /\ phase = "all" /\ merging # <<>> /\ merging' = Tail(merging)
  /\ listed' = Append(listed, Head(merging))
  /\ UNCHANGED <<modules, phase, root, calls, resolved, unresolved, keys, resolutions>>

MergeOne ==
  /\ phase = "all" /\ merging # <<>> /\ merging' = Tail(merging)
  /\ listed' = IF Contains(listed, Head(merging)) THEN listed ELSE Append(listed, Head(merging))
  /\ UNCHANGED <<modules, phase, root, calls, resolved, unresolved, keys, resolutions>>

Listed ==
  /\ phase = "all" /\ keys = {} /\ resolutions = {} /\ merging = <<>>
  /\ phase' = "listed"
  /\ UNCHANGED <<modules, root, calls, resolved, unresolved, keys, resolutions, merging, listed>>

(* The caller has the answer or the exception, what was local is gone. *)
Done ==
  /\ phase \in {"returned", "listed", "threw"} /\ phase' = "idle" /\ root' = None
  /\ calls' = <<>> /\ resolved' = <<>> /\ unresolved' = {}
  /\ keys' = {} /\ resolutions' = {} /\ merging' = <<>> /\ listed' = <<>>
  /\ UNCHANGED modules

(* Calls of add stay within the bound. *)
Room == {n \in 0..MaxDepends : phase = "idle" /\ Cardinality(Edges) + n <= MaxDepends}

Next ==
  \/ \E n \in Room, name \in Names : \E deps \in [1..n -> Names] : Add(name, deps)
  \/ \E name \in Names : Resolve(name)
  \/ Skip \/ Circular \/ Descend \/ Leave \/ Return
  \/ All \/ (\E key \in keys : ResolveKey(key))
  \/ (\E resolution \in resolutions : Merge(resolution)) \/ MergeOne \/ Listed
  \/ Done

Spec == Init /\ [][Next]_vars

(***************************************************************************)
(* Properties.                                                             *)
(***************************************************************************)
TypeOK ==
  /\ Known \subseteq Names
  /\ \A n \in Known : modules[n] \in Seq(Known) /\ IsInjective(modules[n])
  /\ phase \in {"idle", "resolve", "all", "each", "returned", "listed", "threw"}
  /\ root \in Names \cup {None}
  /\ calls \in Seq([name : Known, next : Nat \ {0}])
  /\ resolved \in Seq(Known) /\ unresolved \subseteq Names
  /\ keys \subseteq Known /\ resolutions \subseteq Seq(Known)
  /\ merging \in Seq(Known) /\ listed \in Seq(Known)

(* What name needs: the smallest set that holds its dependencies and those *)
(* of its members.                                                         *)
Needed(name) ==
  {n \in Known : \A S \in SUBSET Known :
     (\A e \in Edges : e[1] \in S \cup {name} => e[2] \in S) => n \in S}

Acyclic(S) == \A n \in S : n \notin Needed(n)

InOrder(seq) ==
  /\ IsInjective(seq)
  /\ \A i, j \in DOMAIN seq : <<seq[i], seq[j]>> \in Edges => j < i

(* resolve(name) lists what the module needs, each once, dependencies      *)
(* first, and throws exactly if that cannot be done: a cycle is in reach,  *)
(* or the name is unknown.                                                 *)
ResolutionIsRight ==
  /\ Searching /\ calls = <<>> /\ unresolved = {} =>
       /\ root \in Known /\ Acyclic(Needed(root) \cup {root})
       /\ InOrder(resolved) /\ ToSet(resolved) = Needed(root) \cup {root}
  /\ phase = "threw" => root \notin Known \/ ~Acyclic(Needed(root) \cup {root})

(* Merging the resolutions, whatever order the map yields them in, keeps   *)
(* every module after those it needs.  So the module that needs all others *)
(* comes last, where ModuleController.getMainModule takes it from.         *)
AllIsInOrder ==
  phase = "listed" =>
    /\ Acyclic(Known) /\ InOrder(listed) /\ ToSet(listed) = Known
    /\ \A n \in Known : Known \ {n} \subseteq Needed(n) => n = Last(listed)

(* The dependencies looked at, and the modules left, by the search.        *)
Passed ==
  (UNION {{n} \X (1..(Len(modules[n]) + 1)) : n \in ToSet(resolved)})
    \cup (UNION {{call.name} \X (1..(call.next - 1)) : call \in ToSet(calls)})

(* The search looks at every dependency once at most, however many ways    *)
(* lead to a module and whether or not there is a cycle: so it ends.       *)
LooksOnce ==
  [][Searching /\ phase' = phase => Passed \subseteq Passed' /\ Passed # Passed']_vars
=============================================================================
