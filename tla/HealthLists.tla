---------------------------- MODULE HealthLists -----------------------------
(***************************************************************************)
(* The part of health.Status that lists offending paths: names the server  *)
(* rejects and conflicted copies (internal/health/health.go).  As in       *)
(* HealthStatus each method runs under the mutex and is one operator.  A   *)
(* path stands for its escaped form: scan.Escape is injective.             *)
(***************************************************************************)
EXTENDS Integers, Sequences, FiniteSets, SequencesExt

CONSTANTS
    MaxDisplayedNames,      \* cap on the names listed
    MaxDisplayedConflicts   \* cap on the conflicted copies listed

ASSUME DisplayAssumption ==
    MaxDisplayedNames \in Nat /\ MaxDisplayedConflicts \in Nat

NoLists ==
    [invalidSeen  |-> {}, invalidNames  |-> <<>>, invalidNameCount |-> 0,
     conflictSeen |-> {}, conflictFiles |-> <<>>, conflictCount    |-> 0]

UpTo(list, cap) == SubSeq(list, 1, IF Len(list) < cap THEN Len(list) ELSE cap)

\* Mutant: only the paths shown are remembered.
SetInvalidNamesShown(lists, paths, total) ==
    [lists EXCEPT !.invalidSeen      = ToSet(UpTo(paths, MaxDisplayedNames)),
                  !.invalidNames     = UpTo(paths, MaxDisplayedNames),
                  !.invalidNameCount = total]

\* A scan's result replaces what was known: every path it names is
\* remembered, also those beyond the display cap.
SetInvalidNames(lists, paths, total) ==
    [lists EXCEPT !.invalidSeen      = ToSet(paths),
                  !.invalidNames     = UpTo(paths, MaxDisplayedNames),
                  !.invalidNameCount = total]

SetConflictFiles(lists, conflicts, total) ==
    [lists EXCEPT !.conflictSeen  = {c.path : c \in ToSet(conflicts)},
                  !.conflictFiles = UpTo(conflicts, MaxDisplayedConflicts),
                  !.conflictCount = total]

\* The watcher passes its own cap, of the same value.
AddInvalidName(lists, path) ==
    IF path \in lists.invalidSeen THEN lists
    ELSE [lists EXCEPT
             !.invalidSeen      = @ \cup {path},
             !.invalidNameCount = @ + 1,
             !.invalidNames     = IF Len(@) < MaxDisplayedNames
                                  THEN Append(@, path) ELSE @]

\* Where an entry comes when the list is sorted newest first: behind those
\* that are newer and, the sort being stable, those as new that it followed.
Place(list, i) ==
    Cardinality({j \in DOMAIN list :
        \/ list[j].modified > list[i].modified
        \/ list[j].modified = list[i].modified /\ j <= i})

\* Which entry of the list comes to stand at n.
From(list, n) == CHOOSE i \in DOMAIN list : Place(list, i) = n

\* sort.SliceStable by modification time.
NewestFirst(list) == [n \in DOMAIN list |-> list[From(list, n)]]

AddConflictFile(lists, path, modified) ==
    IF path \in lists.conflictSeen THEN lists
    ELSE [lists EXCEPT
             !.conflictSeen  = @ \cup {path},
             !.conflictCount = @ + 1,
             !.conflictFiles =
                 UpTo(NewestFirst(Append(@, [path |-> path, modified |-> modified])),
                      MaxDisplayedConflicts)]
=============================================================================
