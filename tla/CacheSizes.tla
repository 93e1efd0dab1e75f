------------------------------- MODULE CacheSizes -------------------------------
(***************************************************************************)
(* Capping the caches of a table's storage managers when it is opened      *)
(* (ParseCacheSizeSpec() and ApplyCacheSizes()).  Sizes are given for      *)
(* columns, storage managers and by default, but casacore caps a storage   *)
(* manager as a whole: the last size set for one of its columns stands.    *)
(***************************************************************************)
EXTENDS Naturals

CONSTANTS
  Columns, Managers,   \* of the table
  Stranger,            \* a name that is neither
  BuiltIn,             \* kDefaultCacheSizeMiB
  Sizes, Overrides,    \* sizes given by default, and for columns and managers
  Unspecified          \* no size given

Unbounded == 0

ASSUME SizesAssumption ==
  /\ BuiltIn \in Nat \ {0} /\ Sizes \subseteq Nat /\ Overrides \subseteq Nat
  /\ Unspecified \notin Nat
  /\ Stranger \notin Columns \cup Managers

VARIABLES
  managerOf,   \* the storage manager of each column
  spec,        \* the CacheSizeSpec: default, sm and col
  pass,        \* 0 before validation, then 1 to 3; 4 if the specification is refused
  todo,        \* the columns to set in this pass, and to what
  cap          \* of each storage manager

vars == <<managerOf, spec, pass, todo, cap>>

\* The order of a pass is that of the names, which may be any
CacheSizeSpecs ==
  [default: Sizes \cup {Unspecified},
   sm: [Managers \cup {Stranger} -> Overrides \cup {Unspecified}],
   col: [Columns \cup {Stranger} -> Overrides \cup {Unspecified}]]

Init ==
  /\ managerOf \in [Columns -> Managers]
  /\ spec \in CacheSizeSpecs
  /\ pass = 0
  /\ todo = {}
  /\ cap = [m \in Managers |-> Unbounded]

Default == IF spec.default = Unspecified THEN BuiltIn ELSE spec.default

Entry(c, size) == [column |-> c, size |-> size]

\* What each pass sets: the default, then storage managers, then columns
Defaults == {Entry(c, Default) : c \in Columns}
OfManagers ==
  {Entry(c, spec.sm[managerOf[c]]) : c \in {d \in Columns : spec.sm[managerOf[d]] # Unspecified}}
OfColumns == {Entry(c, spec.col[c]) : c \in {d \in Columns : spec.col[d] # Unspecified}}

ColumnsFirst(n) ==
  CASE n = 1 -> Defaults [] n = 2 -> OfColumns [] n = 3 -> OfManagers
Entries(n) ==
  CASE n = 1 -> Defaults [] n = 2 -> OfManagers [] n = 3 -> OfColumns

Validate ==
  /\ pass = 0
  /\ IF spec.sm[Stranger] # Unspecified \/ spec.col[Stranger] # Unspecified
     THEN pass' = 4 /\ UNCHANGED todo
     ELSE pass' = 1 /\ todo' = Entries(1)
  /\ UNCHANGED <<managerOf, spec, cap>>

\* set_column.  Calls setMaximumCacheSize() only for sizes that bound the cache
SetColumn(e) ==
  /\ e \in todo
  /\ cap' = IF e.size > 0 THEN [cap EXCEPT ![managerOf[e.column]] = e.size] ELSE cap
  /\ todo' = todo \ {e}
  /\ UNCHANGED <<managerOf, spec, pass>>

NextPass ==
  /\ pass \in 1..2 /\ todo = {}
  /\ pass' = pass + 1
  /\ todo' = Entries(pass + 1)
  /\ UNCHANGED <<managerOf, spec, cap>>

Next == Validate \/ NextPass \/ \E e \in todo : SetColumn(e)

Spec == Init /\ [][Next]_vars

-----------------------------------------------------------------------------
\* The sizes given for the columns of a storage manager at the level that takes
\* precedence: if several columns have one, the last to be set stands
Resolved(m) ==
  LET given == {spec.col[c] : c \in {d \in Columns : managerOf[d] = m}} \ {Unspecified}
  IN  IF given # {} THEN given
      ELSE IF spec.sm[m] # Unspecified THEN {spec.sm[m]} ELSE {Default}

\* Once applied, the cache of every storage manager in use is capped at the size
\* given for one of its columns, or else for itself, or else by default, whichever
\* columns share it and in whichever order they are set; 0 leaves it unbounded
Precedence ==
  pass = 3 /\ todo = {} =>
    \A c \in Columns : cap[managerOf[c]] \in Resolved(managerOf[c])

=============================================================================
