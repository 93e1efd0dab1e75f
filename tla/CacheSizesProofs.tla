---------------------------- MODULE CacheSizesProofs ----------------------------
(***************************************************************************)
(* ApplyCacheSizes() gives every storage manager the size that takes       *)
(* precedence, provided that no column or storage manager is given 0.      *)
(***************************************************************************)
EXTENDS CacheSizes, TLAPS

\* The sizes given for the columns of a storage manager
Given(m) == {spec.col[c] : c \in {d \in Columns : managerOf[d] = m}} \ {Unspecified}

\* The size of a storage manager before any column is set
OfManager(m) == IF spec.sm[m] # Unspecified THEN spec.sm[m] ELSE Default

TypeInv ==
  /\ managerOf \in [Columns -> Managers]
  /\ spec \in CacheSizeSpecs
  /\ cap \in [Managers -> Nat]
  /\ pass \in 0..4

\* Each pass leaves the caps that it has not got to as the pass before left them
FirstPass ==
  /\ todo \subseteq Defaults
  /\ \A m \in Managers : cap[m] \in {Unbounded, Default}
  /\ \A c \in Columns : Entry(c, Default) \in todo \/ cap[managerOf[c]] = Default

SecondPass ==
  /\ todo \subseteq OfManagers
  /\ \A c \in Columns :
       LET m == managerOf[c]
       IN  IF spec.sm[m] = Unspecified THEN cap[m] = Default
           ELSE Entry(c, spec.sm[m]) \in todo \/ cap[m] = spec.sm[m]

ThirdPass ==
  /\ todo \subseteq OfColumns
  /\ \A c \in Columns :
       LET m == managerOf[c]
       IN  /\ spec.col[c] # Unspecified =>
                Entry(c, spec.col[c]) \in todo \/ cap[m] \in Given(m)
           /\ Given(m) = {} => cap[m] = OfManager(m)

CacheInv ==
  /\ TypeInv
  /\ pass = 0 => todo = {} /\ \A m \in Managers : cap[m] = Unbounded
  /\ pass = 1 => FirstPass
  /\ pass = 2 => SecondPass
  /\ pass = 3 => ThirdPass
  /\ pass = 4 => todo = {}

\* Sizes are natural numbers
LEMMA SizeTypes ==
  ASSUME TypeInv
  PROVE  /\ Default \in Nat
         /\ \A m \in Managers : spec.sm[m] \in Overrides \cup {Unspecified}
         /\ \A c \in Columns : spec.col[c] \in Overrides \cup {Unspecified}
  BY SizesAssumption DEF SizesAssumption, TypeInv, CacheSizeSpecs, Default

\* Setting a column caps its storage manager, and no other
LEMMA SetCaps ==
  ASSUME CacheInv, NEW c \in Columns, NEW n \in Nat, SetColumn(Entry(c, n))
  PROVE  /\ TypeInv'
         /\ n > 0 => cap'[managerOf[c]] = n
         /\ n = 0 => cap' = cap
         /\ \A m \in Managers \ {managerOf[c]} : cap'[m] = cap[m]
         /\ todo' = todo \ {Entry(c, n)}
         /\ UNCHANGED <<managerOf, spec, pass>>
  BY DEF SetColumn, CacheInv, TypeInv, Entry

\* Setting the default keeps the invariant
LEMMA SetFirst ==
  ASSUME CacheInv, NEW e \in todo, SetColumn(e), pass = 1
  PROVE  CacheInv'
<1>1. PICK c \in Columns : e = Entry(c, Default)
  BY DEF CacheInv, FirstPass, Defaults
<1>2. Default \in Nat /\ Default' = Default /\ Defaults' = Defaults
  BY SizeTypes DEF CacheInv, SetColumn, Default, Defaults
<1>3. /\ TypeInv' /\ pass' = 1 /\ todo' = todo \ {Entry(c, Default)}
      /\ managerOf' = managerOf
      /\ Default > 0 => cap'[managerOf[c]] = Default
      /\ Default = 0 => cap' = cap
      /\ \A m \in Managers \ {managerOf[c]} : cap'[m] = cap[m]
  BY <1>1, <1>2, SetCaps
<1>4. managerOf[c] \in Managers /\ \A d \in Columns : managerOf[d] \in Managers
  BY DEF CacheInv, TypeInv
<1>5. \A m \in Managers : cap'[m] \in {Unbounded, Default}
  <2>1. CASE Default = 0
    BY <1>3, <2>1 DEF CacheInv, FirstPass
  <2>2. CASE Default > 0
    BY <1>3, <2>2 DEF CacheInv, FirstPass
  <2> QED
    BY <1>2, <2>1, <2>2
<1>6. ASSUME NEW d \in Columns, Entry(d, Default) \notin todo'
      PROVE  cap'[managerOf[d]] = Default
  <2>1. CASE Default = 0
    BY <1>4, <1>5, <2>1 DEF Unbounded
  <2>2. CASE Default > 0 /\ managerOf[d] = managerOf[c]
    BY <1>3, <2>2
  <2>3. CASE Default > 0 /\ managerOf[d] # managerOf[c]
    <3>1. Entry(d, Default) # Entry(c, Default)
      BY <2>3 DEF Entry
    <3>2. cap[managerOf[d]] = Default
      BY <1>3, <1>6, <3>1 DEF CacheInv, FirstPass
    <3> QED
      BY <1>3, <1>4, <2>3, <3>2
  <2> QED
    BY <1>2, <2>1, <2>2, <2>3
<1>7. FirstPass'
  BY <1>2, <1>3, <1>5, <1>6 DEF FirstPass, CacheInv, Entry, Unbounded
<1> QED
  BY <1>3, <1>7 DEF CacheInv

\* Setting a storage manager's size keeps the invariant
LEMMA SetSecond ==
  ASSUME CacheInv, 0 \notin Overrides, NEW e \in todo, SetColumn(e), pass = 2
  PROVE  CacheInv'
<1>1. PICK c \in Columns : spec.sm[managerOf[c]] # Unspecified
                           /\ e = Entry(c, spec.sm[managerOf[c]])
  BY DEF CacheInv, SecondPass, OfManagers
<1> DEFINE n == spec.sm[managerOf[c]]
<1>2. \A d \in Columns : managerOf[d] \in Managers
  BY DEF CacheInv, TypeInv
<1>3. n \in Nat /\ n > 0
  <2>1. n \in Overrides
    BY <1>1, <1>2, SizeTypes DEF CacheInv
  <2>2. n \in Nat /\ n # 0
    BY <2>1, SizesAssumption DEF SizesAssumption
  <2> HIDE DEF n
  <2> QED
    BY <2>2
<1>4. /\ TypeInv' /\ pass' = 2 /\ todo' = todo \ {Entry(c, n)}
      /\ managerOf' = managerOf /\ spec' = spec
      /\ cap'[managerOf[c]] = n
      /\ \A m \in Managers \ {managerOf[c]} : cap'[m] = cap[m]
  BY <1>1, <1>3, SetCaps
<1>5. OfManagers' = OfManagers /\ Default' = Default
  BY <1>4 DEF OfManagers, Default
<1>6. ASSUME NEW d \in Columns
      PROVE  IF spec.sm[managerOf[d]] = Unspecified THEN cap'[managerOf[d]] = Default
             ELSE Entry(d, spec.sm[managerOf[d]]) \in todo'
                  \/ cap'[managerOf[d]] = spec.sm[managerOf[d]]
  <2>1. CASE managerOf[d] = managerOf[c]
    BY <1>1, <1>4, <2>1
  <2>2. CASE managerOf[d] # managerOf[c]
    <3>1. cap'[managerOf[d]] = cap[managerOf[d]]
      BY <1>2, <1>4, <2>2
    <3>2. Entry(d, spec.sm[managerOf[d]]) # Entry(c, n)
      BY <2>2 DEF Entry
    <3> QED
      BY <1>4, <3>1, <3>2 DEF CacheInv, SecondPass
  <2> QED
    BY <2>1, <2>2
<1>7. SecondPass'
  BY <1>4, <1>5, <1>6 DEF SecondPass, CacheInv, Entry
<1> QED
  BY <1>4, <1>7 DEF CacheInv

\* Setting a column's size keeps the invariant
LEMMA SetThird ==
  ASSUME CacheInv, 0 \notin Overrides, NEW e \in todo, SetColumn(e), pass = 3
  PROVE  CacheInv'
<1>1. PICK c \in Columns : spec.col[c] # Unspecified /\ e = Entry(c, spec.col[c])
  BY DEF CacheInv, ThirdPass, OfColumns
<1> DEFINE n == spec.col[c]
<1>2. \A d \in Columns : managerOf[d] \in Managers
  BY DEF CacheInv, TypeInv
<1>3. n \in Nat /\ n > 0
  <2>1. n \in Overrides
    BY <1>1, <1>2, SizeTypes DEF CacheInv
  <2>2. n \in Nat /\ n # 0
    BY <2>1, SizesAssumption DEF SizesAssumption
  <2> HIDE DEF n
  <2> QED
    BY <2>2
<1>4. /\ TypeInv' /\ pass' = 3 /\ todo' = todo \ {Entry(c, n)}
      /\ managerOf' = managerOf /\ spec' = spec
      /\ cap'[managerOf[c]] = n
      /\ \A m \in Managers \ {managerOf[c]} : cap'[m] = cap[m]
  BY <1>1, <1>3, SetCaps
<1>5. /\ OfColumns' = OfColumns /\ Default' = Default
      /\ \A m : Given(m)' = Given(m) /\ OfManager(m)' = OfManager(m)
  BY <1>4 DEF OfColumns, Default, Given, OfManager
<1>6. n \in Given(managerOf[c])
  BY <1>1 DEF Given
<1>7. ASSUME NEW d \in Columns
      PROVE  /\ spec.col[d] # Unspecified =>
                  Entry(d, spec.col[d]) \in todo' \/ cap'[managerOf[d]] \in Given(managerOf[d])
             /\ Given(managerOf[d]) = {} => cap'[managerOf[d]] = OfManager(managerOf[d])
  <2>1. CASE managerOf[d] = managerOf[c]
    BY <1>4, <1>6, <2>1
  <2>2. CASE managerOf[d] # managerOf[c]
    <3>1. cap'[managerOf[d]] = cap[managerOf[d]]
      BY <1>2, <1>4, <2>2
    <3>2. Entry(d, spec.col[d]) # Entry(c, n)
      BY <2>2 DEF Entry
    <3> QED
      BY <1>4, <3>1, <3>2 DEF CacheInv, ThirdPass
  <2> QED
    BY <2>1, <2>2
<1>8. ThirdPass'
  <2>1. todo' \subseteq OfColumns'
    BY <1>4, <1>5 DEF CacheInv, ThirdPass
  <2>2. \A d \in Columns :
          /\ spec'.col[d] # Unspecified =>
               Entry(d, spec'.col[d]) \in todo' \/ cap'[managerOf'[d]] \in Given(managerOf[d])'
          /\ Given(managerOf[d])' = {} => cap'[managerOf'[d]] = OfManager(managerOf[d])'
    BY <1>4, <1>5, <1>7
  <2> QED
    BY <2>1, <2>2, <1>4 DEF ThirdPass, Entry, Given, OfManager, Default
<1> QED
  BY <1>4, <1>8 DEF CacheInv

\* Moving on to the next pass
LEMMA NextPassStep == ASSUME CacheInv, NextPass PROVE CacheInv'
<1>1. TypeInv' /\ UNCHANGED <<managerOf, spec, cap>>
  BY DEF NextPass, CacheInv, TypeInv
<1>2. CASE pass = 1
  <2>1. pass' = 2 /\ todo' = OfManagers
    BY <1>2 DEF NextPass, Entries
  <2>2. \A c \in Columns : cap[managerOf[c]] = Default
    BY <1>2 DEF NextPass, CacheInv, FirstPass
  <2>3. OfManagers' = OfManagers /\ Default' = Default
    BY <1>1 DEF OfManagers, Default
  <2>4. \A c \in Columns : spec.sm[managerOf[c]] # Unspecified =>
                             Entry(c, spec.sm[managerOf[c]]) \in OfManagers
    BY DEF OfManagers
  <2>5. SecondPass'
    BY <1>1, <2>1, <2>2, <2>3, <2>4 DEF SecondPass, Entry
  <2> QED
    BY <1>1, <2>1, <2>5 DEF CacheInv
<1>3. CASE pass = 2
  <2>1. pass' = 3 /\ todo' = OfColumns
    BY <1>3 DEF NextPass, Entries
  <2>2. \A c \in Columns : cap[managerOf[c]] = OfManager(managerOf[c])
    BY <1>3 DEF NextPass, CacheInv, SecondPass, OfManager
  <2>3. /\ OfColumns' = OfColumns
        /\ \A m : OfManager(m)' = OfManager(m)
    BY <1>1 DEF OfColumns, OfManager, Default
  <2>4. \A c \in Columns : spec.col[c] # Unspecified => Entry(c, spec.col[c]) \in OfColumns
    BY DEF OfColumns
  <2>5. ThirdPass'
    BY <1>1, <2>1, <2>2, <2>3, <2>4 DEF ThirdPass, Entry, OfManager, Default
  <2> QED
    BY <1>1, <2>1, <2>5 DEF CacheInv
<1> QED
  BY <1>2, <1>3 DEF NextPass

\* So does validation
LEMMA ValidateStep == ASSUME CacheInv, Validate PROVE CacheInv'
<1>1. TypeInv' /\ UNCHANGED <<managerOf, spec, cap>>
  BY DEF Validate, CacheInv, TypeInv
<1>2. CASE pass' = 4
  BY <1>1, <1>2 DEF Validate, CacheInv
<1>3. CASE pass' = 1
  <2>1. todo' = Defaults /\ \A m \in Managers : cap[m] = Unbounded
    BY <1>3 DEF Validate, Entries, CacheInv
  <2>2. Defaults' = Defaults /\ Default' = Default
    BY <1>1 DEF Defaults, Default
  <2>3. \A c \in Columns : Entry(c, Default) \in Defaults
    BY DEF Defaults
  <2>4. FirstPass'
    BY <1>1, <2>1, <2>2, <2>3 DEF FirstPass, Entry
  <2> QED
    BY <1>1, <1>3, <2>4 DEF CacheInv
<1> QED
  BY <1>2, <1>3 DEF Validate

(***************************************************************************)
(* Whatever the table's columns and storage managers and the order their   *)
(* sizes are set in, ApplyCacheSizes() resolves column: over stman: over   *)
(* default, if sizes of 0 are only given by default.                       *)
(***************************************************************************)
THEOREM PrecedenceHolds ==
  ASSUME 0 \notin Overrides PROVE Spec => []Precedence
<1>1. Init => CacheInv
  <2> SUFFICES ASSUME Init PROVE CacheInv
    OBVIOUS
  <2>1. TypeInv
    BY DEF Init, TypeInv, Unbounded
  <2> QED
    BY <2>1 DEF Init, CacheInv
<1>2. CacheInv /\ [Next]_vars => CacheInv'
  <2> SUFFICES ASSUME CacheInv, [Next]_vars PROVE CacheInv'
    OBVIOUS
  <2>1. CASE Validate
    BY <2>1, ValidateStep
  <2>2. CASE NextPass
    BY <2>2, NextPassStep
  <2>3. ASSUME NEW e \in todo, SetColumn(e) PROVE CacheInv'
    <3>1. pass \in {1, 2, 3}
      BY <2>3 DEF CacheInv, TypeInv
    <3> QED
      BY <2>3, <3>1, SetFirst, SetSecond, SetThird
  <2>4. CASE UNCHANGED vars
    BY <2>4 DEF vars, CacheInv, TypeInv, FirstPass, SecondPass, ThirdPass, Defaults,
                OfManagers, OfColumns, Default, Given, OfManager, Entry
  <2> QED
    BY <2>1, <2>2, <2>3, <2>4 DEF Next
<1>3. CacheInv => Precedence
  <2> SUFFICES ASSUME CacheInv, pass = 3, todo = {}, NEW c \in Columns
               PROVE  cap[managerOf[c]] \in Resolved(managerOf[c])
    BY DEF Precedence
  <2>1. ThirdPass
    BY DEF CacheInv
  <2>2. CASE Given(managerOf[c]) = {}
    BY <2>1, <2>2 DEF ThirdPass, Resolved, Given, OfManager
  <2>3. CASE Given(managerOf[c]) # {}
    <3>1. PICK d \in Columns : managerOf[d] = managerOf[c] /\ spec.col[d] # Unspecified
      BY <2>3 DEF Given
    <3>2. cap[managerOf[c]] \in Given(managerOf[c])
      BY <2>1, <3>1 DEF ThirdPass
    <3> QED
      BY <2>3, <3>2 DEF Resolved, Given
  <2> QED
    BY <2>2, <2>3
<1> QED
  BY <1>1, <1>2, <1>3, PTL DEF Spec
=============================================================================
