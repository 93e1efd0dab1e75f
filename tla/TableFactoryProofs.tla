--------------------------- MODULE TableFactoryProofs ---------------------------
(***************************************************************************)
(* Opening and creating tables, for every set of names and requests, any   *)
(* number of instances and any number of requests: links lead to tables    *)
(* that exist, a table made with success is as described, and no request   *)
(* touches a table that isn't its own.                                     *)
(***************************************************************************)
EXTENDS TableFactory, TLAPS

Directories == Names \cup {"measurementset.ms"}
TableNames == {"MAIN"} \cup DefaultSubtables \cup {Physical(r.subtable) : r \in Requests}

\* What may be at a path
IsTable(t) ==
  \/ t = Absent
  \/ t = NewTable(t.desc, t.links) /\ t.links \subseteq TableNames

(***************************************************************************)
(* The disk, between any two steps.  Nothing is made without a name, since *)
(* CreateTable() refuses and DefaultMS() replaces an empty one: this is    *)
(* why linking to the name that was given links to the table that was made. *)
(***************************************************************************)
DiskInv ==
  /\ disk = [p \in Paths |-> disk[p]]
  /\ \A p \in Paths : IsTable(disk[p])
  /\ \A p \in Paths : p[1] = "" => disk[p] = Absent
  /\ \A p \in Paths : p[2] # "MAIN" /\ disk[p].exists => disk[p].links = {}
  /\ LinksResolve

\* What AsDescribed says of a table that was opened or created
Described ==
  LET made == disk[PathOf(request)]
      main == disk[<<PathOf(request)[1], "MAIN">>]
      required == IF request.op = "DefaultMS" THEN DOMAIN Required ELSE {}
  IN  /\ made.exists
      /\ request.op # "Open" =>
           /\ DOMAIN made.desc = required \cup DOMAIN request.desc
           /\ \A x \in DOMAIN request.desc : made.desc[x] = request.desc[x]
      /\ request.op = "DefaultMS" =>
           IF IsMain(request.subtable) THEN DefaultSubtables \subseteq main.links
           ELSE PathOf(request)[2] \in main.links

\* The request that a functor is at work on, and what it has done so far
FunctorInv ==
  /\ stage = "open" => request.op = "Open"
  /\ stage = "create" => request.op = "CreateTable"
  /\ stage \in {"create", "apply"} /\ request.op = "CreateTable" => request.name # ""
  /\ stage \in {"main", "defaults"} => request.op = "DefaultMS" /\ IsMain(request.subtable)
  /\ stage \in {"ms", "subtable", "link"} =>
       request.op = "DefaultMS" /\ ~ IsMain(request.subtable)
  /\ stage = "defaults" =>
       /\ disk[PathOf(request)].exists
       /\ disk[PathOf(request)].desc = Merge(Required, request.desc)
  /\ stage \in {"subtable", "link"} => disk[MainOf(request.name)].exists
  /\ stage = "link" => disk[PathOf(request)] = NewTable(Merge(Required, request.desc), {})
  /\ stage = "apply" => Described

\* Is the table at p a MeasurementSet that a request has done no more to than link it?
LinkedOnly(p) ==
  /\ p = <<PathOf(request)[1], "MAIN">>
  /\ before[p].exists /\ disk[p].exists
  /\ disk[p].desc = before[p].desc
  /\ before[p].links \subseteq disk[p].links

\* What NothingElseTouched says, of each path on its own
TouchesOwn ==
  /\ request.op = "Open" => disk = before
  /\ \A p \in Paths :
       IF request.op = "DefaultMS" /\ ~ IsMain(request.subtable)
       THEN p # PathOf(request) => disk[p] = before[p] \/ LinkedOnly(p)
       ELSE p[1] # PathOf(request)[1] => disk[p] = before[p]

FactoryInv ==
  /\ request \in Requests
  /\ DiskInv
  /\ FunctorInv
  /\ answer = "ok" => stage = "idle" /\ Described
  /\ TouchesOwn

-----------------------------------------------------------------------------
(* Paths *)

\* A path is a directory and the name of a table
LEMMA PathShape ==
  /\ Paths = Directories \X TableNames
  /\ {p[2] : p \in Paths} = TableNames
  /\ \A p \in Paths : p[1] \in Directories /\ p[2] \in TableNames /\ p = <<p[1], p[2]>>
  /\ \A d \in Directories, s \in TableNames : <<d, s>> \in Paths
  /\ "MAIN" \in TableNames
<1>1. Paths = Directories \X TableNames
  BY DEF Paths, Directories, TableNames
<1>2. \A p \in Paths : p[1] \in Directories /\ p[2] \in TableNames /\ p = <<p[1], p[2]>>
  BY <1>1
<1>3. \A d \in Directories, s \in TableNames : <<d, s>> \in Paths
  BY <1>1
<1>4. "MAIN" \in TableNames /\ "measurementset.ms" \in Directories
  BY DEF TableNames, Directories
<1>5. ASSUME NEW s \in TableNames PROVE s \in {p[2] : p \in Paths}
  <2>1. <<"measurementset.ms", s>> \in Paths /\ <<"measurementset.ms", s>>[2] = s
    BY <1>3, <1>4
  <2> QED
    BY <2>1
<1> QED
  BY <1>1, <1>2, <1>3, <1>4, <1>5

\* Where the table of a request is
LEMMA RequestPath ==
  ASSUME NEW r \in Requests
  PROVE  /\ PathOf(r) \in Paths /\ PathOf(r)[1] \in Directories
         /\ PathOf(r) = <<PathOf(r)[1], PathOf(r)[2]>>
         /\ PathOf(r)[1] = IF r.op = "DefaultMS" THEN MSName(r.name) ELSE r.name
         /\ PathOf(r)[2] = IF r.op = "DefaultMS" /\ ~ IsMain(r.subtable)
                           THEN Physical(r.subtable) ELSE "MAIN"
         /\ MainOf(r.name) \in Paths /\ r.name \in Directories
         /\ Physical(r.subtable) \in TableNames
         /\ ~ IsMain(r.subtable) => Physical(r.subtable) # "MAIN"
         /\ r.op # "DefaultMS" => PathOf(r) = <<r.name, "MAIN">>
         /\ r.op = "DefaultMS" /\ IsMain(r.subtable) => PathOf(r) = <<MSName(r.name), "MAIN">>
         /\ r.op = "DefaultMS" /\ ~ IsMain(r.subtable) =>
              PathOf(r) = <<MSName(r.name), Physical(r.subtable)>>
         /\ MSName(r.name) # "" /\ (r.name # "" => MSName(r.name) = r.name)
<1>1. r.name \in Directories /\ MSName(r.name) \in Directories
  BY RequestsAssumption DEF RequestsAssumption, Directories, MSName
<1>2. Physical(r.subtable) \in TableNames
  BY DEF TableNames
<1>3. \/ PathOf(r) = <<r.name, "MAIN">> \/ PathOf(r) = <<MSName(r.name), "MAIN">>
      \/ PathOf(r) = <<MSName(r.name), Physical(r.subtable)>>
  BY DEF PathOf, MainOf
<1>4. PathOf(r) \in Paths /\ MainOf(r.name) \in Paths
  BY <1>1, <1>2, <1>3, PathShape DEF MainOf
<1>5. ~ IsMain(r.subtable) => Physical(r.subtable) # "MAIN"
  BY DEF IsMain, Physical
<1>6. MSName(r.name) # "" /\ (r.name # "" => MSName(r.name) = r.name)
  BY DEF MSName
<1>7. /\ PathOf(r)[1] = IF r.op = "DefaultMS" THEN MSName(r.name) ELSE r.name
      /\ PathOf(r)[2] = IF r.op = "DefaultMS" /\ ~ IsMain(r.subtable)
                        THEN Physical(r.subtable) ELSE "MAIN"
  BY DEF PathOf, MainOf
<1>8. PathOf(r)[1] \in Directories /\ PathOf(r) = <<PathOf(r)[1], PathOf(r)[2]>>
  BY <1>4, PathShape
<1>9. /\ r.op # "DefaultMS" => PathOf(r) = <<r.name, "MAIN">>
      /\ r.op = "DefaultMS" /\ IsMain(r.subtable) => PathOf(r) = <<MSName(r.name), "MAIN">>
      /\ r.op = "DefaultMS" /\ ~ IsMain(r.subtable) =>
           PathOf(r) = <<MSName(r.name), Physical(r.subtable)>>
  BY DEF PathOf, MainOf
<1> QED
  BY <1>1, <1>2, <1>4, <1>5, <1>6, <1>7, <1>8, <1>9

\* Tables and their fields
LEMMA TableFields ==
  /\ ~ Absent.exists
  /\ \A desc, links : /\ NewTable(desc, links).exists
                      /\ NewTable(desc, links).desc = desc
                      /\ NewTable(desc, links).links = links
  /\ IsTable(Absent)
  /\ \A desc : \A links \in SUBSET TableNames : IsTable(NewTable(desc, links))
<1>1. /\ ~ Absent.exists
      /\ \A desc, links : /\ NewTable(desc, links).exists
                          /\ NewTable(desc, links).desc = desc
                          /\ NewTable(desc, links).links = links
  BY DEF Absent, NewTable
<1> QED
  BY <1>1 DEF IsTable

\* A request that touches nothing but its own leaves everything else alone
LEMMA OwnTables ==
  ASSUME request \in Requests, TouchesOwn PROVE NothingElseTouched
<1> DEFINE name == IF request.op = "DefaultMS" /\ request.name = ""
                   THEN "measurementset.ms" ELSE request.name
           all == {name} \X {p[2] : p \in Paths}
           own == IF request.op = "DefaultMS" /\ Upper(request.subtable) \notin {"", "MAIN"}
                  THEN {<<name, Physical(request.subtable)>>} ELSE all
<1>1. name = PathOf(request)[1]
  BY RequestPath DEF MSName
<1>2. all = {name} \X TableNames /\ <<name, "MAIN">> \in all
  BY PathShape
<1>3. IsMain(request.subtable) <=> Upper(request.subtable) \in {"", "MAIN"}
  BY DEF IsMain
<1>4. ASSUME NEW p \in Paths \ own
      PROVE  \/ disk[p] = before[p]
             \/ /\ own # all /\ p = <<name, "MAIN">>
                /\ before[p].exists /\ disk[p].exists
                /\ disk[p].desc = before[p].desc
                /\ before[p].links \subseteq disk[p].links
  <2>1. CASE request.op = "DefaultMS" /\ ~ IsMain(request.subtable)
    <3>1. own = {<<name, Physical(request.subtable)>>}
      BY <1>3, <2>1
    <3>2. PathOf(request) = <<name, Physical(request.subtable)>>
      <4> HIDE DEF name, all, own
      <4>1. PathOf(request) = <<PathOf(request)[1], Physical(request.subtable)>>
        BY <2>1, RequestPath
      <4> QED
        BY <1>1, <4>1
    <3>3. disk[p] = before[p] \/ LinkedOnly(p)
      BY <1>4, <2>1, <3>1, <3>2 DEF TouchesOwn
    <3>4. own # all
      <4> HIDE DEF name, all, own
      <4>1. Physical(request.subtable) # "MAIN"
        BY <2>1, RequestPath
      <4> QED
        BY <1>2, <3>1, <4>1
    <3> QED
      BY <1>1, <3>3, <3>4 DEF LinkedOnly
  <2>2. CASE ~ (request.op = "DefaultMS" /\ ~ IsMain(request.subtable))
    <3>1. own = all
      BY <1>3, <2>2
    <3>2. p[1] # name
      BY <1>2, <1>4, <3>1, PathShape
    <3> QED
      BY <1>1, <2>2, <3>2 DEF TouchesOwn
  <2> QED
    BY <2>1, <2>2
<1>5. request.op = "Open" => disk = before
  BY DEF TouchesOwn
<1> QED
  BY <1>4, <1>5 DEF NothingElseTouched

-----------------------------------------------------------------------------
(* The disk *)

\* A table that is there
LEMMA Existing ==
  ASSUME DiskInv, NEW p \in Paths, disk[p].exists
  PROVE  /\ p[1] # ""
         /\ disk[p] = NewTable(disk[p].desc, disk[p].links)
         /\ disk[p].links \subseteq TableNames
         /\ \A s \in disk[p].links : disk[<<p[1], s>>].exists
         /\ p[2] # "MAIN" => disk[p].links = {}
  BY TableFields DEF DiskInv, IsTable, LinksResolve

\* A table made in the place of another, which had links
LEMMA DiskMade ==
  ASSUME DiskInv, NEW name \in Directories, name # "", NEW desc, NEW kept,
         kept = {} \/ kept = TableNames, disk' = MadeAt(name, desc, kept)
  PROVE  DiskInv'
<1>1. \A p \in Paths : disk'[p] = IF p[1] # name THEN disk[p]
                                  ELSE IF p[2] = "MAIN" THEN NewTable(desc, {})
                                  ELSE IF p[2] \in kept THEN disk[p] ELSE Absent
  BY DEF MadeAt
<1>2. disk' = [p \in Paths |-> disk'[p]]
  BY DEF MadeAt
<1>3. \A p \in Paths : IsTable(disk'[p])
  <2>1. IsTable(NewTable(desc, {})) /\ IsTable(Absent)
    BY TableFields
  <2>2. \A p \in Paths : IsTable(disk[p])
    BY DEF DiskInv
  <2> QED
    BY <1>1, <2>1, <2>2
<1>4. \A p \in Paths : p[1] = "" => disk'[p] = Absent
  BY <1>1 DEF DiskInv
<1>5. \A p \in Paths : p[2] # "MAIN" /\ disk'[p].exists => disk'[p].links = {}
  BY <1>1, TableFields DEF DiskInv
<1>6. LinksResolve'
  <2> SUFFICES ASSUME NEW p \in Paths, disk'[p].exists, NEW s \in disk'[p].links
               PROVE  disk'[<<p[1], s>>].exists
    BY DEF LinksResolve
  <2>1. disk'[p] = disk[p] /\ p[1] # name
    <3>1. p[2] = "MAIN"
      BY <1>5
    <3>2. NewTable(desc, {}).links = {}
      BY TableFields
    <3> QED
      BY <1>1, <3>1, <3>2
  <2>2. disk[<<p[1], s>>].exists /\ s \in TableNames
    BY <2>1, Existing
  <2>3. <<p[1], s>> \in Paths /\ <<p[1], s>>[1] # name
    BY <2>1, <2>2, PathShape
  <2> QED
    BY <1>1, <2>2, <2>3
<1> QED
  BY <1>2, <1>3, <1>4, <1>5, <1>6 DEF DiskInv

\* A disk that has more, of which what was there is linked as before
LEMMA DiskGrown ==
  ASSUME DiskInv, disk' = [p \in Paths |-> disk'[p]],
         \A p \in Paths : IsTable(disk'[p]),
         \A p \in Paths : disk'[p] = disk[p] \/ (disk'[p].exists /\ p[1] # ""),
         \A p \in Paths : disk'[p] # disk[p] /\ p[2] # "MAIN" => disk'[p].links = {},
         \A p \in Paths : disk'[p] # disk[p] /\ p[2] = "MAIN" =>
           \A s \in disk'[p].links : disk'[<<p[1], s>>].exists
  PROVE  DiskInv'
<1>1. \A p \in Paths : p[1] = "" => disk'[p] = Absent
  BY DEF DiskInv
<1>2. \A p \in Paths : p[2] # "MAIN" /\ disk'[p].exists => disk'[p].links = {}
  BY DEF DiskInv
<1>3. LinksResolve'
  <2> SUFFICES ASSUME NEW p \in Paths, disk'[p].exists, NEW s \in disk'[p].links
               PROVE  disk'[<<p[1], s>>].exists
    BY DEF LinksResolve
  <2>1. CASE disk'[p] = disk[p]
    <3>1. disk[<<p[1], s>>].exists /\ s \in TableNames
      BY <2>1, Existing
    <3>2. <<p[1], s>> \in Paths
      BY <3>1, PathShape
    <3> QED
      BY <3>1, <3>2
  <2>2. CASE disk'[p] # disk[p]
    BY <1>2, <2>2
  <2> QED
    BY <2>1, <2>2
<1> QED
  BY <1>1, <1>2, <1>3 DEF DiskInv

-----------------------------------------------------------------------------
(* The functors *)

\* A merged description is the user's, and what is required besides
LEMMA Merged ==
  ASSUME NEW user
  PROVE  /\ DOMAIN Merge(Required, user) = DOMAIN Required \cup DOMAIN user
         /\ \A x \in DOMAIN user : Merge(Required, user)[x] = user[x]
  BY DEF Merge

\* A subtable is made, then linked
LEMMA Steps ==
  SubtableSteps[1] = "subtable" /\ StepAfter("subtable") = "link" /\ StepAfter("link") = "apply"
<1>1. /\ SubtableSteps[1] = "subtable" /\ SubtableSteps[2] = "link" /\ SubtableSteps[3] = "apply"
      /\ 2..3 = {2, 3}
  BY DEF SubtableSteps
<1>2. (CHOOSE i \in 2..3 : SubtableSteps[i - 1] = "subtable") = 2
  BY <1>1
<1>3. (CHOOSE i \in 2..3 : SubtableSteps[i - 1] = "link") = 3
  BY <1>1
<1> QED
  BY <1>1, <1>2, <1>3 DEF StepAfter

\* The first step of a functor is that of its request
LEMMA First ==
  ASSUME request \in Requests
  PROVE  /\ FirstStage \in {"open", "create", "main", "ms"}
         /\ FirstStage = "open" => request.op = "Open"
         /\ FirstStage = "create" => request.op = "CreateTable"
         /\ FirstStage = "main" => request.op = "DefaultMS" /\ IsMain(request.subtable)
         /\ FirstStage = "ms" => request.op = "DefaultMS" /\ ~ IsMain(request.subtable)
  BY RequestsAssumption DEF RequestsAssumption, FirstStage

\* A step that leaves the request and the disk alone
LEMMA SameDisk ==
  ASSUME FactoryInv, request' = request, disk' = disk, before' = before
  PROVE  /\ request' \in Requests /\ DiskInv' /\ TouchesOwn'
         /\ Described => Described'
<1>1. DiskInv'
  BY DEF FactoryInv, DiskInv, LinksResolve
<1>2. TouchesOwn'
  BY DEF FactoryInv, TouchesOwn, LinkedOnly
<1>3. Described => Described'
  BY DEF Described
<1> QED
  BY <1>1, <1>2, <1>3 DEF FactoryInv

\* A functor that starts
LEMMA Starts ==
  ASSUME FactoryInv, request' = request, disk' = disk, before' = before,
         stage' = FirstStage, answer' # "ok",
         request.op = "CreateTable" => request.name # ""
  PROVE  FactoryInv'
<1>1. FunctorInv'
  BY First DEF FactoryInv, FunctorInv
<1> QED
  BY <1>1, SameDisk DEF FactoryInv

\* A request that ends
LEMMA Ends ==
  ASSUME FactoryInv, request' = request, disk' = disk, before' = before,
         NEW result, End(result), result = "ok" => Described
  PROVE  FactoryInv'
<1>1. FunctorInv' /\ stage' = "idle" /\ answer' = result
  BY DEF FunctorInv, End
<1> QED
  BY <1>1, SameDisk DEF FactoryInv

\* The steps that touch no table
LEMMA QuietSteps ==
  ASSUME FactoryInv,
         \/ \E r \in Requests : Request(r)
         \/ Check \/ Throw \/ Apply \/ SizesRefused \/ Instantiated
         \/ UNCHANGED allVars
  PROVE  FactoryInv'
<1>1. ASSUME NEW r \in Requests, Request(r) PROVE FactoryInv'
  <2>1. DiskInv'
    BY <1>1 DEF FactoryInv, DiskInv, LinksResolve, Request
  <2>2. TouchesOwn'
    BY <1>1 DEF TouchesOwn, Request
  <2>3. FunctorInv' /\ answer' = "none"
    BY <1>1 DEF FunctorInv, Request
  <2> QED
    BY <1>1, <2>1, <2>2, <2>3 DEF FactoryInv, Request
<1>2. CASE Check
  <2>1. request' = request /\ disk' = disk /\ before' = before
    BY <1>2 DEF Check
  <2>2. CASE ArgumentsRefused
    BY <1>2, <2>1, <2>2, Ends DEF Check
  <2>3. CASE ~ ArgumentsRefused
    <3>1. stage' = FirstStage /\ answer' = answer /\ stage = "check"
      BY <1>2, <2>3 DEF Check
    <3>2. answer' # "ok"
      BY <3>1 DEF FactoryInv
    <3>3. request.op = "CreateTable" => request.name # ""
      BY <2>3 DEF ArgumentsRefused
    <3> QED
      BY <2>1, <3>1, <3>2, <3>3, Starts
  <2> QED
    BY <2>2, <2>3
<1>3. CASE Throw
  BY <1>3, Ends DEF Throw
<1>4. CASE Apply \/ UNCHANGED allVars
  <2>1. request' = request /\ disk' = disk /\ before' = before /\ stage' = stage /\ answer' = answer
    BY <1>4 DEF Apply, factoryVars, allVars
  <2>2. FunctorInv'
    BY <2>1, SameDisk DEF FactoryInv, FunctorInv
  <2> QED
    BY <2>1, <2>2, SameDisk DEF FactoryInv
<1>5. CASE SizesRefused
  BY <1>5, Ends DEF SizesRefused
<1>6. CASE Instantiated
  <2>1. request' = request /\ disk' = disk /\ before' = before /\ stage = "apply"
    BY <1>6 DEF Instantiated
  <2>2. Described
    BY <2>1 DEF FactoryInv, FunctorInv
  <2>3. CASE instance < request.instances
    <3>1. stage' = FirstStage /\ answer' = answer
      BY <1>6, <2>3 DEF Instantiated
    <3>2. answer' # "ok" /\ (request.op = "CreateTable" => request.name # "")
      BY <2>1, <3>1 DEF FactoryInv, FunctorInv
    <3> QED
      BY <2>1, <3>1, <3>2, Starts
  <2>4. CASE ~ (instance < request.instances)
    BY <1>6, <2>1, <2>2, <2>4, Ends DEF Instantiated
  <2> QED
    BY <2>3, <2>4
<1> QED
  BY <1>1, <1>2, <1>3, <1>4, <1>5, <1>6

\* Opening a table, or a MeasurementSet to link with
LEMMA OpenSteps ==
  ASSUME FactoryInv, OpenOld \/ OpenMS PROVE FactoryInv'
<1>1. request' = request /\ disk' = disk /\ before' = before /\ answer' = answer /\ request \in Requests
  BY DEF OpenOld, OpenMS, FunctorStep, FactoryInv
<1>2. answer # "ok"
  BY DEF OpenOld, OpenMS, FunctorStep, FactoryInv
<1>3. CASE OpenOld
  <2>1. stage' = "apply" /\ request.op = "Open" /\ disk[PathOf(request)].exists
    BY <1>3 DEF OpenOld, FunctorStep, FactoryInv, FunctorInv
  <2>2. Described
    BY <2>1 DEF Described
  <2>3. FunctorInv'
    BY <1>1, <2>1, <2>2, SameDisk DEF FunctorInv
  <2> QED
    BY <1>1, <1>2, <2>3, SameDisk DEF FactoryInv
<1>4. CASE OpenMS
  <2>1. /\ stage' = "subtable" /\ request.op = "DefaultMS" /\ ~ IsMain(request.subtable)
        /\ disk[MainOf(request.name)].exists
    BY <1>4, Steps DEF OpenMS, FunctorStep, FactoryInv, FunctorInv
  <2>2. FunctorInv'
    BY <1>1, <2>1 DEF FunctorInv
  <2> QED
    BY <1>1, <1>2, <2>2, SameDisk DEF FactoryInv
<1> QED
  BY <1>3, <1>4

\* A table that is made, alone or as the first of a MeasurementSet
LEMMA MadeFacts ==
  ASSUME FactoryInv, NEW from, NEW to, NEW desc, Make(from, to, desc),
         PathOf(request)[1] # "", PathOf(request)[2] = "MAIN",
         request.op # "Open", ~ (request.op = "DefaultMS" /\ ~ IsMain(request.subtable))
  PROVE  /\ request' = request /\ before' = before /\ answer' = answer /\ stage' = to
         /\ disk'[PathOf(request)] = NewTable(desc, {})
         /\ DiskInv' /\ TouchesOwn'
<1>1. PICK kept \in {{}, {p[2] : p \in Paths}} :
        FunctorStep(from, to) /\ disk' = MadeAt(PathOf(request)[1], desc, kept)
  BY DEF Make
<1>2. /\ request' = request /\ before' = before /\ answer' = answer /\ stage' = to
      /\ request \in Requests
  BY <1>1 DEF FunctorStep, FactoryInv
<1>3. kept = {} \/ kept = TableNames
  BY PathShape
<1>4. PathOf(request) \in Paths /\ PathOf(request)[1] \in Directories
  BY <1>2, RequestPath
<1>5. DiskInv
  BY DEF FactoryInv
<1>6. DiskInv'
  BY <1>1, <1>3, <1>4, <1>5, DiskMade
<1>7. \A p \in Paths : disk'[p] = IF p[1] # PathOf(request)[1] THEN disk[p]
                                  ELSE IF p[2] = "MAIN" THEN NewTable(desc, {})
                                  ELSE IF p[2] \in kept THEN disk[p] ELSE Absent
  BY <1>1 DEF MadeAt
<1>8. TouchesOwn'
  BY <1>2, <1>7 DEF FactoryInv, TouchesOwn
<1> QED
  BY <1>2, <1>4, <1>6, <1>7, <1>8

\* CreateTable()
LEMMA CreatePlainStep ==
  ASSUME FactoryInv, CreatePlain PROVE FactoryInv'
<1>1. /\ request \in Requests /\ stage = "create" /\ answer # "ok"
      /\ request.op = "CreateTable" /\ request.name # ""
  BY DEF CreatePlain, Make, FunctorStep, FactoryInv, FunctorInv
<1>2. PathOf(request)[1] # "" /\ PathOf(request)[2] = "MAIN"
  BY <1>1, RequestPath
<1>3. /\ request' = request /\ answer' = answer /\ stage' = "apply"
      /\ disk'[PathOf(request)] = NewTable(request.desc, {})
      /\ DiskInv' /\ TouchesOwn'
  BY <1>1, <1>2, MadeFacts DEF CreatePlain
<1>4. Described'
  <2>1. disk'[PathOf(request)].exists /\ disk'[PathOf(request)].desc = request.desc
    BY <1>3, TableFields
  <2> QED
    BY <1>1, <1>3, <2>1 DEF Described
<1>5. FunctorInv'
  BY <1>1, <1>3, <1>4 DEF FunctorInv
<1> QED
  BY <1>1, <1>3, <1>5 DEF FactoryInv

\* DefaultMS() makes the main table
LEMMA CreateMainStep ==
  ASSUME FactoryInv, CreateMain PROVE FactoryInv'
<1>1. /\ request \in Requests /\ stage = "main" /\ answer # "ok"
      /\ request.op = "DefaultMS" /\ IsMain(request.subtable)
  BY DEF CreateMain, Make, FunctorStep, FactoryInv, FunctorInv
<1>2. PathOf(request)[1] # "" /\ PathOf(request)[2] = "MAIN"
  BY <1>1, RequestPath
<1>3. /\ request' = request /\ answer' = answer /\ stage' = "defaults"
      /\ disk'[PathOf(request)] = NewTable(Merge(Required, request.desc), {})
      /\ DiskInv' /\ TouchesOwn'
  BY <1>1, <1>2, MadeFacts DEF CreateMain
<1>4. FunctorInv'
  BY <1>1, <1>3, TableFields DEF FunctorInv
<1> QED
  BY <1>1, <1>3, <1>4 DEF FactoryInv

\* DefaultMS() makes the default subtables, and links them
LEMMA CreateDefaultsStep ==
  ASSUME FactoryInv, CreateDefaults PROVE FactoryInv'
<1> DEFINE name == PathOf(request)[1]
<1>1. /\ request \in Requests /\ stage = "defaults" /\ stage' = "apply"
      /\ request' = request /\ before' = before /\ answer' = answer /\ answer # "ok"
      /\ request.op = "DefaultMS" /\ IsMain(request.subtable)
      /\ disk[PathOf(request)].exists
      /\ disk[PathOf(request)].desc = Merge(Required, request.desc)
  BY DEF CreateDefaults, FunctorStep, FactoryInv, FunctorInv
<1>2. /\ PathOf(request) \in Paths /\ name # "" /\ PathOf(request) = <<name, "MAIN">>
      /\ name \in Directories
  BY <1>1, RequestPath
<1>3. disk' = [p \in Paths |->
                IF p[1] # name THEN disk[p]
                ELSE IF p[2] = "MAIN" THEN NewTable(disk[p].desc, DefaultSubtables)
                ELSE IF p[2] \in DefaultSubtables THEN NewTable(Required, {}) ELSE disk[p]]
  BY DEF CreateDefaults
<1> HIDE DEF name
<1>4. /\ DefaultSubtables \in SUBSET TableNames /\ {} \in SUBSET TableNames
      /\ "MAIN" \notin DefaultSubtables
  BY DEF TableNames, DefaultSubtables
<1>5. DiskInv
  BY DEF FactoryInv
<1>6. DiskInv'
  <2>1. disk' = [p \in Paths |-> disk'[p]]
    BY <1>3
  <2>2. \A p \in Paths : IsTable(disk'[p])
    <3>1. \A p \in Paths : IsTable(disk[p])
      BY <1>5 DEF DiskInv
    <3> QED
      BY <1>3, <1>4, <3>1, TableFields
  <2>3. \A p \in Paths : disk'[p] = disk[p] \/ (disk'[p].exists /\ p[1] # "")
    BY <1>2, <1>3, TableFields
  <2>4. \A p \in Paths : disk'[p] # disk[p] /\ p[2] # "MAIN" => disk'[p].links = {}
    BY <1>3, TableFields
  <2>5. ASSUME NEW p \in Paths, disk'[p] # disk[p], p[2] = "MAIN", NEW s \in disk'[p].links
        PROVE  disk'[<<p[1], s>>].exists
    <3>1. p[1] = name /\ s \in DefaultSubtables
      BY <1>3, <2>5, TableFields
    <3>2. <<name, s>> \in Paths /\ s # "MAIN"
      BY <1>2, <1>4, <3>1, PathShape
    <3>3. disk'[<<name, s>>] = NewTable(Required, {})
      BY <1>3, <3>1, <3>2
    <3> QED
      BY <3>1, <3>3, TableFields
  <2> QED
    BY <1>5, <2>1, <2>2, <2>3, <2>4, <2>5, DiskGrown
<1>7. disk'[PathOf(request)] = NewTable(Merge(Required, request.desc), DefaultSubtables)
  <2>1. PathOf(request)[1] = name /\ PathOf(request)[2] = "MAIN"
    BY <1>1, RequestPath DEF name
  <2> QED
    BY <1>1, <1>2, <1>3, <2>1
<1>8. Described'
  <2>1. /\ disk'[PathOf(request)].exists
        /\ disk'[PathOf(request)].desc = Merge(Required, request.desc)
        /\ disk'[PathOf(request)].links = DefaultSubtables
    BY <1>7, TableFields
  <2>2. PathOf(request) = <<PathOf(request)[1], "MAIN">>
    BY <1>2 DEF name
  <2>3. /\ DOMAIN disk'[PathOf(request)].desc = DOMAIN Required \cup DOMAIN request.desc
        /\ \A x \in DOMAIN request.desc : disk'[PathOf(request)].desc[x] = request.desc[x]
    BY <2>1, Merged
  <2>4. DefaultSubtables \subseteq disk'[<<PathOf(request)[1], "MAIN">>].links
    BY <2>1, <2>2
  <2> QED
    BY <1>1, <2>1, <2>3, <2>4 DEF Described
<1>9. TouchesOwn'
  <2>1. \A p \in Paths : p[1] # name => disk'[p] = disk[p]
    BY <1>3
  <2> QED
    BY <1>1, <2>1 DEF FactoryInv, TouchesOwn, name
<1>10. FunctorInv'
  BY <1>1, <1>8 DEF FunctorInv
<1> QED
  BY <1>1, <1>6, <1>9, <1>10 DEF FactoryInv

\* DefaultMS() of a subtable, once the MeasurementSet is open: it has a name
LEMMA SubtablePaths ==
  ASSUME FactoryInv, stage \in {"subtable", "link"}
  PROVE  /\ request \in Requests /\ answer # "ok"
         /\ request.op = "DefaultMS" /\ ~ IsMain(request.subtable)
         /\ disk[MainOf(request.name)].exists
         /\ request.name # "" /\ request.name \in Directories
         /\ MainOf(request.name) = <<request.name, "MAIN">> /\ MainOf(request.name) \in Paths
         /\ MainOf(request.name)[1] = request.name /\ MainOf(request.name)[2] = "MAIN"
         /\ PathOf(request) \in Paths /\ PathOf(request) # MainOf(request.name)
         /\ PathOf(request)[1] = request.name
         /\ PathOf(request)[2] = Physical(request.subtable) /\ PathOf(request)[2] # "MAIN"
         /\ PathOf(request) = <<request.name, Physical(request.subtable)>>
         /\ Physical(request.subtable) \in TableNames
<1>1. /\ request \in Requests /\ answer # "ok" /\ DiskInv
      /\ request.op = "DefaultMS" /\ ~ IsMain(request.subtable)
      /\ disk[MainOf(request.name)].exists
  BY DEF FactoryInv, FunctorInv
<1>2. /\ MainOf(request.name) = <<request.name, "MAIN">>
      /\ MainOf(request.name)[1] = request.name /\ MainOf(request.name)[2] = "MAIN"
  BY DEF MainOf
<1>3. request.name # ""
  BY <1>1, <1>2, Existing, RequestPath
<1> QED
  BY <1>1, <1>2, <1>3, RequestPath

\* DefaultMS() makes a subtable
LEMMA CreateSubtableStep ==
  ASSUME FactoryInv, CreateSubtable PROVE FactoryInv'
<1> DEFINE new == NewTable(Merge(Required, request.desc), {})
<1>1. stage = "subtable" /\ request' = request /\ before' = before
  BY DEF CreateSubtable
<1>2. CASE Upper(request.subtable) \notin ConstructedTypes
  <2>1. End("refused") /\ disk' = disk
    BY <1>2 DEF CreateSubtable
  <2> QED
    BY <1>1, <2>1, Ends
<1>3. CASE Upper(request.subtable) \in ConstructedTypes
  <2>1. /\ stage' = "link" /\ answer' = answer
        /\ disk' = [disk EXCEPT ![PathOf(request)] = new]
    BY <1>3, Steps DEF CreateSubtable
  <2>2. DiskInv
    BY DEF FactoryInv
  <2>3. /\ request.name # "" /\ PathOf(request) \in Paths /\ PathOf(request)[1] = request.name
        /\ PathOf(request)[2] # "MAIN" /\ MainOf(request.name) \in Paths
        /\ PathOf(request) # MainOf(request.name)
    BY <1>1, SubtablePaths
  <2>4. /\ disk' = [p \in Paths |-> disk'[p]]
        /\ \A p \in Paths : disk'[p] = IF p = PathOf(request) THEN new ELSE disk[p]
    <3> HIDE DEF new
    <3>1. disk = [p \in Paths |-> disk[p]]
      BY <2>2 DEF DiskInv
    <3> QED
      BY <2>1, <2>3, <3>1
  <2>5. new.exists /\ new.links = {} /\ IsTable(new)
    <3>1. {} \in SUBSET TableNames
      OBVIOUS
    <3> QED
      BY <3>1, TableFields
  <2> HIDE DEF new
  <2>6. DiskInv'
    <3>1. \A p \in Paths : IsTable(disk'[p])
      BY <2>2, <2>4, <2>5 DEF DiskInv
    <3>2. \A p \in Paths : disk'[p] = disk[p] \/ (disk'[p].exists /\ p[1] # "")
      BY <2>3, <2>4, <2>5
    <3>3. \A p \in Paths : disk'[p] # disk[p] /\ p[2] # "MAIN" => disk'[p].links = {}
      BY <2>4, <2>5
    <3>4. \A p \in Paths : disk'[p] # disk[p] /\ p[2] = "MAIN" =>
            \A s \in disk'[p].links : disk'[<<p[1], s>>].exists
      BY <2>3, <2>4
    <3> QED
      BY <2>2, <2>4, <3>1, <3>2, <3>3, <3>4, DiskGrown
  <2>7. TouchesOwn'
    <3>1. \A p \in Paths : p # PathOf(request) => disk'[p] = disk[p]
      BY <2>4
    <3>2. request.op = "DefaultMS" /\ ~ IsMain(request.subtable) /\ TouchesOwn
      BY <1>1, SubtablePaths DEF FactoryInv
    <3> QED
      BY <1>1, <3>1, <3>2 DEF TouchesOwn, LinkedOnly
  <2>8. FunctorInv'
    <3>1. /\ request.op = "DefaultMS" /\ ~ IsMain(request.subtable)
          /\ disk[MainOf(request.name)].exists
      BY <1>1, SubtablePaths
    <3>2. disk'[MainOf(request.name)].exists /\ disk'[PathOf(request)] = new
      BY <2>3, <2>4, <3>1
    <3> QED
      BY <1>1, <2>1, <3>1, <3>2 DEF FunctorInv, new
  <2>9. answer # "ok" /\ request \in Requests
    BY <1>1, SubtablePaths
  <2> QED
    BY <1>1, <2>1, <2>6, <2>7, <2>8, <2>9 DEF FactoryInv
<1> QED
  BY <1>2, <1>3

\* DefaultMS() links a subtable to its MeasurementSet
LEMMA LinkStep ==
  ASSUME FactoryInv, Link PROVE FactoryInv'
<1> DEFINE main == MainOf(request.name)
           links == disk[main].links \cup {Physical(request.subtable)}
           new == NewTable(disk[main].desc, links)
<1>1. /\ stage = "link" /\ stage' = "apply"
      /\ request' = request /\ before' = before /\ answer' = answer
      /\ disk' = [disk EXCEPT ![main] = new]
  BY Steps DEF Link, FunctorStep
<1>2. /\ request \in Requests /\ answer # "ok"
      /\ request.op = "DefaultMS" /\ ~ IsMain(request.subtable)
      /\ disk[main].exists
      /\ request.name # "" /\ request.name \in Directories
      /\ main = <<request.name, "MAIN">> /\ main \in Paths
      /\ main[1] = request.name /\ main[2] = "MAIN"
      /\ PathOf(request) \in Paths /\ PathOf(request) # main
      /\ PathOf(request)[1] = request.name
      /\ PathOf(request)[2] = Physical(request.subtable)
      /\ PathOf(request) = <<request.name, Physical(request.subtable)>>
      /\ Physical(request.subtable) \in TableNames
  BY <1>1, SubtablePaths
<1>3. DiskInv /\ TouchesOwn
      /\ disk[PathOf(request)] = NewTable(Merge(Required, request.desc), {})
  BY <1>1 DEF FactoryInv, FunctorInv
<1> HIDE DEF main
<1>4. /\ disk[main].links \subseteq TableNames
      /\ \A s \in disk[main].links : disk[<<request.name, s>>].exists
  BY <1>2, <1>3, Existing
<1>5. /\ new.exists /\ new.links = links /\ new.desc = disk[main].desc /\ IsTable(new)
  <2>1. links \in SUBSET TableNames
    BY <1>2, <1>4
  <2> QED
    BY <2>1, TableFields
<1> HIDE DEF new
<1>6. /\ disk' = [p \in Paths |-> disk'[p]]
      /\ \A p \in Paths : disk'[p] = IF p = main THEN new ELSE disk[p]
  <2>1. disk = [p \in Paths |-> disk[p]]
    BY <1>3 DEF DiskInv
  <2> QED
    BY <1>1, <1>2, <2>1
<1>7. disk'[PathOf(request)] = NewTable(Merge(Required, request.desc), {})
  BY <1>2, <1>3, <1>6
<1>8. DiskInv'
  <2>1. \A p \in Paths : IsTable(disk'[p])
    BY <1>3, <1>5, <1>6 DEF DiskInv
  <2>2. \A p \in Paths : disk'[p] = disk[p] \/ (disk'[p].exists /\ p[1] # "")
    BY <1>2, <1>5, <1>6
  <2>3. \A p \in Paths : disk'[p] # disk[p] /\ p[2] # "MAIN" => disk'[p].links = {}
    BY <1>2, <1>6
  <2>4. ASSUME NEW p \in Paths, disk'[p] # disk[p], p[2] = "MAIN", NEW s \in disk'[p].links
        PROVE  disk'[<<p[1], s>>].exists
    <3>1. p = main /\ s \in links
      BY <1>5, <1>6, <2>4
    <3>2. CASE s = Physical(request.subtable)
      <4>1. <<p[1], s>> = PathOf(request)
        BY <1>2, <3>1, <3>2
      <4>2. disk'[PathOf(request)].exists
        BY <1>7, TableFields
      <4> QED
        BY <4>1, <4>2
    <3>3. CASE s \in disk[main].links
      <4>1. <<request.name, s>> \in Paths /\ disk[<<request.name, s>>].exists
        BY <1>2, <1>4, <3>3, PathShape
      <4>2. disk'[<<request.name, s>>].exists
        BY <1>5, <1>6, <4>1
      <4> QED
        BY <1>2, <3>1, <4>2
    <3> QED
      BY <3>1, <3>2, <3>3
  <2> QED
    BY <1>3, <1>6, <2>1, <2>2, <2>3, <2>4, DiskGrown
<1>9. TouchesOwn'
  <2> SUFFICES ASSUME NEW p \in Paths, p # PathOf(request)
               PROVE  disk'[p] = before[p] \/ LinkedOnly(p)'
    BY <1>1, <1>2 DEF TouchesOwn
  <2>1. disk[p] = before[p] \/ LinkedOnly(p)
    BY <1>2, <1>3 DEF TouchesOwn
  <2>2. CASE p = main
    <3>1. /\ before[p].exists /\ disk[p].desc = before[p].desc
          /\ before[p].links \subseteq disk[p].links
      BY <1>2, <2>1, <2>2 DEF LinkedOnly
    <3>2. disk'[p].exists /\ disk'[p].desc = before[p].desc /\ before[p].links \subseteq disk'[p].links
      BY <1>5, <1>6, <2>2, <3>1
    <3> QED
      BY <1>1, <1>2, <2>2, <3>1, <3>2 DEF LinkedOnly
  <2>3. CASE p # main
    BY <1>1, <1>6, <2>1, <2>3 DEF LinkedOnly
  <2> QED
    BY <2>2, <2>3
<1>10. Described'
  <2>1. disk'[<<PathOf(request)[1], "MAIN">>].links = links
    BY <1>2, <1>5, <1>6
  <2>2. PathOf(request)[2] \in disk'[<<PathOf(request)[1], "MAIN">>].links
    BY <1>2, <2>1
  <2>3. /\ disk'[PathOf(request)].exists
        /\ disk'[PathOf(request)].desc = Merge(Required, request.desc)
    BY <1>7, TableFields
  <2>4. /\ DOMAIN disk'[PathOf(request)].desc = DOMAIN Required \cup DOMAIN request.desc
        /\ \A x \in DOMAIN request.desc : disk'[PathOf(request)].desc[x] = request.desc[x]
    BY <2>3, Merged
  <2> QED
    BY <1>1, <1>2, <2>2, <2>3, <2>4 DEF Described
<1>11. FunctorInv'
  BY <1>1, <1>2, <1>10 DEF FunctorInv
<1> QED
  BY <1>1, <1>2, <1>8, <1>9, <1>11 DEF FactoryInv

-----------------------------------------------------------------------------
(* Theorems *)

\* Nothing is on disk to begin with
LEMMA FactoryStart == FactoryInit => FactoryInv
<1> SUFFICES ASSUME FactoryInit PROVE FactoryInv
  OBVIOUS
<1>1. request \in Requests
  BY RequestsAssumption DEF RequestsAssumption, FactoryInit
<1>2. disk = [p \in Paths |-> Absent] /\ before = disk
  BY DEF FactoryInit
<1>3. DiskInv
  BY <1>2, TableFields DEF DiskInv, LinksResolve
<1>4. TouchesOwn /\ FunctorInv /\ answer = "none"
  BY <1>2 DEF FactoryInit, TouchesOwn, FunctorInv
<1> QED
  BY <1>1, <1>3, <1>4 DEF FactoryInv

\* Whatever a request does, and wherever it breaks off, the disk stays in order
THEOREM FactoryInvariance == FactorySpec => []FactoryInv
<1>1. FactoryInv /\ [FactoryNext]_allVars => FactoryInv'
  BY QuietSteps, OpenSteps, CreatePlainStep, CreateMainStep, CreateDefaultsStep,
     CreateSubtableStep, LinkStep DEF FactoryNext
<1> QED
  BY <1>1, FactoryStart, PTL DEF FactorySpec

\* Every subtable that a MeasurementSet links to exists, wherever DefaultMS() or
\* CreateTable() breaks off: a subtable is made before it is linked
THEOREM LinksAlwaysResolve == FactorySpec => []LinksResolve
<1>1. FactoryInv => LinksResolve
  BY DEF FactoryInv, DiskInv
<1> QED
  BY <1>1, FactoryInvariance, PTL

\* A table that OpenTable(), DefaultMS() or CreateTable() made with success has what the
\* user described and what its type requires, and is linked by its name on disk
THEOREM SuccessIsAsDescribed == FactorySpec => []AsDescribed
<1>1. FactoryInv => AsDescribed
  BY DEF FactoryInv, AsDescribed, Described
<1> QED
  BY <1>1, FactoryInvariance, PTL

\* No request touches a table that isn't its own, but for the link of a subtable, and
\* opening a table touches none
THEOREM OthersAreLeftAlone == FactorySpec => []NothingElseTouched
<1>1. FactoryInv => NothingElseTouched
  BY OwnTables DEF FactoryInv
<1> QED
  BY <1>1, FactoryInvariance, PTL
=============================================================================
