------------------------------ MODULE TableFactory ------------------------------
(***************************************************************************)
(* Opening and creating tables (OpenTable(), DefaultMS() and CreateTable()), *)
(* one request after the other.  The arguments are checked, then a functor *)
(* runs for each instance in turn, on its thread; it ends by capping the   *)
(* caches (CacheSizes).  casacore may throw wherever it is called: the     *)
(* request then fails and what was done stays.                             *)
(*                                                                         *)
(* A description maps columns, hypercolumns and keywords to what they are. *)
(* A table is at <<name, physical subtable>>; a MeasurementSet has links   *)
(* to subtables.                                                           *)
(***************************************************************************)
EXTENDS CacheSizes, FiniteSets, Sequences

CONSTANTS
  Names,           \* of tables, "" included
  Requests,        \* see the variable "request"
  SizedRequests,   \* those that come with all kinds of cache sizes, others with none
  MaxRequests

\* Something may be opened
ASSUME RequestsAssumption ==
  /\ \A r \in Requests : r.op \in {"Open", "DefaultMS", "CreateTable"} /\ r.name \in Names
  /\ \E r \in Requests : r.op = "Open"

VARIABLES
  request,    \* op; name; subtable; desc, the user's description; instances;
              \* valid, do the JSON arguments make sense?
  stage,      \* idle, or what is done next
  instance,   \* the loop index of Make()
  disk,       \* the table at each path
  before,     \* the disk when the request was made
  answer,     \* of the request: none, ok, failed, or refused for its arguments
  requests    \* how many were made

factoryVars == <<request, stage, instance, disk, before, answer, requests>>
allVars == <<vars, factoryVars>>

-----------------------------------------------------------------------------
(* Descriptions *)

\* Of MSTableDescriptor(): the types of table it knows, in upper case
DescribedTypes ==
  {"", "MAIN", "ANTENNA", "DATA_DESCRIPTION", "DOPPLER", "FEED", "FIELD", "FLAG_CMD",
   "FREQ_OFFSET", "HISTORY", "OBSERVATION", "MSV3_PHASED_ARRAY", "POINTING", "POLARIZATION",
   "PROCESSOR", "SOURCE", "SPECTRAL_WINDOW", "STATE", "SYSCAL", "WEATHER"}

\* Of DefaultMS(): those it constructs
ConstructedTypes ==
  {"ANTENNA", "DATA_DESCRIPTION", "DOPPLER", "FEED", "FIELD", "FLAG_CMD", "FREQ_OFFSET",
   "HISTORY", "OBSERVATION", "MSV3_PHASED_ARRAY", "POINTING", "POLARIZATION", "PROCESSOR",
   "SOURCE", "SPECTRAL_WINDOW", "STATE", "SYSCAL", "WEATHER"}

\* External: what a type of table requires, and the subtables of a MeasurementSet that
\* createDefaultSubtables() makes
Required == [x \in {"TIME"} |-> "required"]
DefaultSubtables == {"ANTENNA"}

\* What is required stands
RequiredStands(required, user) ==
  [x \in DOMAIN required \cup DOMAIN user |-> IF x \in DOMAIN required THEN required[x] ELSE user[x]]

\* MergeRequiredAndUserTableDescs(): the user's columns, hypercolumns and keywords
\* replace those required
Merge(required, user) ==
  [x \in DOMAIN required \cup DOMAIN user |-> IF x \in DOMAIN user THEN user[x] ELSE required[x]]

-----------------------------------------------------------------------------
(* Names *)

\* std::toupper(), of the one name given in lower case
Upper(subtable) == IF subtable = "weather" THEN "WEATHER" ELSE subtable

Physical(subtable) ==
  IF Upper(subtable) = "MSV3_PHASED_ARRAY" THEN "PHASED_ARRAY" ELSE Upper(subtable)

IsMain(subtable) == Upper(subtable) \in {"", "MAIN"}

\* Whatever the name is
DefaultName(name) == "measurementset.ms"
MSName(name) == IF name = "" THEN "measurementset.ms" ELSE name

MainOf(name) == <<name, "MAIN">>

\* The table a request opens or creates.  With an empty subtable the name ends in a
\* slash, which is the same directory
PathOf(r) ==
  IF r.op # "DefaultMS" THEN MainOf(r.name)
  ELSE IF IsMain(r.subtable) THEN MainOf(MSName(r.name))
  ELSE <<MSName(r.name), Physical(r.subtable)>>

Paths == (Names \cup {"measurementset.ms"})
           \X ({"MAIN"} \cup DefaultSubtables \cup {Physical(r.subtable) : r \in Requests})

Absent == [exists |-> FALSE]
NewTable(desc, links) == [exists |-> TRUE, desc |-> desc, links |-> links]

-----------------------------------------------------------------------------
FactoryInit ==
  /\ Init
  /\ request = CHOOSE r \in Requests : r.op = "Open"
  /\ stage = "idle" /\ instance = 0 /\ answer = "none" /\ requests = 0
  /\ disk = [p \in Paths |-> Absent] /\ before = disk

Sized == spec.default # Unspecified
         \/ \E m \in DOMAIN spec.sm : spec.sm[m] # Unspecified
         \/ \E c \in DOMAIN spec.col : spec.col[c] # Unspecified

Request(r) ==
  /\ stage = "idle" /\ requests < MaxRequests
  /\ r \in SizedRequests \/ ~ Sized
  /\ request' = r /\ requests' = requests + 1
  /\ before' = disk /\ answer' = "none"
  /\ stage' = "check" /\ instance' = 0
  /\ UNCHANGED <<vars, disk>>

\* The request ends
End(result) == answer' = result /\ stage' = "idle"

\* Found out before any table is touched.  A description that CreateTable() can't
\* parse is found out by the functor, before it creates anything
ArgumentsRefused ==
  \/ ~ request.valid
  \/ request.instances < 1
  \/ request.op = "CreateTable" /\ request.name = ""
  \/ request.op = "DefaultMS" /\ Upper(request.subtable) \notin DescribedTypes

\* The first step of a functor
FirstStage ==
  CASE request.op = "Open" -> "open"
    [] request.op = "CreateTable" -> "create"
    [] request.op = "DefaultMS" /\ IsMain(request.subtable) -> "main"
    [] OTHER -> "ms"

\* The caches of a table just opened are as casacore leaves them
FreshCaches == pass' = 0 /\ todo' = {} /\ cap' = [m \in Managers |-> Unbounded]

Check ==
  /\ stage = "check"
  /\ IF ArgumentsRefused THEN End("refused") /\ UNCHANGED <<instance, pass, todo, cap>>
     ELSE /\ stage' = FirstStage /\ instance' = 1 /\ UNCHANGED answer
          /\ FreshCaches
  /\ UNCHANGED <<managerOf, spec, request, disk, before, requests>>

-----------------------------------------------------------------------------
(* The functors *)

\* What follows once the MeasurementSet is open
LinkedFirst == <<"link", "subtable", "apply">>
SubtableSteps == <<"subtable", "link", "apply">>
StepAfter(s) == SubtableSteps[CHOOSE i \in 2..3 : SubtableSteps[i - 1] = s]

\* One step of the functor of this instance

FunctorStep(from, to) ==
  /\ stage = from /\ stage' = to
  /\ UNCHANGED <<vars, request, instance, before, answer, requests>>

OpenOld ==
  /\ FunctorStep("open", "apply")
  /\ disk[PathOf(request)].exists
  /\ UNCHANGED disk

\* A table made in the place of whatever is at a name.  External: the old subtables
\* may remain in its directory or not
MadeAt(name, desc, kept) ==
  [p \in Paths |->
     IF p[1] # name THEN disk[p]
     ELSE IF p[2] = "MAIN" THEN NewTable(desc, {})
     ELSE IF p[2] \in kept THEN disk[p] ELSE Absent]

Make(from, to, desc) ==
  \E name \in {PathOf(request)[1]}, kept \in {{}, {p[2] : p \in Paths}} :
    FunctorStep(from, to) /\ disk' = MadeAt(name, desc, kept)

CreatePlain == Make("create", "apply", request.desc)
CreateMain == Make("main", "defaults", Merge(Required, request.desc))

\* createDefaultSubtables()
CreateDefaults ==
  /\ FunctorStep("defaults", "apply")
  /\ LET name == PathOf(request)[1] IN
     disk' = [p \in Paths |->
                IF p[1] # name THEN disk[p]
                ELSE IF p[2] = "MAIN" THEN NewTable(disk[p].desc, DefaultSubtables)
                ELSE IF p[2] \in DefaultSubtables THEN NewTable(Required, {}) ELSE disk[p]]

\* The MeasurementSet to link with, by the name that was given, even if that is empty
OpenMS ==
  /\ FunctorStep("ms", SubtableSteps[1])
  /\ disk[MainOf(request.name)].exists
  /\ UNCHANGED disk

\* The constructor of the type
CreateSubtable ==
  /\ stage = "subtable"
  /\ IF Upper(request.subtable) \in ConstructedTypes
     THEN /\ stage' = StepAfter("subtable") /\ UNCHANGED answer
          /\ disk' = [disk EXCEPT ![PathOf(request)] =
                        NewTable(Merge(Required, request.desc), {})]
     ELSE End("refused") /\ UNCHANGED disk
  /\ UNCHANGED <<vars, request, instance, before, requests>>

Link ==
  /\ FunctorStep("link", StepAfter("link"))
  /\ disk' = [disk EXCEPT ![MainOf(request.name)] =
                NewTable(@.desc, @.links \cup {Physical(request.subtable)})]

Throw ==
  /\ stage \in {"open", "create", "main", "defaults", "ms", "subtable", "link"}
  /\ End("failed")
  /\ UNCHANGED <<vars, request, instance, disk, before, requests>>

\* ApplyCacheSizes()
Apply == stage = "apply" /\ Next /\ UNCHANGED factoryVars

SizesRefused ==
  /\ stage = "apply" /\ pass = 4
  /\ End("failed")
  /\ UNCHANGED <<vars, request, instance, disk, before, requests>>

\* The loop of Make() over the instances
Instantiated ==
  /\ stage = "apply" /\ pass = 3 /\ todo = {}
  /\ IF instance < request.instances
     THEN /\ instance' = instance + 1 /\ stage' = FirstStage /\ UNCHANGED answer
          /\ FreshCaches
     ELSE End("ok") /\ UNCHANGED <<instance, pass, todo, cap>>
  /\ UNCHANGED <<managerOf, spec, request, disk, before, requests>>

FactoryNext ==
  \/ \E r \in Requests : Request(r)
  \/ Check \/ OpenOld \/ CreatePlain \/ CreateMain \/ CreateDefaults
  \/ OpenMS \/ CreateSubtable \/ Link
  \/ Throw \/ Apply \/ SizesRefused \/ Instantiated

FactorySpec == FactoryInit /\ [][FactoryNext]_allVars

-----------------------------------------------------------------------------
\* Every subtable that a MeasurementSet links to exists, wherever a request to make
\* one, or to make the MeasurementSet again, breaks off
LinksResolve ==
  \A p \in Paths : disk[p].exists => \A s \in disk[p].links : disk[<<p[1], s>>].exists

\* A table that was opened or created with success has what the user described and
\* nothing else but what its type requires; a subtable is linked to its MeasurementSet
\* by its name on disk, and a MeasurementSet to its default subtables
AsDescribed ==
  answer = "ok" =>
    LET made == disk[PathOf(request)]
        main == disk[<<PathOf(request)[1], "MAIN">>]
        required == IF request.op = "DefaultMS" THEN DOMAIN Required ELSE {}
    IN  /\ made.exists
        /\ request.op # "Open" =>
             /\ DOMAIN made.desc = required \cup DOMAIN request.desc
             /\ \A x \in DOMAIN request.desc : made.desc[x] = request.desc[x]
        /\ request.op = "DefaultMS" =>
             IF IsMain(request.subtable) THEN DefaultSubtables \subseteq main.links
             ELSE PathOf(request)[2] \in main.links

\* A request leaves every table alone but its own: other MeasurementSets, and when it
\* makes a subtable the other subtables and, except for the link, the MeasurementSet.
\* Opening a table changes none
NothingElseTouched ==
  LET name == IF request.op = "DefaultMS" /\ request.name = ""
              THEN "measurementset.ms" ELSE request.name
      own == IF request.op = "DefaultMS" /\ Upper(request.subtable) \notin {"", "MAIN"}
             THEN {<<name, Physical(request.subtable)>>} ELSE {name} \X {p[2] : p \in Paths}
      Kept(p) == \/ disk[p] = before[p]
                 \/ /\ own # {name} \X {q[2] : q \in Paths} /\ p = <<name, "MAIN">>
                    /\ before[p].exists /\ disk[p].exists
                    /\ disk[p].desc = before[p].desc
                    /\ before[p].links \subseteq disk[p].links
  IN  /\ \A p \in Paths \ own : Kept(p)
      /\ request.op = "Open" => disk = before
=============================================================================
