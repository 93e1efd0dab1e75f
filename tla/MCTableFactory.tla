---------------------------- MODULE MCTableFactory ----------------------------
(***************************************************************************)
(* Requests for TLC.  Subtables of every kind are asked of one             *)
(* MeasurementSet, which another request may make again; all kinds of      *)
(* cache sizes come with a plain table of two instances.                   *)
(***************************************************************************)
EXTENDS TableFactory

NoDesc == [x \in {} |-> "user"]
UserDesc == [x \in {"TIME", "DATA"} |-> "user"]

Ask(op, name, subtable, desc, instances) ==
  [op |-> op, name |-> name, subtable |-> subtable, desc |-> desc,
   instances |-> instances, valid |-> TRUE]

MCNames == {"ms", ""}

PlainTable == Ask("CreateTable", "ms", "", UserDesc, 2)

MCSized == {PlainTable}

MCRequests ==
  {Ask("Open", "ms", "", NoDesc, 2), PlainTable,
   Ask("CreateTable", "", "", NoDesc, 1), Ask("Open", "ms", "", NoDesc, 0),
   [PlainTable EXCEPT !.valid = FALSE]}
  \cup {Ask("DefaultMS", n, s, UserDesc, 1) :
          n \in MCNames,
          s \in {"", "MAIN", "weather", "ANTENNA", "MSV3_PHASED_ARRAY", "PHASED_ARRAY", "NOSUCH"}}
=============================================================================
