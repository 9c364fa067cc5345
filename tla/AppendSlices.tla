---------------------------- MODULE AppendSlices ----------------------------
(***************************************************************************)
(* The checkpoint that a plan builds piece by piece: the AppendSlices op   *)
(* appends a table of tensor slices to a file, with the position where the *)
(* table starts as its footer, and MergeAppendedSlices walks the footers   *)
(* from the end and merges the tables into one checkpoint                  *)
(* (fcp/tensorflow/append_slices_op.cc).                                   *)
(*                                                                         *)
(* A file is a sequence of table entries and footers, one position each;   *)
(* names are numbers, in their order, and the key of the metadata is       *)
(* before all of them.  Both ops hold append_mutex, so each is one step.   *)
(***************************************************************************)
EXTENDS Integers, SequencesExt

CONSTANTS
    MaxName,    \* bound on the names of tensors
    MaxChunks   \* bound on the tables appended

VARIABLES
    file,      \* the file; Absent when there is none
    appended,  \* the slices appended so far, by name, and how often a name was
    merged     \* how the merge ended

appendVars == <<file, appended, merged>>

Names == 1..MaxName
kSavedTensorSlicesKey == 0

\* An entry of a table, the value of the first being the names the table has; and a footer.
Entry(key, value) == [key |-> key, value |-> value]
Footer(start) == [key |-> -1, value |-> start]
Absent == <<Entry(-2, {})>>

\* SaveTensors with TableBuilder: the metadata and then the slices, in the order of their names.
Table(slices) ==
    <<Entry(kSavedTensorSlicesKey, DOMAIN slices)>>
        \o [k \in 1..Cardinality(DOMAIN slices) |->
               LET name == SetToSortSeq(DOMAIN slices, <)[k] IN Entry(name, slices[name])]

\* AppendedFileWithStartPosFooter: the footer is the position at which the file was opened.
AppendedTable(f, slices) == f \o Table(slices) \o <<Footer(Len(f))>>

-----------------------------------------------------------------------------
(* LoadAndMergeAppendedSlices.                                             *)

\* The tables from the one before the footer at position end back to the first.
Chunks(f) ==
    LET before[end \in 0..Len(f)] ==
            IF end = 0 THEN <<>>
            ELSE LET start == f[end].value
                 IN  IF start \in 0..(end - 1) THEN <<SubSeq(f, start + 1, end - 1)>> \o before[start]
                     ELSE <<<<>>>>
    IN  before[Len(f)]

\* TableIteratorComparator, for two tables of which the positions are at i and j: the first goes
\* after the second.
GoesAfter(table1, i, table2, j) ==
    /\ j <= Len(table2)
    /\ \/ i > Len(table1)
       \/ table1[i].key > table2[j].key

\* The entries after the metadata, merged: step n takes the entry of an iterator after which no
\* other goes first.
MergedEntries(tables) ==
    LET total == FoldLeft(LAMBDA sum, t : sum + Len(t) - 1, 0, tables)
        step[n \in 0..total] ==
            IF n = 0 THEN [out |-> <<>>, at |-> [c \in DOMAIN tables |-> 2]]
            ELSE LET s == step[n - 1]
                     top == CHOOSE c \in DOMAIN tables :
                                \A d \in DOMAIN tables : ~GoesAfter(tables[c], s.at[c], tables[d], s.at[d])
                 IN  [out |-> Append(s.out, tables[top][s.at[top]]), at |-> [s.at EXCEPT ![top] = @ + 1]]
    IN  step[total].out

\* The file is deleted once it is open, and written anew when the tables are known to be tables
\* and to have no name in common.
LoadAndMergeAppendedSlices(f) ==
    LET tables == Chunks(f)
        NamesOf(c) == tables[c][1].value
    IN  CASE f = Absent -> [status |-> "NOT_FOUND", file |-> Absent]
          [] f = <<>> -> [status |-> "OK", file |-> <<>>]
          [] \E c \in DOMAIN tables : tables[c] = <<>> \/ tables[c][1].key # kSavedTensorSlicesKey ->
                 [status |-> "INTERNAL", file |-> Absent]
          [] \E c, d \in DOMAIN tables : c < d /\ NamesOf(c) \cap NamesOf(d) # {} ->
                 [status |-> "INVALID_ARGUMENT", file |-> Absent]
          [] OTHER ->
                 [status |-> "OK",
                  file |-> <<Entry(kSavedTensorSlicesKey, UNION {NamesOf(c) : c \in DOMAIN tables})>>
                               \o MergedEntries(tables)]

-----------------------------------------------------------------------------
\* AppendSlicesOp::Compute for slices with these names, each with a value of its own.  The file, if
\* there is one, is moved to where the writer writes and back; it is lost when the writer fails.
AppendSlicesCompute(names) ==
    LET slices == [n \in names |-> <<appended.count + 1, n>>]
    IN  /\ merged = "no" /\ appended.count < MaxChunks
        /\ file' = AppendedTable(IF file = Absent THEN <<>> ELSE file, slices)
        /\ appended' = [count |-> appended.count + 1,
                        slices |-> [n \in DOMAIN appended.slices \cup names |->
                                       IF n \in names THEN slices[n] ELSE appended.slices[n]],
                        twice |-> appended.twice \/ names \cap DOMAIN appended.slices # {}]
        /\ UNCHANGED merged

AppendFails ==
    /\ merged = "no" /\ appended.count \in 1..(MaxChunks - 1)
    /\ file' = Absent
    /\ appended' = [count |-> appended.count + 1, slices |-> <<>>, twice |-> FALSE]
    /\ UNCHANGED merged

\* MergeAppendedSlicesOp::Compute.
MergeAppendedSlicesCompute ==
    /\ merged = "no"
    /\ file' = LoadAndMergeAppendedSlices(file).file
    /\ merged' = LoadAndMergeAppendedSlices(file).status
    /\ UNCHANGED appended

AppendInit ==
    /\ file = Absent
    /\ appended = [count |-> 0, slices |-> <<>>, twice |-> FALSE]
    /\ merged = "no"

AppendNext ==
    \/ \E names \in SUBSET Names : AppendSlicesCompute(names)
    \/ AppendFails
    \/ MergeAppendedSlicesCompute

AppendSpec == AppendInit /\ [][AppendNext]_appendVars

-----------------------------------------------------------------------------
(* Properties.                                                             *)

\* However the slices were spread over the calls, the merge finds every table by its footer and
\* writes what one call with all the slices would have written; it fails only if a name was
\* appended twice, or if there is no file.
MergedIsOneTable ==
    merged # "no" =>
        IF file = Absent THEN (merged = "INVALID_ARGUMENT" /\ appended.twice)
                              \/ (merged = "NOT_FOUND" /\ DOMAIN appended.slices = {})
        ELSE merged = "OK" /\ ~appended.twice /\ file = Table(appended.slices)
=============================================================================
