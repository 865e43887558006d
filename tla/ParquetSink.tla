---------------------------- MODULE ParquetSink ----------------------------
(***************************************************************************)
(* The Parquet sink of a session: a buffer of rows that is written in row  *)
(* groups, and a footer that makes the file readable.  Any write may fail. *)
(* A sink is a value, so that the serial task's steps can open, feed and   *)
(* drop it inside one step, as the code does.                              *)
(***************************************************************************)
EXTENDS Naturals, Sequences, FiniteSets

CONSTANTS
    RowGroup,     \* ROW_GROUP_SIZE: a buffer of this many rows is written
    MaxSessions,  \* bound: dump files; session n records to file n
    MaxFails      \* bound: steps during which writes to disk fail

ASSUME SinkAssumption ==
    RowGroup \in Nat \ {0} /\ MaxSessions \in Nat \ {0} /\ MaxFails \in Nat

VARIABLES
    sink,   \* the open ParquetSink; path 0 stands for None
    disk,   \* the files: what a reader of the file gets, and whether it is one
    fails   \* steps during which the disk failed

dumpVars == <<sink, disk, fails>>

Files == 1..MaxSessions

\* pushed is history: every row handed to the sink, in order.
NoSink    == [path |-> 0, buffer |-> <<>>, written |-> <<>>, pushed |-> <<>>]
Opened(p) == [NoSink EXCEPT !.path = p]
Blank     == [rows |-> <<>>, pushed |-> <<>>, footer |-> FALSE]

\* ok says whether the disk takes what is written during the step.
Disk(ok) == /\ ok \/ fails < MaxFails
            /\ fails' = IF ok THEN fails ELSE fails + 1

\* Mutant: a failed flush loses its rows.
FlushClears(s, ok) ==
    [s EXCEPT !.written = IF ok THEN @ \o s.buffer ELSE @, !.buffer = <<>>]

\* An empty buffer writes nothing, a failed write keeps the buffer.
Flush(s, ok) ==
    IF ok THEN [s EXCEPT !.written = @ \o s.buffer, !.buffer = <<>>] ELSE s

Push(s, row, ok) ==
    LET fed == [s EXCEPT !.buffer = Append(@, row), !.pushed = Append(@, row)]
    IN  IF Len(fed.buffer) >= RowGroup THEN Flush(fed, ok) ELSE fed

\* Mutant: the footer is written although the flush failed.
FinishAlways(s, ok) ==
    [rows |-> Flush(s, ok).written, pushed |-> s.pushed, footer |-> TRUE]

\* finish, called by Drop: a flush that fails returns before the footer.
Finish(s, ok) ==
    [rows |-> Flush(s, ok).written, pushed |-> s.pushed, footer |-> ok]

=============================================================================
