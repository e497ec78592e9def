------------------------------ MODULE History ------------------------------
(***************************************************************************)
(* The execution history (history.json): one list, newest first, which     *)
(* every execution that ends reads, extends and writes back.  No lock      *)
(* spans the read and the write (server.py:34395, 6288, 41570).  A         *)
(* recorder is an execution: a firing of a schedule or a run of a pipeline.*)
(***************************************************************************)
EXTENDS Integers, Sequences

CONSTANTS Recorders,    \* the executions that write to the history
          MaxHistory    \* how many entries are kept (1000)

ASSUME HistoryAssumption == MaxHistory \in Nat \ {0}

VARIABLES history,      \* the stored list, an execution standing for its entry
          reading,      \* reading[x]: the list x has read and not yet written back
          excused       \* entries that may be missing: cleared, pushed out by
                        \* newer ones, or written while another execution was
                        \* between its read and its write
historyVars == <<history, reading, excused>>

NotReading == <<"not reading">>
Readers == {x \in Recorders : reading[x] # NotReading}
EntriesOf(list) == {list[i] : i \in DOMAIN list}

\* What a recorder writes: its own entry before the list it has read, cut to size.
Extended(x, list) == SubSeq(<<x>> \o list, 1, IF Len(list) < MaxHistory THEN Len(list) + 1
                                                                      ELSE MaxHistory)

HistoryInit ==
  /\ history = <<>>
  /\ reading = [x \in Recorders |-> NotReading]
  /\ excused = {}

ReadHistory(x) ==
  /\ reading[x] = NotReading
  /\ reading' = [reading EXCEPT ![x] = history]
  /\ UNCHANGED <<history, excused>>

WriteHistory(x) ==
  /\ reading[x] # NotReading
  /\ history' = Extended(x, reading[x])
  /\ reading' = [reading EXCEPT ![x] = NotReading]
  /\ excused' = excused \cup (EntriesOf(reading[x]) \ EntriesOf(history'))
                        \cup (IF Readers # {x} THEN {x} ELSE {})

\* DELETE /api/executions: the list is replaced by an empty one, read by nobody.
ClearHistory ==
  /\ history # <<>>
  /\ history' = <<>>
  /\ excused' = excused \cup EntriesOf(history)
  /\ UNCHANGED reading

\* What a restart of the server leaves of the recordings under way: nothing.
HistoryRestart ==
  /\ reading' = [x \in Recorders |-> NotReading]
  /\ UNCHANGED <<history, excused>>

HistoryTypeOK ==
  /\ history \in Seq(Recorders) /\ Len(history) <= MaxHistory
  /\ \A x \in Readers : reading[x] \in Seq(Recorders) /\ Len(reading[x]) <= MaxHistory
  /\ excused \subseteq Recorders
=============================================================================
