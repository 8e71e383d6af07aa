------------------------------ MODULE MCRecords ------------------------------
(* The records while they are written (ExecutionStore) and while they are   *)
(* read (RecordQuery).  The two share no state: a behaviour is one of       *)
(* theirs, chosen in its first state.                                       *)
EXTENDS ExecutionStore, RecordQuery, TLC

VARIABLE part

allRecordVars == <<vars, queryVars, part>>

RecordsInit == part \in {"store", "query"} /\ Init /\ QueryInit

RecordsNext ==
  /\ part' = part
  /\ \/ part = "store" /\ Next /\ UNCHANGED queryVars
     \/ part = "query" /\ QueryNext /\ UNCHANGED vars

WriterTurn == part = "store" /\ Writer /\ UNCHANGED <<queryVars, part>>

RecordsSpec == RecordsInit /\ [][RecordsNext]_allRecordVars /\ WF_allRecordVars(WriterTurn)
=============================================================================
