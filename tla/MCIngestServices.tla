-------------------------- MODULE MCIngestServices --------------------------
(***************************************************************************)
(* One request at a time polls a row that is judged differently in each    *)
(* behaviour (a plain row, of staging by its hash and of production by the *)
(* configuration; a platform gateway on redis-live or on redis-ib alone;   *)
(* the engine, of no stack) while its workload, its heartbeat and its      *)
(* lease change; a hash is old for a tick before it is gone.               *)
(* Overlapping requests are the business of the theorems.                  *)
(***************************************************************************)
EXTENDS IngestServices

CONSTANTS r1

OneRequest == {r1}

Row(kind, stack, profile) ==
    [engine |-> kind = "engine", gateway |-> kind \in {"gateway", "split"},
     split |-> kind = "split", stack |-> stack, profile |-> profile]

PlainRow == {Row("plain", "prod", "prod")}
AllRows ==
    {Row("plain", "stg", "prod"), Row("gateway", "", "prod"), Row("split", "", "prod"),
     Row("engine", "", "")}

=============================================================================
