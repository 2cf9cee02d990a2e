---------------------------- MODULE MCRestatement ---------------------------
(* Instances of Restatement for TLC: what each run allows to happen.       *)
EXTENDS Restatement

Allow(edit, ask, close, reopen, crash, recompute, resync) ==
    [k \in Causes |-> CASE k = "edit"      -> edit
                        [] k = "ask"       -> ask
                        [] k = "close"     -> close
                        [] k = "reopen"    -> reopen
                        [] k = "crash"     -> crash
                        [] k = "recompute" -> recompute
                        [] k = "resync"    -> resync]

(* Everything once but a reopening; that with a crash; and two concurrent  *)
(* requests, while months close or the process dies.                       *)
Alternatives == {Allow(1, 1, 1, 0, 1, 1, 1), Allow(1, 1, 1, 1, 1, 0, 0),
                 Allow(1, 2, 1, 0, 0, 0, 0), Allow(1, 2, 0, 0, 1, 0, 0)}
Crashes      == {Allow(1, 1, 0, 0, 1, 0, 0)}
=============================================================================
