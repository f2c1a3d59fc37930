------------------------------- MODULE MCSync -------------------------------
(* SyncChild with one setting of the child that may be empty, a switch of  *)
(* the child and the selector's own two.                                   *)
EXTENDS SyncChild

SmallDefault == [x \in {"sandbox.disabled", "worker.size", "scan.find.path", "rsync.enabled"} |->
                   CASE x = "worker.size" -> "5" [] x = "scan.find.path" -> "find"
                     [] OTHER -> "false"]
SmallValues == [x \in DOMAIN SmallDefault |->
                  CASE x = "worker.size" -> {"2"} [] x = "scan.find.path" -> {"", "find", "fd"}
                    [] OTHER -> {"true", "false"}]
=============================================================================
