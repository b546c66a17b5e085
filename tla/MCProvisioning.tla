--------------------------- MODULE MCProvisioning ---------------------------
(***************************************************************************)
(* An instance of Provisioning for TLC: qemu under apt on an amd64 host,   *)
(* whose two packages have one of its two binaries each.                   *)
(***************************************************************************)
EXTENDS Provisioning

QemuPackages == [d \in Required |-> Packages]

(* History that no property asks for any more is not part of the state:    *)
(* whose an image is and why, once the records are astray, whether a shim  *)
(* that is gone was late, and which packages kairos-lab put there.         *)
View ==
  <<host, file, pc, mem, locals, users \cap HostPackages, adopted, shim = "foreign" /\ late,
    IF astray = "no" THEN <<users \cap Images, ours \cap Images>> ELSE <<>> >>
=============================================================================
