------------------------------ MODULE MCFelBoot ------------------------------
(* Payload directories of both boot modes and an incomplete one; the boot    *)
(* image in two pieces.                                                      *)
EXTENDS FelBoot, TLC

ChronosFiles == {"fes1", "bootimg", "uboot"}
TrampolineFiles == {"fes1", "atags", "kernel", "initrd", "trampoline"}

MCDirs == {ChronosFiles, TrampolineFiles, {"fes1", "bootimg"}}
MCChunks == [a \in Addresses \ {"thunk"} |-> IF a = "bootimg" THEN 2 ELSE 1]
=============================================================================
