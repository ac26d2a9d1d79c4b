-------------------------------- MODULE MCBoot --------------------------------
(* What the initramfs may hold, for TLC: nothing, the /dev of every archive of *)
(* the kernel, and one directory more than Mkdir can do with.                 *)
EXTENDS Boot
MCImages == {{}, {"/dev"}, {"/dev", "/sys"}}
=============================================================================
