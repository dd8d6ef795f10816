------------------------------ MODULE MCMount -------------------------------
(* Every command line of up to five words. *)
EXTENDS Mount

Lines == UNION {[1..n -> {"-t", "-x", "proc", "/proc", "/sys"}] : n \in 0..5}
=============================================================================
