--------------------------- MODULE MCImageUpdate ---------------------------
(* The images of a small instance of ImageUpdate: the one delivered, whose *)
(* version is too old to be checked; a new one with a new boot version;    *)
(* one like it with a damaged CR50 module; one with a damaged BOOT module. *)
EXTENDS ImageUpdate

CONSTANTS V1, V2, Bad, BadBoot

MCDamaged == [i \in Images |->
                CASE i = Bad -> {"CR50"} [] i = BadBoot -> {"BOOT"} [] OTHER -> {}]
MCBootVersion == [i \in Images \cup {Erased, Junk} |->
                    CASE i = V1 -> 1 [] i \in {V2, Bad, BadBoot} -> 2 [] OTHER -> 0]
=============================================================================
