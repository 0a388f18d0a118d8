----------------------------- MODULE MCBootLoad -----------------------------
(* A small instance of BootLoad: the images of MCImageUpdate.              *)
EXTENDS BootLoad

CONSTANTS V1, V2, Bad, BadBoot

MCDamaged == [i \in Images |->
                CASE i = Bad -> {"CR50"} [] i = BadBoot -> {"BOOT"} [] OTHER -> {}]
MCBootVersion == [i \in Images \cup {Erased, Junk} |->
                    CASE i = V1 -> 1 [] i \in {V2, Bad, BadBoot} -> 2 [] OTHER -> 0]
=============================================================================
