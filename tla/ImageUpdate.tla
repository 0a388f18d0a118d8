----------------------------- MODULE ImageUpdate -----------------------------
(***************************************************************************)
(* Firmware update (CA53_BOOT/boot_load/load_img.c): the shell command     *)
(* that checks the file "0:image" and writes its header and its six        *)
(* modules to fixed places of the eMMC, programming the boot flash on the  *)
(* way, and the one that writes a single module.  The command runs in the  *)
(* boot loader's shell, where nothing else happens meanwhile, or in the    *)
(* application's, where the FTP server may replace the file at any time.   *)
(* Power may fail at any moment, writes and the flash may fail.            *)
(*                                                                         *)
(* Data is known by the image it came from.  emmc_write writes in chunks   *)
(* of EMMC_BLOCK_LEN blocks; a module is its first chunk, which holds the  *)
(* module's header, and the rest.                                          *)
(***************************************************************************)
EXTENDS Integers, Sequences

CONSTANTS Images,        (* versions of the firmware                       *)
          Factory,       (* the image the machine was delivered with       *)
          Junk, NoFile, Erased,
          Checked,       (* images new enough to be checked by CRC         *)
          Damaged,       (* for an image, its modules whose CRC is wrong;  *)
                         (* "header" when its header is not valid          *)
          BootVersion,   (* for an image, bootbin_version                  *)
          Single,        (* the modules that are also written singly       *)
          MaxUploads, MaxFaults, MaxCuts    (* bounds                      *)

ASSUME ImagesAssumption == /\ Factory \in Images /\ Checked \subseteq Images
                           /\ Single \subseteq
                                {"BOOT", "CA53", "CR50", "CR51", "BIT28", "UE"}
                           /\ Junk \notin Images /\ NoFile \notin Images
                           /\ Erased \notin Images /\ Junk # Erased

(* module_configs, in its order.                                           *)
Modules == <<"BOOT", "CA53", "CR50", "CR51", "BIT28", "UE">>
ModuleSet == {"BOOT", "CA53", "CR50", "CR51", "BIT28", "UE"}

VARIABLES header, part,        (* eMMC: image header; two chunks a module  *)
          qspi,                (* boot flash: the image its BOOT is from   *)
          file,                (* "0:image"                                *)
          pc, where,           (* the command's step; whose shell runs it  *)
          hdr, k, chunk, buf,  (* its locals: header, loop, TEMP_ADDR      *)
          upboot,              (* upboot_flag                              *)
          result,              (* what the last command printed            *)
          uploads, faults, cuts,
          raced, single, gap,  (* history: the file changed under a        *)
                               (* command; a single module was written; a  *)
                               (* command was interrupted where it hurts;  *)
          unjudged             (* the images whose BOOT an unchecked BOOT  *)
                               (* on the eMMC has let through              *)

store  == <<header, part, qspi>>
locals == <<hdr, k, chunk, buf, upboot>>
counts == <<uploads, faults, cuts>>
past   == <<raced, single, gap, unjudged>>
vars   == <<store, file, pc, where, locals, result, counts, past>>

Module == Modules[k]

Init ==
  /\ header = Factory /\ qspi = Factory
  /\ part = [m \in ModuleSet |-> [c \in 1 .. 2 |-> Factory]]
  /\ file = NoFile
  /\ pc = "idle" /\ where = "loader"
  /\ hdr = NoFile /\ k = 1 /\ chunk = 1 /\ buf = Junk /\ upboot = FALSE
  /\ result = "none"
  /\ uploads = 0 /\ faults = 0 /\ cuts = 0
  /\ raced = FALSE /\ single = FALSE /\ gap = FALSE /\ unjudged = {}

(* The command returns; what its variables held no longer matters.         *)
Return(res) ==
  /\ pc' = "idle" /\ result' = res /\ where' = "loader"
  /\ hdr' = NoFile /\ k' = 1 /\ chunk' = 1 /\ buf' = Junk /\ upboot' = FALSE

Fail == Return("fail")

(* Mutant: the version test is the wrong way round.                        *)
PassesCrcOld(i, m, v) == v \notin Checked => m \notin Damaged[i]

(* The CRC of the body of module m of image i is only computed if the      *)
(* version at hand, that of image v, is newer than a fixed one.            *)
PassesCrc(i, m, v) == v \in Checked => m \notin Damaged[i]

(* The version at hand when a module of the file is judged: its own; but   *)
(* for BOOT it is read through a pointer into boot_header, into which the  *)
(* header of the BOOT module on the eMMC has been read meanwhile.          *)
VersionAtHand(m) == IF m = "BOOT" THEN part["BOOT"][1] ELSE file

FilePasses(m) == PassesCrc(file, m, VersionAtHand(m))

-----------------------------------------------------------------------------
(* FTP puts a file in place: between commands, or while the application's  *)
(* shell runs one.                                                         *)
Upload(i) ==
  /\ uploads < MaxUploads
  /\ pc = "idle" \/ where = "app"
  /\ file' = i
  /\ uploads' = uploads + 1
  /\ raced' = (raced \/ pc # "idle")
  /\ UNCHANGED <<store, pc, where, locals, result, faults, cuts, single, gap, unjudged>>

(* emmc_update_image: the file's header.                                   *)
StartUpdate(shell) ==
  /\ pc = "idle" /\ file # NoFile
  /\ IF "header" \in Damaged[file]
     THEN Fail
     ELSE /\ pc' = "verify" /\ where' = shell /\ result' = "none"
          /\ hdr' = file /\ k' = 1 /\ upboot' = FALSE
          /\ UNCHANGED <<chunk, buf>>
  /\ UNCHANGED <<store, file, counts, past>>

(* On to the next module of the five; a BOOT that goes through unjudged.   *)
NextVerified ==
  /\ IF k < Len(Modules) - 1
     THEN k' = k + 1 /\ UNCHANGED pc
     ELSE pc' = "header" /\ k' = 1
  /\ unjudged' = IF Module = "BOOT" /\ VersionAtHand("BOOT") \notin Checked
                 THEN unjudged \cup {file} ELSE unjudged
  /\ UNCHANGED <<where, hdr, chunk, buf, result>>

NewBoot == BootVersion[file] # BootVersion[part["BOOT"][1]]

(* Mutant: the flag is cleared by the modules after BOOT.                  *)
VerifyClearsFlag ==
  /\ pc = "verify" /\ FilePasses(Module)
  /\ upboot' = (Module = "BOOT" /\ NewBoot)
  /\ NextVerified
  /\ UNCHANGED <<store, file, counts, raced, single, gap>>

(* Mutant: a BOOT module of the same version ends the update.              *)
VerifyRefusesSame ==
  /\ pc = "verify"
  /\ IF FilePasses(Module) /\ (Module = "BOOT" => NewBoot)
     THEN upboot' = (upboot \/ Module = "BOOT") /\ NextVerified
     ELSE Fail /\ UNCHANGED unjudged
  /\ UNCHANGED <<store, file, counts, raced, single, gap>>

(* A module of the file: its header, its body's CRC.  For BOOT the module  *)
(* on the eMMC must be readable too, for its version is compared.  UE is   *)
(* not looked at.                                                          *)
VerifyModule ==
  /\ pc = "verify"
  /\ \/ /\ FilePasses(Module)
        /\ Module = "BOOT" => part["BOOT"][1] # Junk
        /\ upboot' = IF Module = "BOOT" THEN NewBoot ELSE upboot
        /\ NextVerified
     \/ /\ \/ file # hdr \/ ~FilePasses(Module)
           \/ Module = "BOOT" /\ part["BOOT"][1] = Junk
        /\ Fail /\ UNCHANGED unjudged
  /\ UNCHANGED <<store, file, counts, raced, single, gap>>

(* Mutant: the new image header is forgotten.                              *)
WriteHeaderNot ==
  /\ pc = "header" /\ pc' = "read"
  /\ part' = [part EXCEPT !["BOOT"][1] = Junk]
  /\ UNCHANGED <<header, qspi, file, where, locals, result, counts, past>>

(* Mutant: a BOOT module of the same version is skipped.                   *)
WriteHeaderSkipBoot ==
  /\ pc = "header" /\ pc' = "read"
  /\ header' = file
  /\ part' = [part EXCEPT !["BOOT"][1] = Junk]
  /\ k' = IF upboot THEN 1 ELSE 2
  /\ UNCHANGED <<qspi, file, where, hdr, chunk, buf, upboot, result, counts, past>>

(* The image header is written first.  emmc_write writes a whole chunk of  *)
(* TEMP_ADDR, and the BOOT module's header lies within it.                 *)
WriteHeader ==
  /\ pc = "header"
  /\ header' = file
  /\ part' = [part EXCEPT !["BOOT"][1] = Junk]
  /\ pc' = "read"
  /\ UNCHANGED <<qspi, file, where, locals, result, counts, past>>

(* The module is read again, from the offset of the header read at first.  *)
(* A file that has changed since may have anything there, or end too soon. *)
ReadModule ==
  /\ pc = "read"
  /\ \/ /\ buf' \in IF file = hdr THEN {file} ELSE {file, hdr, Junk}
        /\ pc' = "write" /\ chunk' = 1
        /\ UNCHANGED <<where, hdr, k, upboot, result>>
     \/ file # hdr /\ Fail
  /\ UNCHANGED <<store, file, counts, past>>

(* Mutant: the write loop ends where the verification loop does.           *)
NextModuleTooFew == IF k < Len(Modules) - 1 THEN pc' = "read" /\ k' = k + 1
                                            ELSE pc' = "done" /\ UNCHANGED k

(* On to the next module.                                                  *)
NextModule == IF k < Len(Modules) THEN pc' = "read" /\ k' = k + 1
                                  ELSE pc' = "done" /\ UNCHANGED k

WriteChunk ==
  /\ pc = "write"
  /\ part' = [part EXCEPT ![Module][chunk] = buf]
  /\ CASE chunk = 1 -> chunk' = 2 /\ UNCHANGED <<pc, where, hdr, k, buf, upboot, result>>
       [] chunk = 2 /\ ~(Module = "BOOT" /\ upboot) ->
            NextModule /\ UNCHANGED <<where, hdr, chunk, buf, upboot, result>>
       [] chunk = 2 /\ Module = "BOOT" /\ upboot /\ buf # Junk ->
            pc' = "erase" /\ UNCHANGED <<where, locals, result>>
       [] OTHER -> Fail
  /\ UNCHANGED <<header, qspi, file, counts, past>>

(* flash_update_bootbin; its result is not looked at.  An erase that fails *)
(* may have begun; Erased stands for anything that is no loader.           *)
Erase ==
  /\ pc = "erase"
  /\ \/ qspi' = Erased /\ pc' = "program" /\ UNCHANGED <<k, faults>>
     \/ /\ faults < MaxFaults /\ faults' = faults + 1
        /\ qspi' \in {qspi, Erased} /\ NextModule
  /\ UNCHANGED <<header, part, file, where, hdr, chunk, buf, upboot, result,
                 uploads, cuts, past>>

Program ==
  /\ pc = "program"
  /\ \/ qspi' = buf /\ UNCHANGED faults
     \/ faults < MaxFaults /\ faults' = faults + 1 /\ UNCHANGED qspi
  /\ NextModule
  /\ UNCHANGED <<header, part, file, where, hdr, chunk, buf, upboot, result,
                 uploads, cuts, past>>

(* The file is removed when everything is in its place.                    *)
Finish ==
  /\ pc = "done"
  /\ file' = NoFile
  /\ Return("success")
  /\ UNCHANGED <<store, counts, past>>

-----------------------------------------------------------------------------
(* emmc_update_module: a file with one module, checked and written the     *)
(* same way; nothing else of the eMMC is looked at.                        *)
StartModule(m, i) ==
  /\ pc = "idle" /\ uploads < MaxUploads
  /\ uploads' = uploads + 1
  /\ IF PassesCrc(i, m, i)
     THEN /\ pc' = "mwrite" /\ result' = "none" /\ single' = TRUE
          /\ k' = (CHOOSE n \in 1 .. Len(Modules) : Modules[n] = m)
          /\ chunk' = 1 /\ buf' = i
          /\ UNCHANGED <<where, hdr, upboot>>
     ELSE Fail /\ UNCHANGED single
  /\ UNCHANGED <<store, file, faults, cuts, raced, gap, unjudged>>

WriteModuleChunk ==
  /\ pc = "mwrite"
  /\ part' = [part EXCEPT ![Module][chunk] = buf]
  /\ IF chunk = 1
     THEN chunk' = 2 /\ UNCHANGED <<pc, where, hdr, k, buf, upboot, result>>
     ELSE Return("success")
  /\ UNCHANGED <<header, qspi, file, counts, past>>

-----------------------------------------------------------------------------
(* What a write that does not complete may leave behind.                   *)
HalfWritten ==
  CASE pc = "header" -> /\ header' \in {header, file, Junk}
                        /\ part' \in {part, [part EXCEPT !["BOOT"][1] = Junk]}
                        /\ UNCHANGED qspi
    [] pc \in {"write", "mwrite"} ->
         /\ part' \in {part, [part EXCEPT ![Module][chunk] = Junk]}
         /\ UNCHANGED <<header, qspi>>
    [] pc = "erase" -> qspi' \in {qspi, Erased} /\ UNCHANGED <<header, part>>
    [] OTHER -> UNCHANGED store

(* The interruption hits between the first block of the image header and   *)
(* the last of the BOOT module's first chunk.                              *)
InGap == \/ pc = "header"
         \/ pc \in {"read", "write", "mwrite"} /\ Module = "BOOT" /\ chunk = 1
Gap == gap' = (gap \/ InGap)

(* A read or a write fails: the command gives up.                          *)
Fault ==
  /\ pc \in {"verify", "header", "read", "write", "mwrite"} /\ faults < MaxFaults
  /\ faults' = faults + 1
  /\ HalfWritten /\ Gap
  /\ Fail
  /\ UNCHANGED <<file, uploads, cuts, raced, single, unjudged>>

(* The power fails.                                                        *)
Cut ==
  /\ pc # "idle" /\ cuts < MaxCuts
  /\ cuts' = cuts + 1
  /\ HalfWritten /\ Gap
  /\ Return("none")
  /\ UNCHANGED <<file, uploads, faults, raced, single, unjudged>>

-----------------------------------------------------------------------------
UpdateStep == VerifyModule \/ WriteHeader \/ ReadModule \/ WriteChunk \/ Erase
              \/ Program \/ Finish \/ WriteModuleChunk

Command == \/ \E shell \in {"loader", "app"} : StartUpdate(shell)
           \/ \E m \in Single, i \in Images : StartModule(m, i)

Next == (\E i \in Images : Upload(i)) \/ Command \/ UpdateStep \/ Fault \/ Cut

Spec == Init /\ [][Next]_vars

-----------------------------------------------------------------------------
Data == Images \cup {Junk}

TypeOK ==
  /\ header \in Data /\ part \in [ModuleSet -> [1 .. 2 -> Data]]
  /\ qspi \in Data \cup {Erased}
  /\ file \in Images \cup {NoFile}
  /\ pc \in {"idle", "verify", "header", "read", "write", "erase", "program",
             "done", "mwrite"}
  /\ where \in {"loader", "app"}
  /\ hdr \in Images \cup {NoFile} /\ k \in 1 .. Len(Modules) /\ chunk \in 1 .. 2
  /\ buf \in Data /\ upboot \in BOOLEAN
  /\ result \in {"none", "success", "fail"}
  /\ raced \in BOOLEAN /\ single \in BOOLEAN /\ gap \in BOOLEAN
  /\ unjudged \subseteq Images

Holds(m, i) == part[m] = [c \in 1 .. 2 |-> i]

(* Unless the file was replaced under a command, no module of a checked    *)
(* version with a wrong CRC ever reaches the eMMC, however often power and *)
(* writes fail: all five checked modules are verified before the first     *)
(* block is written.  There is one hole: a BOOT is let in unseen while the *)
(* one it replaces is of an unchecked version.  (The sixth module, UE, is  *)
(* never verified.)                                                        *)
NothingDamagedStored ==
  ~raced => \A m \in ModuleSet \ {"UE"}, c \in 1 .. 2 :
               part[m][c] \in Checked => \/ m \notin Damaged[part[m][c]]
                                         \/ m = "BOOT" /\ part[m][c] \in unjudged

(* What is on the eMMC is one image, unless an update has been cut short   *)
(* and its file is still there, or somebody wrote a single module.         *)
MixtureIsRepairable ==
  (pc = "idle" /\ ~raced /\ ~single /\ file = NoFile) =>
     header \in Images /\ \A m \in ModuleSet : Holds(m, header)

(* An update needs the BOOT module on the eMMC readable, and destroys it   *)
(* with the chunk of the image header.  That is the only time when an      *)
(* interruption can make it unreadable, and all later updates fail.        *)
BootLostOnlyInGap ==
  (pc \in {"idle", "verify"} /\ part["BOOT"][1] = Junk) => gap \/ raced

(* The boot flash follows the eMMC: after a successful update it holds the *)
(* boot version of the image, if no command was ever interrupted and no    *)
(* single module was written.                                              *)
FlashFollows ==
  (result = "success" /\ cuts = 0 /\ faults = 0 /\ ~raced /\ ~single) =>
     BootVersion[qspi] = BootVersion[header]

(* Once the check of a sound image in the loader's shell has begun, with   *)
(* the BOOT module of the eMMC readable, the image gets installed, if      *)
(* neither power nor a write fails.                                        *)
Sound(i) == Damaged[i] = {}

SoundImageInstalled ==
  \A i \in Images :
     (pc = "verify" /\ k = 1 /\ hdr = i /\ Sound(i) /\ part["BOOT"][1] # Junk
        /\ where = "loader" /\ cuts = MaxCuts /\ faults = MaxFaults)
     ~> (header = i /\ \A m \in ModuleSet : Holds(m, i))

=============================================================================
