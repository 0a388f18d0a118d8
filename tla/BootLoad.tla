------------------------------ MODULE BootLoad ------------------------------
(***************************************************************************)
(* The boot loader (CA53_BOOT/ca53_boot/main.c and the loading half of     *)
(* boot_load/load_img.c) around the firmware update: at power-on it waits  *)
(* a moment for Ctrl+C, then loads the FPGA, the two R5 cores and the      *)
(* application from the eMMC, each checked and started on its own, and     *)
(* creates ue.conf on the way.  Ctrl+C, or a failing ue.conf, leads to the *)
(* loader's shell; any other failure ends main.  The machine may be        *)
(* switched off and on at any time, also in the middle of an update.       *)
(***************************************************************************)
EXTENDS ImageUpdate

CONSTANTS Off,              (* of a core: nothing is running on it         *)
          Absent, Empty     (* of ue.conf: not there; there and empty      *)

(* The modules that emmc_load_image starts, UE and BOOT left aside.        *)
Booted == {"BIT28", "CR50", "CR51", "CA53"}

VARIABLES mode,      (* what the A53 runs: "boot", the way from power-on;  *)
                     (* "shell", the loader's; "app"; "dead", main has     *)
                     (* returned; "other", the second system of the flash; *)
                     (* "none", no loader in the flash                     *)
          step,      (* the step of main or of a loader command; "ready"   *)
                     (* when there is none                                 *)
          running,   (* for each module, the data it was started from      *)
          ueconf     (* the file "0:ue.conf"                               *)

boot     == <<mode, step, running, ueconf>>
bootVars == <<vars, boot>>

BootInit == Init /\ mode = "boot" /\ step = "wait"
            /\ running = [m \in Booted |-> Off] /\ ueconf = Absent

-----------------------------------------------------------------------------
(* verify_image_header                                                     *)
ImageHeaderValid(i) == i \in Images /\ "header" \notin Damaged[i]

(* Mutant: an image of an old version is not accepted at all.              *)
HeaderValidNew == ImageHeaderValid(header) /\ header \in Checked

(* emmc_check_image_header_status, of the eMMC.                            *)
HeaderValid == ImageHeaderValid(header)

(* verify_module_header; the header lies in the module's first chunk.      *)
ModuleHeaderValid(m) == part[m][1] \in Images

(* Mutant: the body is not looked at.                                      *)
LoadableAny(m) == HeaderValid /\ ModuleHeaderValid(m)

(* emmc_load_image: both headers, and the CRC of the whole body if the     *)
(* module's version is new enough.  Nobody asks whether the module belongs *)
(* to the image of the header.                                             *)
Loadable(m) ==
  /\ HeaderValid /\ ModuleHeaderValid(m)
  /\ \/ part[m][1] \notin Checked
     \/ part[m][2] = part[m][1] /\ m \notin Damaged[part[m][1]]

(* load_emmc_firmware reads the body once more, to where it will run.      *)
Copy(m) == part[m]

(* The end of emmc_load_image: the FPGA is configured, the core released,  *)
(* or the A53 jumps.                                                       *)
Start(m) == /\ running' = [running EXCEPT ![m] = Copy(m)]
            /\ mode' = IF m = "CA53" THEN "app" ELSE mode

(* The loader's shell waits for a command.                                 *)
Prompt == mode = "shell" /\ step = "ready" /\ pc = "idle"

-----------------------------------------------------------------------------
(* main: Ctrl+C while it counts down; the band in the EEPROM is that of    *)
(* the other system; or neither.                                           *)
Waiting == mode = "boot" /\ step = "wait"

CtrlC == /\ Waiting /\ mode' = "shell" /\ step' = "ready"
         /\ UNCHANGED <<vars, running, ueconf>>

OtherSystem == /\ Waiting /\ mode' = "other" /\ step' = "ready"
               /\ UNCHANGED <<vars, running, ueconf>>

EndWait == /\ Waiting /\ step' = "BIT28"
           /\ UNCHANGED <<vars, mode, running, ueconf>>

(* The order of main.                                                      *)
After == [BIT28 |-> "CR50", CR50 |-> "CR51", CR51 |-> "conf", CA53 |-> "ready"]

Dead == mode' = "dead" /\ step' = "ready" /\ UNCHANGED <<running, ueconf>>

LoadStep ==
  /\ mode = "boot" /\ step \in Booted
  /\ \/ /\ Loadable(step) /\ Start(step)
        /\ step' = After[step] /\ UNCHANGED ueconf
     \/ ~Loadable(step) /\ Dead
  /\ UNCHANGED vars

(* check_and_create_ue_conf, in main or as a command.  An existing file is *)
(* left as it is, whatever is in it.                                       *)
AfterConf == IF mode = "boot" THEN "CA53" ELSE "ready"

(* Mutant: a file that exists is created again, which FatFs refuses.       *)
CheckConfNever ==
  /\ step = "conf"
  /\ IF ueconf # Absent
     THEN mode' = "shell" /\ step' = "ready" /\ UNCHANGED ueconf
     ELSE step' = "fill" /\ ueconf' = Empty /\ UNCHANGED mode
  /\ UNCHANGED <<vars, running>>

CheckConf ==
  /\ step = "conf"
  /\ \/ ueconf # Absent /\ step' = AfterConf /\ UNCHANGED ueconf
     \/ ueconf = Absent /\ step' = "fill" /\ ueconf' = Empty
  /\ UNCHANGED <<vars, mode, running>>

(* The size is that of the image header, the data that of the UE module,   *)
(* which has no checksum.                                                  *)
UeData == <<header, part["UE"]>>

FillConf ==
  /\ step = "fill"
  /\ ueconf' = UeData /\ step' = AfterConf
  /\ UNCHANGED <<vars, mode, running>>

-----------------------------------------------------------------------------
(* Commands of the loader's shell: load_img with a module; with BOOT, as   *)
(* at the end of update_bootbin, it programs the boot flash; rm.           *)
LoadCommand(m) ==
  /\ Prompt /\ Loadable(m) /\ Start(m)
  /\ UNCHANGED <<vars, step, ueconf>>

LoadBoot == /\ Prompt /\ Loadable("BOOT") /\ step' = "erase"
            /\ UNCHANGED <<vars, mode, running, ueconf>>

Flash(to, next) ==
  /\ \/ qspi' = to /\ step' = next /\ UNCHANGED faults
     \/ /\ faults < MaxFaults /\ faults' = faults + 1
        /\ step' = "ready" /\ qspi' \in {qspi, Erased}
  /\ UNCHANGED <<header, part, file, pc, where, locals, result, uploads, cuts, past,
                 mode, running, ueconf>>

EraseBoot   == mode = "shell" /\ step = "erase" /\ Flash(Erased, "program")
ProgramBoot == mode = "shell" /\ step = "program" /\ Flash(part["BOOT"][1], "ready")

ConfCommand == /\ Prompt /\ step' = "conf"
               /\ UNCHANGED <<vars, mode, running, ueconf>>

RemoveConf == /\ Prompt \/ (mode = "app" /\ pc = "idle")
              /\ ueconf' = Absent
              /\ UNCHANGED <<vars, mode, step, running>>

-----------------------------------------------------------------------------
(* The commands and the uploads of ImageUpdate, while their shell runs.    *)
InUpdate ==
  /\ \/ Prompt \/ mode = "app" \/ pc # "idle"
  /\ \/ \E i \in Images : Upload(i)
     \/ mode = "shell" /\ StartUpdate("loader")
     \/ mode = "app" /\ StartUpdate("app")
     \/ \E m \in Single, i \in Images : StartModule(m, i)
     \/ Fault
  /\ UNCHANGED boot

GoOnUpdating == UpdateStep /\ UNCHANGED boot

(* A read fails while a module is loaded: main returns.  One fails while   *)
(* ue.conf is made: the shell; what was begun is removed, if that works.   *)
BootFault ==
  /\ faults < MaxFaults /\ faults' = faults + 1
  /\ \/ mode = "boot" /\ step \in Booted /\ Dead
     \/ /\ step \in {"conf", "fill"}
        /\ ueconf' \in IF step = "fill" THEN {Absent, Empty} ELSE {ueconf}
        /\ mode' = "shell" /\ step' = "ready" /\ UNCHANGED running
  /\ UNCHANGED <<store, file, pc, where, locals, result, uploads, cuts, past>>

(* The boot ROM finds a loader in the flash, or none; one whose CRC is     *)
(* wrong may run or not.  The loader holds the R5 cores in reset and       *)
(* clears their memory.                                                    *)
PowerOn == /\ mode' \in CASE qspi' \notin Images       -> {"none"}
                         [] "BOOT" \in Damaged[qspi'] -> {"boot", "none"}
                         [] OTHER                     -> {"boot"}
           /\ step' = "wait" /\ running' = [m \in Booted |-> Off]

(* Switched off while nothing is being written.                            *)
PowerCycle ==
  /\ mode \in {"shell", "app", "dead", "other"} /\ step = "ready" /\ pc = "idle"
  /\ UNCHANGED <<vars, ueconf>> /\ PowerOn

(* The power fails during an update, or during a step of the loader.       *)
PowerCut ==
  \/ Cut /\ PowerOn /\ UNCHANGED ueconf
  \/ /\ pc = "idle" /\ step # "ready" /\ mode # "none"
     /\ cuts < MaxCuts /\ cuts' = cuts + 1
     /\ qspi' \in IF step \in {"erase", "program"} THEN {qspi, Erased} ELSE {qspi}
     /\ ueconf' \in IF step = "fill" THEN {Absent, Empty, UeData} ELSE {ueconf}
     /\ UNCHANGED <<header, part, file, pc, where, locals, result, uploads, faults, past>>
     /\ PowerOn

BootStep == EndWait \/ LoadStep \/ CheckConf \/ FillConf

ShellStep == \/ \E m \in Booted : LoadCommand(m)
             \/ LoadBoot \/ EraseBoot \/ ProgramBoot \/ ConfCommand \/ RemoveConf

BootNext == \/ BootStep \/ CtrlC \/ OtherSystem \/ ShellStep
            \/ InUpdate \/ GoOnUpdating \/ BootFault \/ PowerCycle \/ PowerCut

(* The loader and a command that has been given go on while there is power.*)
BootSpec == /\ BootInit /\ [][BootNext]_bootVars
            /\ WF_bootVars(BootStep) /\ WF_bootVars(GoOnUpdating)

-----------------------------------------------------------------------------
Chunks == [1 .. 2 -> Data]

BootTypeOK ==
  /\ TypeOK
  /\ mode \in {"boot", "shell", "app", "dead", "other", "none"}
  /\ step \in Booted \cup {"ready", "wait", "conf", "fill", "erase", "program"}
  /\ running \in [Booted -> Chunks \cup {Off}]
  /\ ueconf \in (Data \X Chunks) \cup {Absent, Empty}
  /\ pc # "idle" => mode \in {"shell", "app"} /\ step = "ready"

(* Whatever was cut short or replaced on the way to the eMMC: nothing of a *)
(* checked version ever runs in part or with a wrong CRC (emmc_load_image).*)
TornNeverRuns ==
  BootTypeOK /\ \A m \in Booted :
     (running[m] # Off /\ running[m][1] \in Checked) =>
        /\ running[m][2] = running[m][1]
        /\ m \notin Damaged[running[m][1]]

Installed(i) == header = i /\ \A m \in ModuleSet : Holds(m, i)

(* main starts each module as soon as it is loaded and never compares      *)
(* them.  Still, when no update is pending and nobody wrote a single       *)
(* module, an application that comes up has one image on all cores; and    *)
(* ue.conf, which is never made again, is made of one image.               *)
OneImageStarts ==
  [][(file = NoFile /\ ~raced /\ ~single) =>
       /\ (mode = "boot" /\ mode' = "app") =>
             \E i \in Images : \A m \in Booted : running'[m] = <<i, i>>
       /\ (ueconf' # ueconf /\ ueconf' \notin {Absent, Empty}) =>
             \E i \in Images : ueconf' = <<i, <<i, i>> >>]_bootVars

(* main returns, and nothing short of a power cycle brings the machine     *)
(* back, only if a read failed or an update is pending, whose file is      *)
(* still there for the repair.                                             *)
DeadIsRepairable ==
  mode = "dead" => faults > 0 \/ file # NoFile \/ raced \/ single

(* A sound image that is wholly on the eMMC is the one that comes up, once *)
(* the wait for Ctrl+C is over, whatever earlier cuts have left behind.    *)
SoundImageBoots ==
  \A i \in Images :
     (mode = "boot" /\ step = "BIT28" /\ Installed(i) /\ Sound(i)
        /\ cuts = MaxCuts /\ faults = MaxFaults)
     ~> (mode = "app" /\ \A m \in Booted : running[m] = <<i, i>>)

=============================================================================
