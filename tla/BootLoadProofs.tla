--------------------------- MODULE BootLoadProofs ---------------------------
(***************************************************************************)
(* What holds of the firmware update, and of the boot loader around it,    *)
(* for any set of images, any damage to them and any number of uploads,    *)
(* faults, power cuts and restarts.                                        *)
(*                                                                         *)
(* The update.  As soon as the file has been replaced under a command      *)
(* (raced) nothing is claimed, by the code or here; until then everything  *)
(* the command has established on the way remains true: the file is the    *)
(* one whose header it read, the modules before the one it is at have been *)
(* verified, or are on the eMMC.  This is CommandState.  The rest of the   *)
(* invariant says what the eMMC and the boot flash hold meanwhile.         *)
(*                                                                         *)
(* The loader.  The updates keep their invariant, for the steps of the     *)
(* loader are steps of the update or leave eMMC and command alone.  On top *)
(* of it: where main is, and what it has started so far.                   *)
(***************************************************************************)
EXTENDS BootLoad, TLAPS

(* Module m of image i is sound as far as its version lets one ask; or it  *)
(* is a BOOT that an unchecked BOOT has let through.                       *)
Accepted(i, m, u) == i \in Checked => m \notin Damaged[i] \/ (m = "BOOT" /\ i \in u)

Writing  == {"read", "write", "erase", "program", "done"}
Updating == {"verify", "header"} \cup Writing

(* Also when the file is replaced there is one, until the command is done. *)
Basics == /\ faults \in Nat /\ cuts \in Nat
          /\ pc \in Updating => file \in Images /\ hdr \in Images

CommandState ==
  /\ pc = "idle" => k = 1 /\ chunk = 1
  /\ pc \in Updating => file = hdr /\ "header" \notin Damaged[hdr]
  /\ pc = "verify" => /\ k <= 5 /\ chunk = 1
                      /\ \A j \in 1 .. k - 1 : Accepted(hdr, Modules[j], unjudged)
  /\ pc = "header" => k = 1 /\ chunk = 1
  /\ pc \in {"header"} \cup Writing => \A m \in ModuleSet \ {"UE"} : Accepted(hdr, m, unjudged)
  /\ pc \in Writing => /\ header = hdr
                       /\ \A j \in 1 .. k - 1 : Holds(Modules[j], hdr)
  /\ pc = "read" /\ k = 1 => chunk = 1
  /\ pc \in {"write", "erase", "program"} => buf = hdr
  /\ pc = "write" /\ chunk = 2 => part[Module][1] = hdr
  /\ pc \in {"erase", "program"} => k = 1 /\ Holds("BOOT", hdr)
  /\ pc = "done" => k = 6 /\ Holds("UE", hdr)
  /\ pc = "mwrite" => single /\ buf \in Images /\ Accepted(buf, Module, unjudged)

(* No module with a wrong CRC is on the eMMC, but for such a BOOT.         *)
StoreSound == \A m \in ModuleSet \ {"UE"}, c \in 1 .. 2 : Accepted(part[m][c], m, unjudged)

Whole == /\ header \in Images /\ "header" \notin Damaged[header]
         /\ \A m \in ModuleSet : Holds(m, header)

Repairable == single \/ file # NoFile \/ Whole

(* From the chunk of the image header to the first one of BOOT.            *)
AtGap == pc \in {"read", "write"} /\ k = 1 /\ chunk = 1

BootReadable == part["BOOT"][1] = Junk => gap \/ AtGap

Orderly == CommandState /\ StoreSound /\ Repairable /\ BootReadable

Calm == ~raced /\ ~single /\ cuts = 0 /\ faults = 0

(* When no command was disturbed the flash follows the eMMC, but for the   *)
(* time in which a command that knows (upboot) has it before it.           *)
FlashKnown ==
  /\ pc \in {"idle", "verify", "header"} =>
        Whole /\ BootVersion[qspi] = BootVersion[header]
  /\ pc = "header" \/ (pc = "verify" /\ k > 1) =>
        upboot = (BootVersion[hdr] # BootVersion[header])
  /\ pc \in {"read", "write", "done"} =>
        BootVersion[qspi] = BootVersion[hdr] \/ (k = 1 /\ upboot)

(* What a command has printed is forgotten when the next one starts.       *)
Reported == result = "success" => pc = "idle"

StoreInv == TypeOK /\ Basics /\ (raced \/ Orderly)
IInv     == StoreInv /\ (Calm => FlashKnown)

(* The machine was delivered with an image that its own check accepts.     *)
DeliveredSound == /\ "header" \notin Damaged[Factory]
                  /\ \A m \in ModuleSet \ {"UE"} : PassesCrc(Factory, m, Factory)

-----------------------------------------------------------------------------
(* module_configs lists every module once, BOOT first and UE last.         *)
LEMMA ModuleFacts ==
  /\ Len(Modules) = 6
  /\ \A n \in 1 .. 6 : /\ Modules[n] \in ModuleSet
                       /\ Modules[n] = "BOOT" <=> n = 1
                       /\ Modules[n] = "UE" <=> n = 6
  /\ \A m \in ModuleSet : \E n \in 1 .. 6 : Modules[n] = m
  /\ \A n, j \in 1 .. 6 : Modules[n] = Modules[j] => n = j
  BY DEF Modules, ModuleSet

LEMMA SixModules == Len(Modules) = 6
  BY DEF Modules

(* Writing one chunk changes that chunk.                                   *)
LEMMA PartWritten ==
  ASSUME part \in [ModuleSet -> [1 .. 2 -> Data]],
         NEW m0 \in ModuleSet, NEW c0 \in 1 .. 2, NEW v \in Data,
         part' = [part EXCEPT ![m0][c0] = v]
  PROVE  /\ part' \in [ModuleSet -> [1 .. 2 -> Data]]
         /\ part'[m0][c0] = v
         /\ \A m \in ModuleSet, c \in 1 .. 2 :
               m # m0 \/ c # c0 => part'[m][c] = part[m][c]
  OBVIOUS

(* A module belongs to an image when both its chunks do.                   *)
LEMMA HoldsIs ==
  ASSUME part \in [ModuleSet -> [1 .. 2 -> Data]]
  PROVE  \A m \in ModuleSet : \A i : Holds(m, i) <=> part[m][1] = i /\ part[m][2] = i
<1> SUFFICES ASSUME NEW m \in ModuleSet, NEW i
             PROVE  Holds(m, i) <=> part[m][1] = i /\ part[m][2] = i
  OBVIOUS
<1>1. part[m] \in [1 .. 2 -> Data]
  OBVIOUS
<1>2. 1 .. 2 = {1, 2}
  OBVIOUS
<1> QED BY <1>1, <1>2 DEF Holds

LEMMA HoldsIsNext ==
  ASSUME part' \in [ModuleSet -> [1 .. 2 -> Data]]
  PROVE  \A m \in ModuleSet : \A i : Holds(m, i)' <=> part'[m][1] = i /\ part'[m][2] = i
<1> SUFFICES ASSUME NEW m \in ModuleSet, NEW i
             PROVE  Holds(m, i)' <=> part'[m][1] = i /\ part'[m][2] = i
  OBVIOUS
<1>1. part'[m] \in [1 .. 2 -> Data]
  OBVIOUS
<1>2. 1 .. 2 = {1, 2}
  OBVIOUS
<1> QED BY <1>1, <1>2 DEF Holds

(* With the eMMC unchanged, what is said of the eMMC alone is unchanged.   *)
LEMMA StoreUnchanged ==
  ASSUME header' = header, part' = part
  PROVE  /\ Whole' = Whole
         /\ \A m, i : Holds(m, i)' = Holds(m, i)
         /\ unjudged \subseteq unjudged' /\ StoreSound => StoreSound'
  BY DEF StoreSound, Accepted, Whole, Holds

(* A command that returns leaves nothing to be said of it.                 *)
LEMMA Returned ==
  ASSUME NEW res, Return(res)
  PROVE  CommandState' /\ ~AtGap'
  BY DEF Return, CommandState, AtGap, Updating, Writing

-----------------------------------------------------------------------------
(* The types, and the counters that are only counted up.                   *)
LEMMA InitTypes == Init => TypeOK /\ Basics
<1> SUFFICES ASSUME Init PROVE TypeOK /\ Basics
  OBVIOUS
<1>1. Factory \in Data
  BY ImagesAssumption DEF Data
<1>2. part \in [ModuleSet -> [1 .. 2 -> Data]]
  BY <1>1 DEF Init
<1>3. k \in 1 .. Len(Modules) /\ chunk \in 1 .. 2 /\ Basics
  BY SixModules DEF Init, Basics, Updating, Writing
<1>4. upboot \in BOOLEAN /\ raced \in BOOLEAN /\ single \in BOOLEAN /\ gap \in BOOLEAN
  BY DEF Init
<1>5. /\ header \in Data /\ qspi \in Data \cup {Erased} /\ buf \in Data
      /\ file \in Images \cup {NoFile} /\ hdr \in Images \cup {NoFile}
  BY <1>1 DEF Init, Data
<1> QED BY <1>2, <1>3, <1>4, <1>5 DEF Init, TypeOK

(* What a write that does not complete leaves behind is still data.        *)
LEMMA HalfTypes ==
  ASSUME TypeOK, Basics, HalfWritten
  PROVE  /\ header' \in Data /\ part' \in [ModuleSet -> [1 .. 2 -> Data]]
         /\ qspi' \in Data \cup {Erased}
<1>1. Module \in ModuleSet /\ "BOOT" \in ModuleSet /\ Junk \in Data
  BY ModuleFacts DEF TypeOK, Module, ModuleSet, Data
<1>2. part \in [ModuleSet -> [1 .. 2 -> Data]] /\ chunk \in 1 .. 2
  BY DEF TypeOK
<1>3. CASE pc = "header"
  <2>1. [part EXCEPT !["BOOT"][1] = Junk] \in [ModuleSet -> [1 .. 2 -> Data]]
    BY <1>1, <1>2
  <2>2. file \in Data
    BY <1>3 DEF Basics, Updating, Data
  <2> QED BY <1>3, <2>1, <2>2, <1>1 DEF HalfWritten, TypeOK
<1>4. CASE pc \in {"write", "mwrite"}
  <2>1. [part EXCEPT ![Module][chunk] = Junk] \in [ModuleSet -> [1 .. 2 -> Data]]
    BY <1>1, <1>2
  <2> QED BY <1>4, <2>1, <1>1 DEF HalfWritten, TypeOK
<1>5. CASE pc \notin {"header", "write", "mwrite"}
  BY <1>5 DEF HalfWritten, TypeOK, store
<1> QED BY <1>3, <1>4, <1>5

LEMMA NextModuleTypes ==
  ASSUME TypeOK, NextModule
  PROVE  k' \in 1 .. Len(Modules) /\ pc' \in {"read", "done"}
  BY SixModules DEF TypeOK, NextModule

LEMMA ReturnTypes ==
  ASSUME NEW res \in {"none", "success", "fail"}, Return(res)
  PROVE  /\ pc' \in {"idle"} /\ where' \in {"loader", "app"}
         /\ hdr' \in Images \cup {NoFile} /\ k' \in 1 .. Len(Modules)
         /\ chunk' \in 1 .. 2 /\ buf' \in Data /\ upboot' \in BOOLEAN
         /\ result' \in {"none", "success", "fail"}
<1>1. k' \in 1 .. Len(Modules) /\ chunk' \in 1 .. 2
  BY SixModules DEF Return
<1>2. upboot' \in BOOLEAN
  BY DEF Return
<1> QED BY <1>1, <1>2 DEF Return, Data

LEMMA UpdateTypes ==
  ASSUME TypeOK, Basics, UpdateStep
  PROVE  TypeOK' /\ Basics'
<1>1. CASE VerifyModule
  <2>1. CASE Fail
    <3>1. unjudged' \subseteq Images
      BY <1>1, <2>1 DEF VerifyModule, NextVerified, Return, TypeOK, Basics, Updating
    <3> QED BY <1>1, <2>1, <3>1, ReturnTypes
        DEF VerifyModule, TypeOK, Basics, Updating, Writing, Fail, store, counts
  <2>2. CASE ~Fail
    <3>1. NextVerified /\ upboot' \in BOOLEAN
      BY <1>1, <2>2 DEF VerifyModule, TypeOK, NewBoot
    <3>2. k' \in 1 .. Len(Modules) /\ pc' \in {"verify", "header"}
      BY <1>1, <3>1, SixModules DEF VerifyModule, NextVerified, TypeOK
    <3>3. unjudged' \subseteq Images
      BY <1>1, <3>1 DEF VerifyModule, NextVerified, TypeOK, Basics, Updating
    <3> QED BY <1>1, <3>1, <3>2, <3>3
        DEF VerifyModule, NextVerified, TypeOK, Basics, Updating, Writing, store, counts
  <2> QED BY <2>1, <2>2
<1>2. CASE WriteHeader
  <2>1. file \in Data
    BY <1>2 DEF WriteHeader, Basics, Updating, Writing, Updating, Data
  <2>2. part' \in [ModuleSet -> [1 .. 2 -> Data]]
    BY <1>2, PartWritten DEF WriteHeader, TypeOK, Data, ModuleSet
  <2> QED BY <1>2, <2>1, <2>2 DEF WriteHeader, TypeOK, Basics, Updating, Writing, locals, counts, past
<1>3. CASE ReadModule
  <2>1. CASE Fail
    BY <1>3, <2>1, ReturnTypes DEF ReadModule, TypeOK, Basics, Updating, Writing, Fail, store, counts, past
  <2>2. CASE ~Fail
    <3>1. buf' \in Data /\ chunk' \in 1 .. 2
      BY <1>3, <2>2 DEF ReadModule, TypeOK, Basics, Updating, Writing, Data
    <3> QED BY <1>3, <2>2, <3>1 DEF ReadModule, TypeOK, Basics, Updating, Writing, store, counts, past
  <2> QED BY <2>1, <2>2
<1>4. CASE WriteChunk
  <2>1. part' \in [ModuleSet -> [1 .. 2 -> Data]]
    BY <1>4, PartWritten, ModuleFacts DEF WriteChunk, TypeOK, Module
  <2>2. CASE Fail
    BY <1>4, <2>1, <2>2, ReturnTypes DEF WriteChunk, TypeOK, Basics, Updating, Writing, Fail, counts, past
  <2>3. CASE NextModule /\ UNCHANGED <<where, hdr, chunk, buf, upboot, result>>
    <3>1. k' \in 1 .. Len(Modules) /\ pc' \in {"read", "done"}
      BY <2>3, NextModuleTypes
    <3>2. UNCHANGED <<header, qspi, file, counts, past>> /\ pc = "write"
      BY <1>4 DEF WriteChunk
    <3> QED BY <2>1, <2>3, <3>1, <3>2 DEF TypeOK, Basics, Updating, Writing, counts, past
  <2> QED BY <1>4, <2>1, <2>2, <2>3 DEF WriteChunk, TypeOK, Basics, Updating, Writing, locals, counts, past
<1>5. CASE Erase
  BY <1>5, NextModuleTypes DEF Erase, TypeOK, Basics, Updating, Writing, past
<1>6. CASE Program
  BY <1>6, NextModuleTypes DEF Program, TypeOK, Basics, Updating, Writing, past
<1>7. CASE Finish
  BY <1>7, ReturnTypes DEF Finish, TypeOK, Basics, Updating, Writing, store, counts, past
<1>8. CASE WriteModuleChunk
  <2>1. part' \in [ModuleSet -> [1 .. 2 -> Data]]
    BY <1>8, PartWritten, ModuleFacts DEF WriteModuleChunk, TypeOK, Module
  <2>2. CASE chunk = 1
    BY <1>8, <2>1, <2>2 DEF WriteModuleChunk, TypeOK, Basics, Updating, Writing, counts, past
  <2> QED BY <1>8, <2>1, <2>2, ReturnTypes DEF WriteModuleChunk, TypeOK, Basics, Updating, Writing, counts, past
<1> QED BY <1>1, <1>2, <1>3, <1>4, <1>5, <1>6, <1>7, <1>8 DEF UpdateStep

LEMMA UploadTypes ==
  ASSUME TypeOK, Basics, NEW i \in Images, Upload(i)
  PROVE  TypeOK' /\ Basics'
<1>1. raced' \in BOOLEAN
  BY DEF Upload, TypeOK
<1> QED BY <1>1 DEF Upload, TypeOK, Basics, Updating, Writing, store, locals

LEMMA StartUpdateTypes ==
  ASSUME TypeOK, Basics, NEW shell \in {"loader", "app"}, StartUpdate(shell)
  PROVE  TypeOK' /\ Basics'
<1>1. CASE "header" \in Damaged[file]
  BY <1>1, ReturnTypes DEF StartUpdate, Fail, TypeOK, Basics, Updating, Writing,
                           store, counts, past
<1>2. CASE "header" \notin Damaged[file]
  <2>1. k' \in 1 .. Len(Modules)
    BY <1>2, SixModules DEF StartUpdate
  <2>2. upboot' \in BOOLEAN
    BY <1>2 DEF StartUpdate
  <2> QED BY <1>2, <2>1, <2>2 DEF StartUpdate, TypeOK, Basics, Updating, Writing,
                            store, counts, past
<1> QED BY <1>1, <1>2

(* The number that the loop over module_configs finds for a module.        *)
LEMMA NumberOf ==
  ASSUME NEW m \in Single
  PROVE  LET n == CHOOSE j \in 1 .. Len(Modules) : Modules[j] = m
         IN  n \in 1 .. 6 /\ Modules[n] = m
<1>1. \E j \in 1 .. Len(Modules) : Modules[j] = m
  BY ModuleFacts, ImagesAssumption DEF ModuleSet
<1> QED BY <1>1, SixModules

LEMMA StartModuleTypes ==
  ASSUME TypeOK, Basics, NEW m \in Single, NEW i \in Images, StartModule(m, i)
  PROVE  TypeOK' /\ Basics'
<1>1. CASE ~PassesCrc(i, m, i)
  BY <1>1, ReturnTypes DEF StartModule, Fail, TypeOK, Basics, Updating, Writing,
                           store
<1>2. CASE PassesCrc(i, m, i)
  <2>1. k' \in 1 .. Len(Modules) /\ chunk' \in 1 .. 2 /\ buf' \in Data
    BY <1>2, NumberOf, SixModules DEF StartModule, Data
  <2>2. single' \in BOOLEAN
    BY <1>2 DEF StartModule
  <2> QED BY <1>2, <2>1, <2>2 DEF StartModule, TypeOK, Basics, Updating, Writing, store
<1> QED BY <1>1, <1>2

(* A command is broken off, with gap as it may be.                         *)
LEMMA BrokenOffTypes ==
  ASSUME TypeOK, Basics, HalfWritten, Gap, NEW res \in {"none", "fail"}, Return(res),
         UNCHANGED <<file, raced, single, unjudged>>, faults' \in Nat, cuts' \in Nat
  PROVE  TypeOK' /\ Basics'
<1>1. gap' \in BOOLEAN
  BY DEF Gap, InGap, TypeOK
<1> QED BY <1>1, HalfTypes, ReturnTypes DEF TypeOK, Basics, Updating, Writing, Return

LEMMA FaultTypes == TypeOK /\ Basics /\ Fault => TypeOK' /\ Basics'
  BY BrokenOffTypes DEF Fault, Fail, Basics

LEMMA CutTypes == TypeOK /\ Basics /\ Cut => TypeOK' /\ Basics'
  BY BrokenOffTypes DEF Cut, Basics

LEMMA StutterTypes == TypeOK /\ Basics /\ UNCHANGED vars => TypeOK' /\ Basics'
  BY DEF vars, store, locals, counts, past, TypeOK, Basics, Updating, Writing

LEMMA StepTypes ==
  ASSUME TypeOK, Basics, [Next]_vars
  PROVE  TypeOK' /\ Basics'
  BY UploadTypes, StartUpdateTypes, StartModuleTypes, UpdateTypes, FaultTypes,
     CutTypes, StutterTypes DEF Next, Command

-----------------------------------------------------------------------------
(* Orderly, of the delivered machine and through every step that finds the *)
(* file undisturbed.                                                       *)
LEMMA InitOrderly ==
  ASSUME DeliveredSound, Init
  PROVE  Orderly
<1>1. part \in [ModuleSet -> [1 .. 2 -> Data]]
  BY InitTypes DEF TypeOK
<1>2. \A m \in ModuleSet : part[m][1] = Factory /\ part[m][2] = Factory
  BY DEF Init
<1>3. StoreSound
  <2> SUFFICES ASSUME NEW m \in ModuleSet \ {"UE"}, NEW c \in 1 .. 2
               PROVE  Accepted(part[m][c], m, unjudged)
    BY DEF StoreSound
  <2>1. part[m][c] = Factory
    BY <1>2
  <2> QED BY <2>1 DEF DeliveredSound, PassesCrc, Accepted
<1>4. Whole
  BY <1>1, <1>2, HoldsIs, ImagesAssumption DEF Init, Whole, DeliveredSound
<1>5. BootReadable
  BY <1>2, ImagesAssumption DEF BootReadable, ModuleSet
<1>6. CommandState
  BY DEF Init, CommandState, Updating, Writing
<1> QED BY <1>3, <1>4, <1>5, <1>6 DEF Orderly, Repairable

LEMMA UploadOrderly ==
  ASSUME Orderly, NEW i \in Images, Upload(i), ~raced'
  PROVE  Orderly'
<1>1. pc = "idle"
  BY DEF Upload
<1>2. StoreSound' /\ BootReadable'
  BY StoreUnchanged DEF Orderly, Upload, store, locals, past, BootReadable, AtGap
<1>3. Repairable'
  BY ImagesAssumption DEF Upload, Repairable
<1>4. CommandState'
  BY <1>1 DEF Upload, Orderly, CommandState, Updating, Writing, locals
<1> QED BY <1>2, <1>3, <1>4 DEF Orderly

(* A command that returns without having touched the eMMC.                 *)
LEMMA GaveUpOrderly ==
  ASSUME Orderly, ~AtGap, NEW res, Return(res),
         UNCHANGED <<header, part, file, single, gap, unjudged>>
  PROVE  Orderly'
  BY Returned, StoreUnchanged DEF Orderly, Repairable, BootReadable

LEMMA StartUpdateOrderly ==
  ASSUME Orderly, NEW shell \in {"loader", "app"}, StartUpdate(shell)
  PROVE  Orderly'
<1>1. ~AtGap /\ UNCHANGED <<header, part, file, single, gap, unjudged>>
  BY DEF StartUpdate, AtGap, store, past
<1>2. CASE "header" \in Damaged[file]
  BY <1>1, <1>2, GaveUpOrderly DEF StartUpdate, Fail
<1>3. CASE "header" \notin Damaged[file]
  <2>1. /\ pc' = "verify" /\ hdr' = file /\ k' = 1 /\ chunk' = 1
    BY <1>3 DEF StartUpdate, Orderly, CommandState
  <2>2. CommandState'
    BY <1>1, <1>3, <2>1 DEF CommandState, Updating, Writing
  <2> QED BY <1>1, <2>1, <2>2, StoreUnchanged DEF Orderly, Repairable, BootReadable, AtGap
<1> QED BY <1>2, <1>3

(* What a module that goes through can be relied on for: BOOT was judged   *)
(* by the version of the BOOT on the eMMC, any other by its own.           *)
LEMMA VerifiedAccepted ==
  ASSUME TypeOK, VerifyModule, ~Fail, file = hdr, file \in Images
  PROVE  /\ Accepted(hdr, Module, unjudged')
         /\ unjudged \subseteq unjudged'
         /\ NextVerified
<1>1. FilePasses(Module) /\ NextVerified
  BY DEF VerifyModule
<1>2. unjudged \subseteq unjudged'
  BY <1>1 DEF NextVerified
<1>3. Accepted(hdr, Module, unjudged')
  <2>1. CASE Module = "BOOT" /\ part["BOOT"][1] \notin Checked
    BY <1>1, <2>1 DEF NextVerified, VersionAtHand, Accepted
  <2>2. CASE Module = "BOOT" /\ part["BOOT"][1] \in Checked
    BY <1>1, <2>2 DEF FilePasses, PassesCrc, VersionAtHand, Accepted
  <2>3. CASE Module # "BOOT"
    BY <1>1, <2>3 DEF FilePasses, PassesCrc, VersionAtHand, Accepted
  <2> QED BY <2>1, <2>2, <2>3
<1> QED BY <1>1, <1>2, <1>3

LEMMA VerifyOrderly ==
  ASSUME TypeOK, Basics, Orderly, VerifyModule
  PROVE  Orderly'
<1>1. pc = "verify" /\ ~AtGap /\ UNCHANGED <<header, part, file, single, gap>>
  BY DEF VerifyModule, AtGap, store
<1>2. CASE Fail
  <2>1. unjudged' = unjudged
    BY <1>1, <1>2 DEF VerifyModule, NextVerified, Fail, Return
  <2> QED BY <1>1, <1>2, <2>1, GaveUpOrderly DEF Fail
<1>3. CASE ~Fail
  <2>1. /\ file = hdr /\ hdr \in Images /\ "header" \notin Damaged[hdr]
        /\ k \in 1 .. 5 /\ chunk = 1
        /\ \A j \in 1 .. k - 1 : Accepted(hdr, Modules[j], unjudged)
    BY <1>1, SixModules DEF Orderly, CommandState, TypeOK, Basics, Updating
  <2>2. /\ Accepted(hdr, Modules[k], unjudged') /\ unjudged \subseteq unjudged'
        /\ NextVerified
    BY <1>3, <2>1, VerifiedAccepted DEF Module
  <2>3. UNCHANGED <<hdr, chunk, buf>>
    BY <2>2 DEF NextVerified
  <2>4. \A j \in 1 .. k : Accepted(hdr, Modules[j], unjudged')
    <3> SUFFICES ASSUME NEW j \in 1 .. k PROVE Accepted(hdr, Modules[j], unjudged')
      OBVIOUS
    <3>1. CASE j = k
      BY <2>2, <3>1
    <3>2. CASE j # k
      <4>1. j \in 1 .. k - 1
        BY <2>1, <3>2
      <4> QED BY <2>1, <2>2, <4>1 DEF Accepted
    <3> QED BY <3>1, <3>2
  <2>5. StoreSound' /\ BootReadable' /\ Repairable'
    <3>1. StoreSound'
      BY <1>1, <2>2, StoreUnchanged DEF Orderly
    <3>2. pc' \in {"verify", "header"}
      BY <1>1, <2>2 DEF NextVerified
    <3> QED BY <1>1, <3>1, <3>2, StoreUnchanged DEF Orderly, Repairable, BootReadable, AtGap
  <2>6. CASE k < 5
    <3>1. pc' = "verify" /\ k' = k + 1
      BY <1>1, <2>2, <2>6, SixModules DEF NextVerified
    <3>2. \A j \in 1 .. k' - 1 : Accepted(hdr', Modules[j], unjudged')
      BY <2>1, <2>3, <2>4, <3>1
    <3>3. k' <= 5
      BY <2>1, <2>6, <3>1
    <3> QED BY <1>1, <2>1, <2>3, <2>5, <3>1, <3>2, <3>3
        DEF Orderly, CommandState, Updating, Writing
  <2>7. CASE k = 5
    <3>1. pc' = "header" /\ k' = 1
      BY <1>1, <2>2, <2>7, SixModules DEF NextVerified
    <3>2. \A m \in ModuleSet \ {"UE"} : Accepted(hdr', m, unjudged')
      <4> SUFFICES ASSUME NEW m \in ModuleSet \ {"UE"}
                   PROVE  Accepted(hdr, m, unjudged')
        BY <2>3
      <4>1. PICK j \in 1 .. 6 : Modules[j] = m
        BY ModuleFacts
      <4>2. j \in 1 .. k
        BY <4>1, <2>7, ModuleFacts
      <4> QED BY <4>1, <4>2, <2>4
    <3> QED BY <1>1, <2>1, <2>3, <2>5, <3>1, <3>2
        DEF Orderly, CommandState, Updating, Writing
  <2> QED BY <2>1, <2>6, <2>7
<1> QED BY <1>2, <1>3

LEMMA WriteHeaderOrderly ==
  ASSUME TypeOK, Basics, Orderly, WriteHeader
  PROVE  Orderly'
<1>1. /\ pc = "header" /\ pc' = "read" /\ header' = file
      /\ UNCHANGED <<file, hdr, k, chunk, buf, single, gap, unjudged>>
      /\ k = 1 /\ chunk = 1 /\ file = hdr /\ file \in Images /\ "header" \notin Damaged[hdr]
      /\ \A m \in ModuleSet \ {"UE"} : Accepted(hdr, m, unjudged)
  BY DEF WriteHeader, locals, past, Orderly, CommandState, Updating, Basics
<1>2. \A m \in ModuleSet, c \in 1 .. 2 : part'[m][c] \in {part[m][c], Junk}
  <2>1. "BOOT" \in ModuleSet /\ Junk \in Data
    BY DEF ModuleSet, Data
  <2> QED BY <2>1, PartWritten DEF WriteHeader, TypeOK
<1>3. StoreSound'
  BY <1>1, <1>2, ImagesAssumption DEF Orderly, StoreSound, Accepted
<1>4. Repairable' /\ BootReadable'
  BY <1>1, ImagesAssumption DEF Repairable, BootReadable, AtGap
<1>5. CommandState'
  BY <1>1 DEF CommandState, Updating, Writing
<1> QED BY <1>3, <1>4, <1>5 DEF Orderly

LEMMA ReadOrderly ==
  ASSUME TypeOK, Orderly, ReadModule
  PROVE  Orderly'
<1>1. /\ pc = "read" /\ file = hdr
      /\ UNCHANGED <<header, part, file, single, gap, unjudged>>
  BY DEF ReadModule, Orderly, CommandState, Updating, Writing, store, past
<1>2. /\ pc' = "write" /\ chunk' = 1 /\ buf' = hdr /\ UNCHANGED <<hdr, k>>
  BY <1>1 DEF ReadModule
<1>3. BootReadable'
  BY <1>1, <1>2 DEF Orderly, CommandState, BootReadable, AtGap
<1>4. CommandState'
  BY <1>1, <1>2, StoreUnchanged DEF Orderly, CommandState, Updating, Writing
<1> QED BY <1>1, <1>3, <1>4, StoreUnchanged DEF Orderly, Repairable

(* A module is on the eMMC and the loop goes on.                           *)
LEMMA NextOrderly ==
  ASSUME TypeOK, TypeOK', Orderly, pc \in Writing, NextModule,
         UNCHANGED <<header, file, hdr, unjudged>>, \A j \in 1 .. k : Holds(Modules[j], hdr)'
  PROVE  CommandState' /\ ~AtGap'
<1>1. /\ file = hdr /\ header = hdr /\ "header" \notin Damaged[hdr]
      /\ \A m \in ModuleSet \ {"UE"} : Accepted(hdr, m, unjudged)
  BY DEF Orderly, CommandState, Updating
<1>2. k \in 1 .. 6
  BY SixModules DEF TypeOK
<1>3. CASE k < 6
  <2>1. pc' = "read" /\ k' = k + 1
    BY <1>3, SixModules DEF NextModule
  <2>2. \A j \in 1 .. k' - 1 : Holds(Modules[j], hdr)'
    BY <1>2, <2>1
  <2>3. k' # 1
    BY <1>2, <2>1
  <2> QED BY <1>1, <2>1, <2>2, <2>3 DEF CommandState, Updating, Writing, AtGap
<1>4. CASE k = 6
  <2>1. pc' = "done" /\ k' = 6
    BY <1>4, SixModules DEF NextModule
  <2>2. Holds("UE", hdr)'
    BY <1>4, ModuleFacts
  <2>3. \A j \in 1 .. k' - 1 : Holds(Modules[j], hdr)'
    BY <1>4, <2>1
  <2> QED BY <1>1, <2>1, <2>2, <2>3 DEF CommandState, Updating, Writing, AtGap
<1> QED BY <1>2, <1>3, <1>4

LEMMA WriteChunkOrderly ==
  ASSUME TypeOK, TypeOK', Basics, Orderly, WriteChunk
  PROVE  Orderly'
<1>1. /\ pc = "write" /\ buf = hdr /\ file = hdr /\ header = hdr /\ hdr \in Images
      /\ UNCHANGED <<header, file, single, gap, unjudged>>
      /\ k \in 1 .. 6 /\ chunk \in 1 .. 2
      /\ \A m \in ModuleSet \ {"UE"} : Accepted(hdr, m, unjudged)
      /\ \A j \in 1 .. k - 1 : Holds(Modules[j], hdr)
      /\ chunk = 2 => part[Module][1] = hdr
  BY SixModules
  DEF WriteChunk, Orderly, CommandState, Updating, Writing, Basics, TypeOK, past
<1>2. Module \in ModuleSet
  BY <1>1, ModuleFacts DEF Module
<1>3. part \in [ModuleSet -> [1 .. 2 -> Data]] /\ part' \in [ModuleSet -> [1 .. 2 -> Data]]
  BY DEF TypeOK
<1>4. /\ part'[Module][chunk] = hdr
      /\ \A m \in ModuleSet, c \in 1 .. 2 :
            m # Module \/ c # chunk => part'[m][c] = part[m][c]
  BY <1>1, <1>2, <1>3, PartWritten DEF WriteChunk, Data
<1>5. StoreSound'
  <2> SUFFICES ASSUME NEW m \in ModuleSet \ {"UE"}, NEW c \in 1 .. 2
               PROVE  Accepted(part'[m][c], m, unjudged')
    BY DEF StoreSound
  <2>1. CASE m = Module /\ c = chunk
    BY <1>1, <1>4, <2>1 DEF Accepted
  <2>2. CASE ~(m = Module /\ c = chunk)
    BY <1>1, <1>4, <2>2 DEF Orderly, StoreSound
  <2> QED BY <2>1, <2>2
<1>6. Repairable'
  BY <1>1, ImagesAssumption DEF Repairable
<1>7. \A j \in 1 .. k - 1 : Holds(Modules[j], hdr)'
  <2> SUFFICES ASSUME NEW j \in 1 .. k - 1
               PROVE  part'[Modules[j]][1] = hdr' /\ part'[Modules[j]][2] = hdr'
    BY <1>1, <1>3, HoldsIsNext, ModuleFacts
  <2>1. j \in 1 .. 6 /\ j # k
    BY <1>1
  <2>2. Modules[j] \in ModuleSet /\ Modules[j] # Module
    BY <1>1, <2>1, ModuleFacts DEF Module
  <2>3. part[Modules[j]][1] = hdr /\ part[Modules[j]][2] = hdr
    BY <1>1, <1>3, <2>2, HoldsIs
  <2>4. hdr' = hdr
    BY <1>1, ImagesAssumption DEF WriteChunk, locals
  <2> QED BY <1>4, <2>2, <2>3, <2>4
<1>8. CASE chunk = 1
  <2>1. chunk' = 2 /\ UNCHANGED <<pc, hdr, k, buf>>
    BY <1>8 DEF WriteChunk
  <2>2. part'[Module'][1] = hdr'
    BY <1>1, <1>4, <1>8, <2>1 DEF Module
  <2>3. CommandState'
    BY <1>1, <1>7, <2>1, <2>2 DEF Orderly, CommandState, Updating, Writing
  <2>4. BootReadable'
    <3>1. CASE k = 1
      BY <1>1, <1>4, <1>8, <3>1, ImagesAssumption, ModuleFacts DEF BootReadable, Module
    <3>2. CASE k # 1
      <4>1. Module # "BOOT" /\ "BOOT" \in ModuleSet
        BY <1>1, <3>2, ModuleFacts DEF Module, ModuleSet
      <4>2. part'["BOOT"][1] = part["BOOT"][1]
        BY <1>4, <4>1
      <4> QED BY <1>1, <3>2, <4>2 DEF Orderly, BootReadable, AtGap
    <3> QED BY <3>1, <3>2
  <2> QED BY <1>5, <1>6, <2>3, <2>4 DEF Orderly
<1>9. CASE chunk = 2
  <2>1. BootReadable'
    <3>1. part'["BOOT"][1] = part["BOOT"][1]
      BY <1>4, <1>9 DEF ModuleSet
    <3>2. part["BOOT"][1] = Junk => gap
      BY <1>9 DEF Orderly, BootReadable, AtGap
    <3> QED BY <1>1, <3>1, <3>2 DEF BootReadable
  <2>2. hdr' = hdr
    BY <1>1, <1>9, ImagesAssumption DEF WriteChunk, locals
  <2>3. \A j \in 1 .. k : Holds(Modules[j], hdr)'
    <3>1. part'[Module][1] = hdr /\ part'[Module][2] = hdr
      BY <1>1, <1>2, <1>4, <1>9
    <3> SUFFICES ASSUME NEW j \in 1 .. k PROVE Holds(Modules[j], hdr)'
      OBVIOUS
    <3>2. CASE j = k
      <4>1. part'[Modules[j]][1] = hdr' /\ part'[Modules[j]][2] = hdr'
        BY <2>2, <3>1, <3>2 DEF Module
      <4> QED BY <1>1, <1>3, <4>1, HoldsIsNext, ModuleFacts
    <3>3. CASE j # k
      BY <1>1, <1>7, <3>3
    <3> QED BY <3>2, <3>3
  <2>4. CASE ~(Module = "BOOT" /\ upboot)
    <3>1. NextModule /\ pc \in Writing
      BY <1>1, <1>9, <2>4 DEF WriteChunk, Writing
    <3>2. CommandState' /\ ~AtGap'
      BY <1>1, <2>2, <2>3, <3>1, NextOrderly
    <3> QED BY <1>5, <1>6, <2>1, <3>2 DEF Orderly
  <2>5. CASE Module = "BOOT" /\ upboot
    <3>1. pc' = "erase" /\ UNCHANGED <<k, buf>> /\ k = 1
      <4>1. k = 1
        BY <1>1, <2>5, ModuleFacts DEF Module
      <4>2. buf # Junk /\ chunk # 1
        BY <1>1, <1>9, ImagesAssumption
      <4>3. pc' = "erase" /\ UNCHANGED locals
        BY <1>9, <2>5, <4>2 DEF WriteChunk
      <4> QED BY <4>1, <4>3 DEF locals
    <3>2. Holds("BOOT", hdr)'
      BY <1>1, <2>3, <3>1, ModuleFacts
    <3>3. CommandState'
      BY <1>1, <2>2, <3>1, <3>2 DEF Orderly, CommandState, Updating, Writing
    <3> QED BY <1>5, <1>6, <2>1, <3>3 DEF Orderly
  <2> QED BY <2>4, <2>5
<1> QED BY <1>1, <1>8, <1>9

LEMMA FlashOrderly ==
  ASSUME TypeOK, TypeOK', Orderly, Erase \/ Program
  PROVE  Orderly'
<1>1. /\ pc \in Writing /\ ~AtGap /\ k \in 1 .. 6
      /\ UNCHANGED <<header, part, file, hdr, buf, single, gap, unjudged>>
      /\ k = 1 /\ Holds("BOOT", hdr) /\ buf = hdr
  BY SixModules
  DEF Erase, Program, Writing, AtGap, past, TypeOK, Orderly, CommandState
<1>2. CommandState' /\ ~AtGap'
  <2>1. CASE pc' = "program" /\ k' = k
    BY <1>1, <2>1, StoreUnchanged DEF Orderly, CommandState, Updating, Writing, AtGap
  <2>2. CASE NextModule
    <3>1. \A j \in 1 .. k : Holds(Modules[j], hdr)'
      <4> SUFFICES ASSUME NEW j \in 1 .. k PROVE Holds(Modules[j], hdr)'
        OBVIOUS
      <4>1. Modules[j] = "BOOT"
        BY <1>1, ModuleFacts
      <4> QED BY <1>1, <4>1 DEF Holds
    <3> QED BY <1>1, <2>2, <3>1, NextOrderly
  <2> QED BY <2>1, <2>2 DEF Erase, Program
<1> QED BY <1>1, <1>2, StoreUnchanged DEF Orderly, Repairable, BootReadable

LEMMA FinishOrderly ==
  ASSUME TypeOK, Basics, Orderly, Finish
  PROVE  Orderly'
<1>1. /\ pc = "done" /\ header = hdr /\ hdr \in Images /\ "header" \notin Damaged[hdr]
      /\ k = 6 /\ Holds("UE", hdr) /\ \A j \in 1 .. k - 1 : Holds(Modules[j], hdr)
      /\ UNCHANGED <<header, part, single, gap, unjudged>>
  BY DEF Finish, Orderly, CommandState, Updating, Writing, Basics, store, past
<1>2. Whole
  <2> SUFFICES ASSUME NEW m \in ModuleSet PROVE Holds(m, header)
    BY <1>1 DEF Whole
  <2>1. PICK j \in 1 .. 6 : Modules[j] = m
    BY ModuleFacts
  <2>2. CASE j = 6
    BY <1>1, <2>1, <2>2, ModuleFacts
  <2>3. CASE j # 6
    BY <1>1, <2>1, <2>3
  <2> QED BY <2>2, <2>3
<1>3. CommandState' /\ ~AtGap'
  BY Returned DEF Finish
<1>4. ~AtGap
  BY <1>1 DEF AtGap
<1> QED BY <1>1, <1>2, <1>3, <1>4, StoreUnchanged DEF Orderly, Repairable, BootReadable

LEMMA StartModuleOrderly ==
  ASSUME Orderly, NEW m \in Single, NEW i \in Images, StartModule(m, i)
  PROVE  Orderly'
<1>1. /\ pc = "idle" /\ ~AtGap
      /\ UNCHANGED <<header, part, file, gap, unjudged>>
  BY DEF StartModule, AtGap, store
<1>2. CASE ~PassesCrc(i, m, i)
  BY <1>1, <1>2, GaveUpOrderly DEF StartModule, Fail
<1>3. CASE PassesCrc(i, m, i)
  <2>1. pc' = "mwrite" /\ single' /\ buf' = i /\ Modules[k'] = m
    BY <1>3, NumberOf DEF StartModule
  <2>2. CommandState'
    BY <1>3, <2>1 DEF CommandState, Updating, Writing, Module, PassesCrc, Accepted
  <2> QED BY <1>1, <2>1, <2>2, StoreUnchanged DEF Orderly, Repairable, BootReadable, AtGap
<1> QED BY <1>2, <1>3

LEMMA WriteModuleChunkOrderly ==
  ASSUME TypeOK, Orderly, WriteModuleChunk
  PROVE  Orderly'
<1>1. /\ pc = "mwrite" /\ single /\ buf \in Images /\ Accepted(buf, Module, unjudged) /\ ~AtGap
      /\ UNCHANGED <<single, gap, unjudged>> /\ Module \in ModuleSet
  BY ModuleFacts, SixModules
  DEF WriteModuleChunk, Orderly, CommandState, AtGap, past, TypeOK, Module
<1>2. /\ part'[Module][chunk] = buf
      /\ \A m \in ModuleSet, c \in 1 .. 2 :
            m # Module \/ c # chunk => part'[m][c] = part[m][c]
  BY <1>1, PartWritten DEF WriteModuleChunk, TypeOK
<1>3. StoreSound'
  <2> SUFFICES ASSUME NEW m \in ModuleSet \ {"UE"}, NEW c \in 1 .. 2
               PROVE  Accepted(part'[m][c], m, unjudged')
    BY DEF StoreSound
  <2>1. CASE m = Module /\ c = chunk
    BY <1>1, <1>2, <2>1 DEF Accepted
  <2>2. CASE ~(m = Module /\ c = chunk)
    BY <1>1, <1>2, <2>2 DEF Orderly, StoreSound
  <2> QED BY <2>1, <2>2
<1>4. BootReadable'
  <2>1. part'["BOOT"][1] \in {part["BOOT"][1], buf}
    BY <1>2 DEF ModuleSet
  <2> QED BY <1>1, <2>1, ImagesAssumption DEF Orderly, BootReadable
<1>5. CommandState'
  <2>1. CASE chunk = 1
    BY <1>1, <2>1 DEF WriteModuleChunk, CommandState, Updating, Writing, Module
  <2> QED BY <2>1, Returned DEF WriteModuleChunk
<1> QED BY <1>1, <1>3, <1>4, <1>5 DEF Orderly, Repairable

(* Wherever a command is broken off, the header of BOOT can have become    *)
(* unreadable only in the gap.                                             *)
LEMMA BrokenOffOrderly ==
  ASSUME TypeOK, Basics, Orderly, pc # "idle", HalfWritten, Gap,
         NEW res, Return(res), UNCHANGED <<file, single, unjudged>>
  PROVE  Orderly'
<1>1. part \in [ModuleSet -> [1 .. 2 -> Data]] /\ Module \in ModuleSet /\ "BOOT" \in ModuleSet
      /\ Junk \in Data /\ chunk \in 1 .. 2 /\ k \in 1 .. 6
  BY ModuleFacts, SixModules DEF TypeOK, Module, ModuleSet, Data
<1>2. /\ \A m \in ModuleSet, c \in 1 .. 2 : part'[m][c] \in {part[m][c], Junk}
      /\ part'["BOOT"][1] = part["BOOT"][1] \/ InGap
  <2>1. CASE part' = part
    BY <2>1
  <2>2. CASE pc = "header" /\ part' = [part EXCEPT !["BOOT"][1] = Junk]
    BY <1>1, <2>2, PartWritten DEF InGap
  <2>3. CASE pc \in {"write", "mwrite"} /\ part' = [part EXCEPT ![Module][chunk] = Junk]
    <3>1. \A m \in ModuleSet, c \in 1 .. 2 :
             part'[m][c] = IF m = Module /\ c = chunk THEN Junk ELSE part[m][c]
      BY <1>1, <2>3, PartWritten
    <3> QED BY <1>1, <2>3, <3>1 DEF InGap
  <2> QED BY <2>1, <2>2, <2>3 DEF HalfWritten, store
<1>3. StoreSound'
  BY <1>1, <1>2, ImagesAssumption DEF Orderly, StoreSound, Accepted
<1>4. Repairable'
  BY ImagesAssumption DEF Repairable, TypeOK, Basics, Orderly, CommandState, Updating, Writing
<1>5. AtGap => InGap
  BY ModuleFacts DEF AtGap, InGap, Module
<1>6. BootReadable'
  BY <1>2, <1>5 DEF Gap, Orderly, BootReadable
<1> QED BY <1>3, <1>4, <1>6, Returned DEF Orderly

LEMMA FaultOrderly ==
  ASSUME TypeOK, Basics, Orderly, Fault
  PROVE  Orderly'
  BY BrokenOffOrderly DEF Fault, Fail

LEMMA CutOrderly ==
  ASSUME TypeOK, Basics, Orderly, Cut
  PROVE  Orderly'
  BY BrokenOffOrderly DEF Cut

LEMMA StutterOrderly ==
  ASSUME Orderly, UNCHANGED vars
  PROVE  Orderly'
  BY StoreUnchanged DEF Orderly, CommandState, Repairable, BootReadable, AtGap,
     Updating, Writing, Module, vars, store, locals, counts, past

(* Nothing makes a replaced file an undisturbed one again.                 *)
LEMMA RacedStays ==
  ASSUME raced, [Next]_vars
  PROVE  raced'
  BY DEF Next, Command, UpdateStep, Upload, StartUpdate, StartModule, VerifyModule,
     WriteHeader, ReadModule, WriteChunk, Erase, Program, Finish, WriteModuleChunk,
     Fault, Cut, past, vars

LEMMA StepStore ==
  ASSUME StoreInv, [Next]_vars
  PROVE  StoreInv'
<1>1. TypeOK /\ Basics /\ TypeOK' /\ Basics'
  BY StepTypes DEF StoreInv
<1>2. CASE raced
  BY <1>1, <1>2, RacedStays DEF StoreInv
<1>3. CASE ~raced /\ ~raced'
  <2>1. Orderly
    BY <1>3 DEF StoreInv
  <2>2. Orderly'
    BY <1>1, <1>3, <2>1, UploadOrderly, StartUpdateOrderly, StartModuleOrderly,
       VerifyOrderly, WriteHeaderOrderly, ReadOrderly, WriteChunkOrderly,
       FlashOrderly, FinishOrderly, WriteModuleChunkOrderly, FaultOrderly,
       CutOrderly, StutterOrderly
    DEF Next, Command, UpdateStep
  <2> QED BY <1>1, <2>2 DEF StoreInv
<1> QED BY <1>1, <1>2, <1>3 DEF StoreInv

LEMMA InitStore ==
  ASSUME DeliveredSound, Init
  PROVE  StoreInv
  BY InitTypes, InitOrderly DEF StoreInv

-----------------------------------------------------------------------------
(* The flash, when nothing was ever disturbed.                             *)
LEMMA InitFlash ==
  ASSUME DeliveredSound, Init
  PROVE  FlashKnown
<1>1. Whole
  <2>1. \A m \in ModuleSet : part[m][1] = Factory /\ part[m][2] = Factory
    BY DEF Init
  <2> QED BY <2>1, InitTypes, HoldsIs, ImagesAssumption
       DEF Init, Whole, DeliveredSound, TypeOK
<1> QED BY <1>1 DEF Init, FlashKnown

LEMMA NextFlash ==
  ASSUME TypeOK, NextModule, UNCHANGED hdr, BootVersion[qspi'] = BootVersion[hdr]
  PROVE  FlashKnown'
<1>1. pc' \in {"read", "done"}
  BY DEF NextModule
<1> QED BY <1>1 DEF FlashKnown

LEMMA UpdateFlash ==
  ASSUME TypeOK, TypeOK', Basics, Orderly, UpdateStep, Calm', Calm, FlashKnown
  PROVE  FlashKnown'
<1>1. CASE VerifyModule
  <2>1. pc = "verify" /\ UNCHANGED store /\ Whole' /\ BootVersion[qspi'] = BootVersion[header']
    BY <1>1, StoreUnchanged DEF VerifyModule, FlashKnown, store
  <2>2. CASE Fail
    BY <2>1, <2>2 DEF Fail, Return, FlashKnown
  <2>3. CASE ~Fail
    <3>1. /\ file = hdr /\ hdr' = hdr /\ part["BOOT"][1] = header /\ k \in 1 .. 5
          /\ pc' \in {"verify", "header"}
      <4>1. Holds("BOOT", header) /\ "BOOT" \in ModuleSet
        BY <2>1 DEF FlashKnown, Whole, ModuleSet
      <4>2. part["BOOT"][1] = header
        BY <4>1, HoldsIs DEF TypeOK
      <4> QED BY <1>1, <2>1, <2>3, <4>2, SixModules
           DEF VerifyModule, NextVerified, Orderly, CommandState, Updating, TypeOK
    <3>2. upboot' = IF Module = "BOOT"
                    THEN BootVersion[file] # BootVersion[part["BOOT"][1]]
                    ELSE upboot
      BY <1>1, <2>3 DEF VerifyModule, NewBoot
    <3>3. CASE k = 1
      <4>1. upboot' = (BootVersion[hdr'] # BootVersion[header'])
        BY <2>1, <3>1, <3>2, <3>3, ModuleFacts DEF Module, store
      <4> QED BY <2>1, <3>1, <4>1 DEF FlashKnown
    <3>4. CASE k # 1
      <4>1. upboot' = upboot
        BY <3>1, <3>2, <3>4, ModuleFacts DEF Module
      <4>2. upboot = (BootVersion[hdr] # BootVersion[header])
        BY <2>1, <3>1, <3>4 DEF FlashKnown
      <4>3. header' = header /\ hdr' = hdr
        BY <2>1, <3>1 DEF store
      <4> QED BY <2>1, <3>1, <4>1, <4>2, <4>3 DEF FlashKnown
    <3> QED BY <3>3, <3>4
  <2> QED BY <2>2, <2>3
<1>2. CASE WriteHeader
  <2>1. /\ pc = "header" /\ pc' = "read" /\ k' = 1 /\ hdr' = hdr
        /\ qspi' = qspi /\ upboot' = upboot
    BY <1>2 DEF WriteHeader, locals, Orderly, CommandState
  <2>2. /\ upboot = (BootVersion[hdr] # BootVersion[header])
        /\ BootVersion[qspi] = BootVersion[header]
    BY <2>1 DEF FlashKnown
  <2> QED BY <2>1, <2>2 DEF FlashKnown
<1>3. CASE ReadModule
  <2>1. pc = "read" /\ file = hdr
    BY <1>3 DEF ReadModule, Orderly, CommandState, Updating, Writing
  <2>2. pc' = "write" /\ UNCHANGED <<hdr, k, upboot, qspi>>
    BY <1>3, <2>1 DEF ReadModule, store
  <2> QED BY <2>1, <2>2 DEF FlashKnown
<1>4. CASE WriteChunk
  <2>1. pc = "write" /\ buf = hdr /\ hdr \in Images /\ qspi' = qspi /\ k \in 1 .. 6
    BY <1>4, SixModules
    DEF WriteChunk, Orderly, CommandState, Updating, Writing, Basics, TypeOK
  <2>2. BootVersion[qspi] = BootVersion[hdr] \/ (k = 1 /\ upboot)
    BY <2>1 DEF FlashKnown
  <2>3. CASE chunk = 1
    <3>1. UNCHANGED <<pc, hdr, k, upboot>>
      BY <1>4, <2>3 DEF WriteChunk
    <3> QED BY <2>1, <2>2, <3>1 DEF FlashKnown
  <2>4. CASE chunk # 1 /\ Module = "BOOT" /\ upboot
    <3>1. chunk = 2 /\ buf # Junk
      BY <2>1, <2>4, ImagesAssumption DEF TypeOK
    <3>2. pc' = "erase"
      BY <1>4, <2>4, <3>1 DEF WriteChunk
    <3> QED BY <3>2 DEF FlashKnown
  <2>5. CASE chunk # 1 /\ ~(Module = "BOOT" /\ upboot)
    <3>1. chunk = 2
      BY <2>5 DEF TypeOK
    <3>2. NextModule /\ hdr' = hdr
      BY <1>4, <2>5, <3>1 DEF WriteChunk
    <3>3. BootVersion[qspi] = BootVersion[hdr]
      BY <2>1, <2>2, <2>5, ModuleFacts DEF Module
    <3> QED BY <2>1, <3>2, <3>3, NextFlash
  <2> QED BY <2>3, <2>4, <2>5
<1>5. CASE Erase
  <2>1. faults' # faults + 1
    BY DEF Calm, Basics
  <2>2. pc' = "program"
    BY <1>5, <2>1 DEF Erase
  <2> QED BY <2>2 DEF FlashKnown
<1>6. CASE Program
  <2>1. faults' # faults + 1
    BY DEF Calm, Basics
  <2>2. qspi' = buf /\ NextModule /\ hdr' = hdr /\ buf = hdr
    BY <1>6, <2>1 DEF Program, Orderly, CommandState
  <2> QED BY <2>2, NextFlash
<1>7. CASE Finish
  <2>1. pc = "done" /\ pc' = "idle" /\ UNCHANGED store /\ k = 6 /\ header = hdr
    BY <1>7 DEF Finish, Return, Orderly, CommandState, Writing
  <2>2. BootVersion[qspi] = BootVersion[header]
    BY <2>1 DEF FlashKnown
  <2>3. Whole
    <3>1. Orderly'
      BY <1>7, FinishOrderly
    <3>2. file' = NoFile /\ ~single'
      BY <1>7 DEF Finish, Calm
    <3>3. Whole'
      BY <3>1, <3>2 DEF Orderly, Repairable
    <3> QED BY <2>1, <3>3, StoreUnchanged DEF store
  <2> QED BY <2>1, <2>2, <2>3, StoreUnchanged DEF FlashKnown, store
<1>8. CASE WriteModuleChunk
  BY <1>8 DEF WriteModuleChunk, Orderly, CommandState, Calm
<1> QED BY <1>1, <1>2, <1>3, <1>4, <1>5, <1>6, <1>7, <1>8 DEF UpdateStep

LEMMA CalmBefore ==
  ASSUME Basics, [Next]_vars, Calm'
  PROVE  Calm /\ ~Fault /\ ~Cut
<1>1. ~Fault /\ ~Cut
  BY DEF Fault, Cut, Calm, Basics
<1>2. ~raced
  BY RacedStays DEF Calm
<1>3. ~single
  <2>1. single => single'
    BY <1>1 DEF Next, Command, UpdateStep, Upload, StartUpdate, StartModule,
       VerifyModule, WriteHeader, ReadModule, WriteChunk, Erase, Program, Finish,
       WriteModuleChunk, past, vars
  <2> QED BY <2>1 DEF Calm
<1>4. cuts' = cuts /\ faults' \in {faults, faults + 1}
  BY <1>1 DEF Next, Command, UpdateStep, Upload, StartUpdate, StartModule,
       VerifyModule, WriteHeader, ReadModule, WriteChunk, Erase, Program, Finish,
       WriteModuleChunk, counts, vars
<1> QED BY <1>1, <1>2, <1>3, <1>4 DEF Calm, Basics

LEMMA StepFlash ==
  ASSUME IInv, [Next]_vars, Calm'
  PROVE  FlashKnown'
<1>1. TypeOK /\ Basics /\ Orderly /\ Calm /\ FlashKnown /\ ~Fault /\ ~Cut /\ TypeOK'
  BY CalmBefore, StepTypes DEF IInv, StoreInv, Calm
<1>2. CASE UpdateStep
  BY <1>1, <1>2, UpdateFlash
<1>3. ASSUME NEW i \in Images, Upload(i)
      PROVE  FlashKnown'
  BY <1>1, <1>3, StoreUnchanged DEF Upload, FlashKnown, store, locals
<1>4. ASSUME NEW shell \in {"loader", "app"}, StartUpdate(shell)
      PROVE  FlashKnown'
  <2>1. pc = "idle" /\ UNCHANGED store /\ pc' \in {"idle", "verify"} /\ k' = 1
    BY <1>4 DEF StartUpdate, Fail, Return
  <2> QED BY <1>1, <2>1, StoreUnchanged DEF FlashKnown, store
<1>5. ASSUME NEW m \in Single, NEW i \in Images, StartModule(m, i)
      PROVE  FlashKnown'
  <2>1. pc = "idle" /\ UNCHANGED store /\ pc' = "idle"
    BY <1>1, <1>5 DEF StartModule, Fail, Return, Calm
  <2> QED BY <1>1, <2>1, StoreUnchanged DEF FlashKnown, store
<1>6. CASE UNCHANGED vars
  BY <1>1, <1>6, StoreUnchanged DEF FlashKnown, vars, store, locals
<1> QED BY <1>1, <1>2, <1>3, <1>4, <1>5, <1>6 DEF Next, Command

-----------------------------------------------------------------------------
(* The inductive invariant, for every set of images of which the one the   *)
(* machine was delivered with is sound, every damage to the others, and    *)
(* any number of uploads, faults and power cuts.                           *)
THEOREM Invariance ==
  ASSUME DeliveredSound
  PROVE  Spec => []IInv
<1>1. Init => IInv
  BY InitStore, InitFlash DEF IInv
<1>2. IInv /\ [Next]_vars => IInv'
  BY StepStore, StepFlash DEF IInv
<1> QED BY <1>1, <1>2, PTL DEF Spec

(* No module with a wrong CRC reaches the eMMC (emmc_update_image verifies *)
(* all it will write, five modules, before its first write), unless the    *)
(* file is replaced under the command.                                     *)
THEOREM OnlySoundStored ==
  ASSUME DeliveredSound
  PROVE  Spec => []NothingDamagedStored
<1>1. IInv => NothingDamagedStored
  BY DEF IInv, StoreInv, Orderly, StoreSound, Accepted, NothingDamagedStored
<1> QED BY <1>1, Invariance, PTL

(* Wherever an update was cut short, the eMMC holds one image or the file  *)
(* is still there: it is removed last.                                     *)
THEOREM MixtureHasItsFile ==
  ASSUME DeliveredSound
  PROVE  Spec => []MixtureIsRepairable
<1>1. IInv => MixtureIsRepairable
  BY DEF IInv, StoreInv, Orderly, Repairable, Whole, MixtureIsRepairable
<1> QED BY <1>1, Invariance, PTL

(* The header of the BOOT module, without which no update starts, is lost  *)
(* only by an interruption between the first block of the image header and *)
(* the last of BOOT's first chunk.                                         *)
THEOREM BootLossHasItsCause ==
  ASSUME DeliveredSound
  PROVE  Spec => []BootLostOnlyInGap
<1>1. IInv => BootLostOnlyInGap
  BY DEF IInv, StoreInv, Orderly, BootReadable, AtGap, BootLostOnlyInGap
<1> QED BY <1>1, Invariance, PTL

(* After updates none of which was disturbed the boot flash holds the boot *)
(* version of the image on the eMMC (upboot_flag).                         *)
THEOREM FlashIsCurrent ==
  ASSUME DeliveredSound
  PROVE  Spec => []FlashFollows
<1>1. Init => Reported
  BY DEF Init, Reported
<1>2. Reported /\ [Next]_vars => Reported'
  BY DEF Reported, Next, Command, UpdateStep, Upload, StartUpdate, StartModule,
     VerifyModule, NextVerified, WriteHeader, ReadModule, WriteChunk, Erase, Program,
     Finish, WriteModuleChunk, Fault, Cut, Fail, Return, NextModule, locals, vars
<1>3. IInv /\ Reported => FlashFollows
  BY DEF IInv, Calm, FlashKnown, Reported, FlashFollows
<1> QED BY <1>1, <1>2, <1>3, Invariance, PTL DEF Spec

-----------------------------------------------------------------------------
(* The boot loader.                                                        *)

(* Where the A53 can be in each mode.                                      *)
ModeStep ==
  /\ mode = "boot" => step \in Booted \cup {"wait", "conf", "fill"}
  /\ mode = "shell" => step \in {"ready", "conf", "fill", "erase", "program"}
  /\ mode \in {"app", "dead", "other"} => step = "ready"
  /\ mode = "none" => step = "wait"

(* A checked version runs whole and sound.                                 *)
RunsWhole == \A m \in Booted :
               (running[m] # Off /\ running[m][1] \in Checked) =>
                  running[m][2] = running[m][1] /\ m \notin Damaged[running[m][1]]

RunInv == BootTypeOK /\ Basics /\ ModeStep /\ RunsWhole

(* The modules that main has started when it comes to a step.              *)
Begun == {m \in Booted : \/ m = "BIT28" /\ step \notin {"wait", "BIT28"}
                         \/ m = "CR50"  /\ step \in {"CR51", "conf", "fill", "CA53"}
                         \/ m = "CR51"  /\ step \in {"conf", "fill", "CA53"}}

(* They run what is on the eMMC: nothing is written there before the end.  *)
Loaded == mode = "boot" => \A m \in Begun : running[m] = part[m]

BootInv == RunInv /\ StoreInv /\ Loaded /\ DeadIsRepairable

-----------------------------------------------------------------------------
(* What the loader does beside the update commands: it may program the     *)
(* flash, fail or lose power, and changes nothing the commands rely on.    *)
Aside ==
  /\ UNCHANGED <<header, part, file, pc, where, locals, result, past>>
  /\ qspi' \in Data \cup {Erased} /\ faults' \in Nat /\ cuts' \in Nat
  /\ faults > 0 => faults' > 0

LEMMA UnchangedIsAside ==
  ASSUME TypeOK, Basics, UNCHANGED vars
  PROVE  Aside
  BY DEF Aside, vars, store, counts, past, TypeOK, Basics

LEMMA FlashIsAside ==
  ASSUME TypeOK, Basics, NEW to \in Data \cup {Erased}, NEW next, Flash(to, next)
  PROVE  Aside
  BY DEF Aside, Flash, TypeOK, Basics

LEMMA ShellIsAside ==
  ASSUME TypeOK, Basics, ShellStep
  PROVE  Aside
<1>1. CASE EraseBoot
  BY <1>1, FlashIsAside DEF EraseBoot
<1>2. CASE ProgramBoot
  <2>1. part["BOOT"][1] \in Data
    BY DEF TypeOK, ModuleSet
  <2> QED BY <1>2, <2>1, FlashIsAside DEF ProgramBoot
<1>3. CASE UNCHANGED vars
  BY <1>3, UnchangedIsAside
<1> QED BY <1>1, <1>2, <1>3 DEF ShellStep, LoadCommand, LoadBoot, ConfCommand, RemoveConf

(* Every step of the loader is a step of the update or Aside.              *)
LEMMA StepIsKnown ==
  ASSUME TypeOK, Basics, [BootNext]_bootVars
  PROVE  [Next]_vars \/ Aside
<1>1. CASE BootStep \/ CtrlC \/ OtherSystem \/ PowerCycle \/ UNCHANGED bootVars
  <2>1. UNCHANGED vars
    BY <1>1 DEF BootStep, EndWait, LoadStep, CheckConf, FillConf, CtrlC, OtherSystem,
                PowerCycle, bootVars
  <2> QED BY <2>1
<1>2. CASE ShellStep
  BY <1>2, ShellIsAside
<1>3. CASE InUpdate
  BY <1>3 DEF InUpdate, Next, Command
<1>4. CASE GoOnUpdating
  BY <1>4 DEF GoOnUpdating, Next
<1>5. CASE BootFault
  BY <1>5 DEF BootFault, Aside, store, TypeOK, Basics
<1>6. CASE PowerCut
  <2>1. CASE Cut
    BY <2>1 DEF Next
  <2>2. CASE ~Cut
    BY <1>6, <2>2 DEF PowerCut, Aside, TypeOK, Basics
  <2> QED BY <2>1, <2>2
<1> QED BY <1>1, <1>2, <1>3, <1>4, <1>5, <1>6 DEF BootNext

LEMMA AsideTypes ==
  ASSUME TypeOK, Basics, Aside
  PROVE  TypeOK' /\ Basics'
  BY DEF Aside, locals, past, TypeOK, Basics, Updating, Writing

LEMMA AsideStore ==
  ASSUME StoreInv, Aside
  PROVE  StoreInv'
<1>1. TypeOK' /\ Basics'
  BY AsideTypes DEF StoreInv
<1>2. Orderly => Orderly'
  BY StoreUnchanged DEF Aside, locals, past, Orderly, CommandState, Repairable,
     BootReadable, AtGap, Updating, Writing, Module
<1> QED BY <1>1, <1>2 DEF StoreInv, Aside, past

LEMMA BootStepStore ==
  ASSUME StoreInv, [BootNext]_bootVars
  PROVE  StoreInv'
  BY StepIsKnown, StepStore, AsideStore DEF StoreInv

-----------------------------------------------------------------------------
(* The steps of a command are taken while there is one.                    *)
LEMMA CommandRuns ==
  ASSUME UpdateStep \/ Fault \/ Cut
  PROVE  pc # "idle"
  BY DEF UpdateStep, VerifyModule, WriteHeader, ReadModule, WriteChunk, Erase, Program,
     Finish, WriteModuleChunk, Fault, Cut

LEMMA PowerOnRuns ==
  ASSUME PowerOn, pc' = "idle", TypeOK', ueconf' \in (Data \X Chunks) \cup {Absent, Empty},
         Basics'
  PROVE  RunInv'
<1>1. running' \in [Booted -> Chunks \cup {Off}] /\ \A m \in Booted : running'[m] = Off
  BY DEF PowerOn
<1> QED BY <1>1 DEF PowerOn, RunInv, BootTypeOK, ModeStep, RunsWhole

(* A module that is started is loadable.                                   *)
LEMMA StartRuns ==
  ASSUME TypeOK, running \in [Booted -> Chunks \cup {Off}], RunsWhole,
         NEW m \in Booted, Loadable(m), Start(m)
  PROVE  /\ running' \in [Booted -> Chunks \cup {Off}] /\ RunsWhole'
         /\ running'[m] = part[m] /\ \A n \in Booted \ {m} : running'[n] = running[n]
<1>1. m \in ModuleSet /\ part[m] \in Chunks
  BY DEF Booted, ModuleSet, TypeOK, Chunks
<1>2. /\ running' \in [Booted -> Chunks \cup {Off}] /\ running'[m] = part[m]
      /\ \A n \in Booted \ {m} : running'[n] = running[n]
  BY <1>1 DEF Start, Copy
<1>3. part[m][1] \in Checked =>
         part[m][2] = part[m][1] /\ m \notin Damaged[part[m][1]]
  BY DEF Loadable
<1> QED BY <1>2, <1>3 DEF RunsWhole

LEMMA BootStepRuns ==
  ASSUME RunInv, BootStep
  PROVE  RunInv'
<1>0. TypeOK /\ Basics /\ RunsWhole /\ running \in [Booted -> Chunks \cup {Off}]
  BY DEF RunInv, BootTypeOK
<1>1. UNCHANGED vars /\ TypeOK' /\ Basics'
  BY <1>0, StutterTypes DEF BootStep, EndWait, LoadStep, CheckConf, FillConf
<1>2. pc' = pc
  BY <1>1 DEF vars
<1>3. CASE EndWait
  BY <1>1, <1>2, <1>3
  DEF EndWait, Waiting, RunInv, BootTypeOK, ModeStep, RunsWhole, Booted
<1>4. CASE LoadStep
  <2>1. /\ mode = "boot" /\ step \in Booted /\ pc = "idle"
        /\ ueconf' = ueconf /\ ueconf \in (Data \X Chunks) \cup {Absent, Empty}
    BY <1>4 DEF LoadStep, Dead, RunInv, BootTypeOK
  <2>2. CASE Loadable(step) /\ Start(step) /\ step' = After[step]
    <3>1. running' \in [Booted -> Chunks \cup {Off}] /\ RunsWhole'
      BY <1>0, <2>1, <2>2, StartRuns
    <3>2. /\ mode' \in {"boot", "app"} /\ step' \in Booted \cup {"conf", "ready"}
          /\ mode' = "boot" => step' \in Booted \cup {"conf"}
          /\ mode' = "app" => step' = "ready"
      BY <2>1, <2>2 DEF Start, After, Booted
    <3> QED BY <1>1, <1>2, <2>1, <3>1, <3>2 DEF RunInv, BootTypeOK, ModeStep
  <2>3. CASE Dead
    BY <1>0, <1>1, <1>2, <2>1, <2>3 DEF Dead, RunInv, BootTypeOK, ModeStep, RunsWhole
  <2> QED BY <1>4, <2>2, <2>3 DEF LoadStep
<1>5. CASE CheckConf \/ FillConf
  <2>1. /\ step \in {"conf", "fill"} /\ mode \in {"boot", "shell"} /\ pc = "idle"
        /\ UNCHANGED <<mode, running>>
    BY <1>5 DEF CheckConf, FillConf, RunInv, BootTypeOK, ModeStep
  <2>2. UeData \in Data \X Chunks
    BY <1>0 DEF UeData, TypeOK, Chunks, ModuleSet
  <2>3. ueconf' \in (Data \X Chunks) \cup {Absent, Empty}
    BY <1>5, <2>2 DEF CheckConf, FillConf, RunInv, BootTypeOK
  <2>4. step' = "fill" \/ step' = (IF mode = "boot" THEN "CA53" ELSE "ready")
    BY <1>5 DEF CheckConf, FillConf, AfterConf
  <2> QED BY <1>0, <1>1, <1>2, <2>1, <2>3, <2>4
       DEF RunInv, BootTypeOK, ModeStep, RunsWhole, Booted
<1> QED BY <1>3, <1>4, <1>5 DEF BootStep

LEMMA ShellRuns ==
  ASSUME RunInv, ShellStep
  PROVE  RunInv'
<1>0. /\ TypeOK /\ Basics /\ RunsWhole /\ running \in [Booted -> Chunks \cup {Off}]
      /\ ueconf \in (Data \X Chunks) \cup {Absent, Empty}
  BY DEF RunInv, BootTypeOK
<1>1. TypeOK' /\ Basics' /\ pc' = pc
  BY <1>0, ShellIsAside, AsideTypes DEF Aside
<1>2. ASSUME NEW m \in Booted, LoadCommand(m)
      PROVE  RunInv'
  <2>1. /\ mode = "shell" /\ step = "ready" /\ pc = "idle"
        /\ UNCHANGED <<step, ueconf>> /\ mode' \in {"shell", "app"}
    BY <1>2 DEF LoadCommand, Prompt, Start
  <2>2. running' \in [Booted -> Chunks \cup {Off}] /\ RunsWhole'
    BY <1>0, <1>2, StartRuns DEF LoadCommand
  <2> QED BY <1>0, <1>1, <2>1, <2>2 DEF RunInv, BootTypeOK, ModeStep
<1>3. CASE LoadBoot \/ EraseBoot \/ ProgramBoot \/ ConfCommand
  <2>1. /\ mode = "shell" /\ pc = "idle" /\ UNCHANGED <<mode, running, ueconf>>
        /\ step' \in {"ready", "conf", "erase", "program"}
    BY <1>3 DEF LoadBoot, EraseBoot, ProgramBoot, ConfCommand, Flash, Prompt,
                RunInv, BootTypeOK
  <2> QED BY <1>0, <1>1, <2>1 DEF RunInv, BootTypeOK, ModeStep, RunsWhole
<1>4. CASE RemoveConf
  BY <1>0, <1>1, <1>4 DEF RemoveConf, RunInv, BootTypeOK, ModeStep, RunsWhole
<1> QED BY <1>2, <1>3, <1>4 DEF ShellStep

LEMMA UpdateRuns ==
  ASSUME RunInv, InUpdate \/ GoOnUpdating
  PROVE  RunInv'
<1>0. TypeOK /\ Basics /\ RunsWhole /\ UNCHANGED boot
  BY DEF RunInv, BootTypeOK, InUpdate, GoOnUpdating
<1>1. Next
  BY DEF InUpdate, GoOnUpdating, Next, Command
<1>2. TypeOK' /\ Basics'
  BY <1>0, <1>1, StepTypes
<1>3. pc' # "idle" => mode \in {"shell", "app"} /\ step = "ready"
  <2>1. CASE pc # "idle"
    BY <2>1 DEF RunInv, BootTypeOK
  <2>2. CASE pc = "idle" /\ pc' # "idle"
    <3>1. ASSUME NEW i \in Images, Upload(i)
          PROVE  FALSE
      BY <2>2, <3>1 DEF Upload
    <3>2. InUpdate /\ ~Fault
      BY <2>2, CommandRuns DEF GoOnUpdating
    <3>3. Prompt \/ mode = "app"
      BY <2>2, <3>2 DEF InUpdate
    <3> QED BY <3>3 DEF Prompt, RunInv, ModeStep
  <2> QED BY <2>1, <2>2
<1> QED BY <1>0, <1>2, <1>3 DEF boot, RunInv, BootTypeOK, ModeStep, RunsWhole

LEMMA OtherRuns ==
  ASSUME RunInv, CtrlC \/ OtherSystem \/ UNCHANGED bootVars
  PROVE  RunInv'
<1>0. TypeOK /\ Basics /\ UNCHANGED vars
  BY DEF RunInv, BootTypeOK, CtrlC, OtherSystem, bootVars
<1>1. TypeOK' /\ Basics' /\ pc' = pc
  BY <1>0, StutterTypes DEF vars
<1> QED BY <1>1 DEF CtrlC, OtherSystem, Waiting, bootVars, boot, RunInv, BootTypeOK,
                    ModeStep, RunsWhole

LEMMA FaultRuns ==
  ASSUME RunInv, BootFault
  PROVE  RunInv'
<1>0. /\ TypeOK /\ Basics /\ ueconf \in (Data \X Chunks) \cup {Absent, Empty}
  BY DEF RunInv, BootTypeOK
<1>1. Aside /\ pc' = pc
  BY <1>0 DEF BootFault, Aside, store, TypeOK, Basics
<1>2. TypeOK' /\ Basics'
  BY <1>0, <1>1, AsideTypes
<1>3. /\ pc = "idle" /\ running' = running /\ step' = "ready" /\ mode' \in {"dead", "shell"}
      /\ ueconf' \in (Data \X Chunks) \cup {Absent, Empty}
  BY <1>0 DEF BootFault, Dead, RunInv, BootTypeOK, Booted
<1> QED BY <1>1, <1>2, <1>3 DEF RunInv, BootTypeOK, ModeStep, RunsWhole

LEMMA PowerRuns ==
  ASSUME RunInv, PowerCycle \/ PowerCut
  PROVE  RunInv'
<1>0. /\ TypeOK /\ Basics /\ ueconf \in (Data \X Chunks) \cup {Absent, Empty}
  BY DEF RunInv, BootTypeOK
<1>1. TypeOK' /\ Basics' /\ PowerOn
  BY <1>0, StepIsKnown, StepTypes, AsideTypes DEF BootNext, PowerCycle, PowerCut
<1>2. UeData \in Data \X Chunks
  BY <1>0 DEF UeData, TypeOK, Chunks, ModuleSet
<1>3. pc' = "idle" /\ ueconf' \in (Data \X Chunks) \cup {Absent, Empty}
  BY <1>0, <1>2 DEF PowerCycle, PowerCut, Cut, Return, vars
<1> QED BY <1>1, <1>3, PowerOnRuns

LEMMA StepRuns ==
  ASSUME RunInv, [BootNext]_bootVars
  PROVE  RunInv'
  BY BootStepRuns, ShellRuns, UpdateRuns, OtherRuns, FaultRuns, PowerRuns DEF BootNext

LEMMA InitRuns == BootInit => RunInv
<1> SUFFICES ASSUME BootInit PROVE RunInv
  OBVIOUS
<1>1. running \in [Booted -> Chunks \cup {Off}] /\ \A m \in Booted : running[m] = Off
  BY DEF BootInit
<1>2. pc = "idle"
  BY DEF BootInit, Init
<1> QED BY <1>1, <1>2, InitTypes DEF BootInit, RunInv, BootTypeOK, ModeStep, RunsWhole

(* Nothing of a checked version runs in part or with a wrong CRC, whatever *)
(* the images, the delivered one included, and whatever was interrupted.   *)
THEOREM RunsOnlyWhole == BootSpec => []TornNeverRuns
<1>1. RunInv /\ [BootNext]_bootVars => RunInv'
  BY StepRuns
<1>2. RunInv => TornNeverRuns
  BY DEF RunInv, RunsWhole, TornNeverRuns
<1> QED BY <1>1, <1>2, InitRuns, PTL DEF BootSpec

-----------------------------------------------------------------------------
(* With a whole image on the eMMC, its modules are loadable.               *)
LEMMA WholeLoads ==
  ASSUME TypeOK, Whole, StoreSound, NEW m \in Booted
  PROVE  Loadable(m)
<1>1. m \in ModuleSet \ {"UE"}
  BY DEF Booted, ModuleSet
<1>2. part[m][1] = header /\ part[m][2] = header
  BY <1>1, HoldsIs DEF Whole, TypeOK
<1> QED BY <1>1, <1>2
     DEF Loadable, HeaderValid, ImageHeaderValid, ModuleHeaderValid, Whole, StoreSound, Accepted, Booted

(* main has returned: nothing but the power changes that.                  *)
LEMMA DeadRests ==
  ASSUME RunInv, mode = "dead", mode' = "dead", [BootNext]_bootVars
  PROVE  UNCHANGED vars
<1>1. pc = "idle" /\ step = "ready" /\ step \notin Booted
  BY DEF RunInv, BootTypeOK, ModeStep, Booted
<1>2. ~InUpdate
  BY <1>1, CommandRuns DEF InUpdate, Prompt
<1>3. ~GoOnUpdating /\ ~Cut
  BY <1>1, CommandRuns DEF GoOnUpdating
<1>4. ~ShellStep
  <2>1. ~LoadBoot /\ ~EraseBoot /\ ~ProgramBoot /\ ~ConfCommand /\ ~RemoveConf
    BY <1>1 DEF LoadBoot, EraseBoot, ProgramBoot, ConfCommand, RemoveConf, Prompt
  <2>2. ~ \E m \in Booted : LoadCommand(m)
    BY DEF LoadCommand, Prompt
  <2> QED BY <2>1, <2>2 DEF ShellStep
<1>5. ~BootFault /\ ~PowerCut
  BY <1>1, <1>3 DEF BootFault, PowerCut
<1>6. BootStep \/ CtrlC \/ OtherSystem \/ PowerCycle \/ UNCHANGED bootVars
  BY <1>2, <1>3, <1>4, <1>5 DEF BootNext
<1> QED BY <1>6 DEF BootStep, EndWait, LoadStep, CheckConf, FillConf, CtrlC,
                    OtherSystem, PowerCycle, bootVars

(* main can only return from a step of its own.                            *)
LEMMA Dies ==
  ASSUME RunInv, mode # "dead", mode' = "dead", [BootNext]_bootVars
  PROVE  \/ /\ step \in Booted /\ ~Loadable(step) /\ UNCHANGED vars
         \/ faults' = faults + 1
<1>1. ~PowerCycle /\ ~PowerCut
  BY DEF PowerCycle, PowerCut, PowerOn
<1>2. ~InUpdate /\ ~GoOnUpdating /\ ~(UNCHANGED bootVars)
  BY DEF InUpdate, GoOnUpdating, bootVars, boot
<1>3. ~ShellStep /\ ~CtrlC /\ ~OtherSystem
  <2>1. ~LoadBoot /\ ~EraseBoot /\ ~ProgramBoot /\ ~ConfCommand /\ ~RemoveConf
        /\ ~CtrlC /\ ~OtherSystem
    BY DEF LoadBoot, EraseBoot, ProgramBoot, ConfCommand, RemoveConf, Flash, CtrlC,
           OtherSystem
  <2>2. ~ \E m \in Booted : LoadCommand(m)
    BY DEF LoadCommand, Prompt, Start
  <2> QED BY <2>1, <2>2 DEF ShellStep
<1>4. CASE BootStep
  <2>1. LoadStep /\ ~Start(step)
    BY <1>4 DEF BootStep, EndWait, CheckConf, FillConf, LoadStep, Start
  <2> QED BY <2>1 DEF LoadStep
<1>5. CASE BootFault
  BY <1>5 DEF BootFault
<1> QED BY <1>1, <1>2, <1>3, <1>4, <1>5 DEF BootNext

LEMMA StepDead ==
  ASSUME RunInv, StoreInv, DeadIsRepairable, [BootNext]_bootVars
  PROVE  DeadIsRepairable'
<1> SUFFICES ASSUME mode' = "dead"
             PROVE  faults' > 0 \/ file' # NoFile \/ raced' \/ single'
  BY DEF DeadIsRepairable
<1>1. CASE mode = "dead"
  BY <1>1, DeadRests DEF DeadIsRepairable, vars, counts, past
<1>2. CASE faults' = faults + 1
  BY <1>2 DEF RunInv, Basics
<1>3. CASE step \in Booted /\ ~Loadable(step) /\ UNCHANGED vars
  <2>1. ~Whole \/ raced
    BY <1>3, WholeLoads DEF StoreInv, Orderly
  <2>2. raced \/ single \/ file # NoFile
    BY <2>1 DEF StoreInv, Orderly, Repairable
  <2> QED BY <1>3, <2>2 DEF vars, past
<1> QED BY <1>1, <1>2, <1>3, Dies

-----------------------------------------------------------------------------
(* On the way of main the eMMC is not written, and what was started stays. *)
LEMMA BootingKeeps ==
  ASSUME RunInv, mode = "boot", [BootNext]_bootVars
  PROVE  \/ UNCHANGED <<vars, mode, running>> /\ EndWait
         \/ LoadStep
         \/ UNCHANGED <<vars, mode, running>> /\ (CheckConf \/ FillConf)
         \/ UNCHANGED bootVars
         \/ mode' \in {"shell", "other", "dead"} /\ ueconf' \in {ueconf, Absent, Empty}
         \/ PowerCut
<1>1. pc = "idle" /\ ~Prompt
  BY DEF RunInv, BootTypeOK, Prompt
<1>2. ~InUpdate /\ ~GoOnUpdating
  BY <1>1, CommandRuns DEF InUpdate, GoOnUpdating
<1>3. ~ShellStep
  <2>1. ~LoadBoot /\ ~EraseBoot /\ ~ProgramBoot /\ ~ConfCommand /\ ~RemoveConf
    BY <1>1 DEF LoadBoot, EraseBoot, ProgramBoot, ConfCommand, RemoveConf
  <2>2. ~ \E m \in Booted : LoadCommand(m)
    BY <1>1 DEF LoadCommand
  <2> QED BY <2>1, <2>2 DEF ShellStep
<1>4. ~PowerCycle
  BY DEF PowerCycle
<1>5. BootFault => mode' \in {"shell", "other", "dead"} /\ ueconf' \in {ueconf, Absent, Empty}
  BY DEF BootFault, Dead
<1>6. CtrlC \/ OtherSystem => mode' \in {"shell", "other", "dead"} /\ ueconf' = ueconf
  BY DEF CtrlC, OtherSystem
<1>7. /\ EndWait => UNCHANGED <<vars, mode, running>>
      /\ CheckConf /\ mode' = "boot" => UNCHANGED <<vars, mode, running>>
      /\ FillConf => UNCHANGED <<vars, mode, running>>
      /\ CheckConf => UNCHANGED <<vars, mode, running>>
  BY DEF EndWait, CheckConf, FillConf
<1> QED BY <1>2, <1>3, <1>4, <1>5, <1>6, <1>7 DEF BootNext, BootStep

(* What LoadStep has started when it succeeds.                             *)
LEMMA LoadStepLoads ==
  ASSUME RunInv, Loaded, LoadStep, mode' # "dead"
  PROVE  /\ UNCHANGED <<vars, ueconf>> /\ mode = "boot" /\ step \in Booted
         /\ mode' = IF step = "CA53" THEN "app" ELSE "boot"
         /\ step' = After[step]
         /\ \A m \in Begun \cup {step} : running'[m] = part[m]
<1>1. /\ Loadable(step) /\ Start(step) /\ step' = After[step]
      /\ UNCHANGED <<vars, ueconf>> /\ mode = "boot" /\ step \in Booted
  BY DEF LoadStep, Dead
<1>2. running'[step] = part[step] /\ \A n \in Booted \ {step} : running'[n] = running[n]
  BY <1>1, StartRuns DEF RunInv, BootTypeOK
<1>3. \A m \in Begun : m \in Booted /\ running[m] = part[m]
  BY <1>1 DEF Loaded, Begun
<1> QED BY <1>1, <1>2, <1>3 DEF Start

LEMMA StepLoaded ==
  ASSUME RunInv, Loaded, [BootNext]_bootVars
  PROVE  Loaded'
<1> SUFFICES ASSUME mode' = "boot", NEW m \in Begun'
             PROVE  running'[m] = part'[m]
  BY DEF Loaded
<1>0. m \in Booted
  BY DEF Begun
<1>1. CASE step' = "wait"
  BY <1>1 DEF Begun
<1>2. CASE step' # "wait"
  <2>1. ~PowerCycle /\ ~PowerCut
    BY <1>2 DEF PowerCycle, PowerCut, PowerOn
  <2>2. mode = "boot"
    <3> SUFFICES ASSUME mode # "boot" PROVE FALSE
      OBVIOUS
    <3>1. ~LoadStep /\ ~EndWait /\ ~CtrlC /\ ~OtherSystem
      BY DEF LoadStep, EndWait, CtrlC, OtherSystem, Waiting
    <3>2. ~CheckConf /\ ~FillConf /\ ~BootFault
      BY DEF CheckConf, FillConf, BootFault, Dead
    <3>3. ~InUpdate /\ ~GoOnUpdating /\ ~(UNCHANGED bootVars)
      BY DEF InUpdate, GoOnUpdating, bootVars, boot
    <3>4. ~LoadBoot /\ ~EraseBoot /\ ~ProgramBoot /\ ~ConfCommand /\ ~RemoveConf
      BY DEF LoadBoot, EraseBoot, ProgramBoot, ConfCommand, RemoveConf, Flash
    <3>5. ~ \E n \in Booted : LoadCommand(n)
      BY DEF LoadCommand, Prompt, Start
    <3> QED BY <2>1, <3>1, <3>2, <3>3, <3>4, <3>5 DEF BootNext, BootStep, ShellStep
  <2>3. CASE EndWait
    BY <2>3 DEF EndWait, Begun
  <2>4. CASE LoadStep
    <3>1. /\ part' = part /\ step \in Booted /\ step' = After[step] /\ step # "CA53"
          /\ \A n \in Begun \cup {step} : running'[n] = part[n]
      BY <2>4, LoadStepLoads DEF vars, store
    <3>2. m \in Begun \cup {step}
      BY <3>1, <1>0 DEF Begun, After, Booted
    <3> QED BY <3>1, <3>2
  <2>5. CASE UNCHANGED <<vars, mode, running>> /\ (CheckConf \/ FillConf)
    <3>1. step \in {"conf", "fill"} /\ part' = part
      BY <2>5 DEF CheckConf, FillConf, vars, store
    <3>2. m \in Begun
      BY <3>1, <1>0 DEF Begun, Booted
    <3> QED BY <2>2, <2>5, <3>1, <3>2 DEF Loaded
  <2>6. CASE UNCHANGED bootVars
    <3>1. m \in Begun
      BY <2>6 DEF Begun, bootVars, boot
    <3> QED BY <2>2, <2>6, <3>1 DEF Loaded, bootVars, boot, vars, store
  <2> QED BY <2>1, <2>2, <2>3, <2>4, <2>5, <2>6, BootingKeeps
<1> QED BY <1>1, <1>2

(* The inductive invariant of the whole.                                   *)
THEOREM BootInvariance ==
  ASSUME DeliveredSound
  PROVE  BootSpec => []BootInv
<1>1. BootInit => BootInv
  <2>1. BootInit => RunInv /\ StoreInv
    BY InitRuns, InitStore DEF BootInit
  <2>2. BootInit => Loaded /\ DeadIsRepairable
    BY DEF BootInit, Loaded, Begun, DeadIsRepairable
  <2> QED BY <2>1, <2>2 DEF BootInv
<1>2. BootInv /\ [BootNext]_bootVars => BootInv'
  BY StepRuns, BootStepStore, StepLoaded, StepDead DEF BootInv
<1> QED BY <1>1, <1>2, PTL DEF BootSpec

(* main returns, which only a power cycle cures, only after a read has     *)
(* failed or while the file that repairs the eMMC is still there, if the   *)
(* file is not replaced under a command and no module is written singly.   *)
THEOREM DeathIsRepairable ==
  ASSUME DeliveredSound
  PROVE  BootSpec => []DeadIsRepairable
<1>1. BootInv => DeadIsRepairable
  BY DEF BootInv
<1> QED BY <1>1, BootInvariance, PTL

(* main starts the modules one by one and never compares them; still an    *)
(* application that comes up while no update is pending runs one image on  *)
(* all cores, and ue.conf is made of one image.                            *)
THEOREM OneImage ==
  ASSUME DeliveredSound
  PROVE  BootSpec => OneImageStarts
<1> DEFINE Clean == file = NoFile /\ ~raced /\ ~single
           Comes == (mode = "boot" /\ mode' = "app") =>
                       \E i \in Images : \A m \in Booted : running'[m] = <<i, i>>
           Makes == (ueconf' # ueconf /\ ueconf' \notin {Absent, Empty}) =>
                       \E i \in Images : ueconf' = <<i, <<i, i>> >>
<1>1. ASSUME BootInv, Clean
      PROVE  header \in Images /\ \A m \in ModuleSet : part[m] = <<header, header>>
  <2>1. Whole
    BY <1>1 DEF BootInv, StoreInv, Orderly, Repairable
  <2>2. [c \in 1 .. 2 |-> header] = <<header, header>>
    OBVIOUS
  <2> QED BY <2>1, <2>2 DEF Whole, Holds
<1>2. ASSUME BootInv, Clean, [BootNext]_bootVars
      PROVE  Comes
  <2> SUFFICES ASSUME mode = "boot", mode' = "app"
               PROVE  \A m \in Booted : running'[m] = <<header, header>>
    BY <1>1, <1>2
  <2>1. LoadStep
    BY <1>2, BootingKeeps DEF BootInv, PowerCut, PowerOn, bootVars, boot
  <2>2. step = "CA53" /\ \A m \in Begun \cup {step} : running'[m] = part[m]
    BY <1>2, <2>1, LoadStepLoads DEF BootInv
  <2>3. \A m \in Booted : m \in Begun \cup {step} /\ m \in ModuleSet
    BY <2>2 DEF Booted, Begun, ModuleSet
  <2> QED BY <1>1, <1>2, <2>2, <2>3
<1>3. ASSUME BootInv, Clean, [BootNext]_bootVars
      PROVE  Makes
  <2> SUFFICES ASSUME ueconf' # ueconf, ueconf' \notin {Absent, Empty}
               PROVE  ueconf' = UeData
    BY <1>1, <1>2, <1>3 DEF UeData, ModuleSet
  <2>1. ~LoadBoot /\ ~EraseBoot /\ ~ProgramBoot /\ ~ConfCommand /\ ~RemoveConf
    BY DEF LoadBoot, EraseBoot, ProgramBoot, ConfCommand, RemoveConf, Flash
  <2>2. ~ \E m \in Booted : LoadCommand(m)
    BY DEF LoadCommand
  <2>3. ~InUpdate /\ ~GoOnUpdating /\ ~PowerCycle /\ ~CtrlC /\ ~OtherSystem
        /\ ~(UNCHANGED bootVars)
    BY DEF InUpdate, GoOnUpdating, PowerCycle, CtrlC, OtherSystem, bootVars, boot
  <2>4. ~EndWait /\ ~LoadStep /\ ~BootFault /\ ~CheckConf
    BY DEF EndWait, LoadStep, Dead, BootFault, CheckConf
  <2>5. FillConf \/ PowerCut
    BY <1>3, <2>1, <2>2, <2>3, <2>4 DEF BootNext, BootStep, ShellStep
  <2> QED BY <2>5 DEF FillConf, PowerCut
<1>4. BootInv /\ [BootNext]_bootVars =>
        [Clean => Comes /\ Makes]_bootVars
  BY <1>2, <1>3
<1> QED BY <1>4, BootInvariance, PTL DEF BootSpec, OneImageStarts
=============================================================================
