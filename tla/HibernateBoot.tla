---------------------------- MODULE HibernateBoot ----------------------------
(***************************************************************************)
(* Hibernation across boots: what HbStartResumeFromHibernate,              *)
(* HbContinueResumeFromHibernate (Hibernate.c) and EfiMain (Main.c) do     *)
(* with the NVRAM variables a hibernating system leaves, with power cuts   *)
(* at any moment. The operating system is external: it may hibernate,      *)
(* shut down, or lose power. What else a boot decides before the kernel is *)
(* started is in BootModes.                                                *)
(***************************************************************************)
EXTENDS Naturals

CONSTANTS
    MaxImages,  \* hibernations considered
    MaxCuts     \* power cuts considered

ASSUME BoundAssumption == MaxImages \in Nat /\ MaxCuts \in Nat

VARIABLES
    nvram,   \* boot-switch-vars, boot-signature, boot-image-key, boot-image:
             \* the hibernation that wrote them, 0 when absent
    disk,    \* the hibernation whose image is on the disk, 0 when none
    used,    \* "yes" when a system ran on the disk since the image was
             \* written; else "no", or "unkeyed" if it was written without key
    pc,      \* where the machine is
    shift,   \* "held" when the user asks for safe mode at this boot
    mode,    \* the boot mode bits "safe" and "hiber from fv"
    key,     \* HbpBootImageKey, 0 when none
    cuts

vars == <<nvram, disk, used, pc, shift, mode, key, cuts>>

Absent == 0
Loader == {"vars", "imagekey", "image", "resume", "reset", "hotkey", "unlock",
           "load"}
Running == {"os", "resumed"}
Places == Loader \cup Running \cup {"off", "failed"}
Images == 0 .. MaxImages
Modes == {"safe", "hiberfromfv"}

\* Type invariant of the NVRAM variables, the disk and the boot.
TypeOK ==
    /\ nvram \in [switchVars : Images, signature : Images, imageKey : Images,
                  bootImage : Images]
    /\ disk \in Images /\ key \in Images
    /\ used \in {"yes", "no", "unkeyed"} /\ shift \in {"held", "free"}
    /\ pc \in Places /\ mode \subseteq Modes /\ cuts \in 0 .. MaxCuts
    /\ pc \in {"image", "resume"} => key # Absent

Init ==
    /\ nvram = [switchVars |-> Absent, signature |-> Absent,
                imageKey |-> Absent, bootImage |-> Absent]
    /\ disk = 0 /\ used = "yes" /\ key = Absent
    /\ pc = "off" /\ shift = "free" /\ mode = {} /\ cuts = 0

-----------------------------------------------------------------------------
\* EfiMain starts with no boot mode set and comes to the hibernation check.
EfiMain ==
    /\ mode' = {} /\ key' = Absent
    /\ shift' \in {"held", "free"}
    /\ pc' = "vars"
    /\ UNCHANGED <<nvram, disk, used, cuts>>

PowerOn == pc \in {"off", "failed"} /\ EfiMain

\* ResetSystem, after a resume that failed.
ResetSystem == pc = "reset" /\ EfiMain

-----------------------------------------------------------------------------
\* Mutant: the variables survive the attempt.
DeleteVariable_Keep(name) == nvram' = nvram

\* HbStartResumeFromHibernate: not in safe mode; the variables of the newer
\* or of the older kind are read, and deleted before anything else is tried.
DeleteVariable(name) == nvram' = [nvram EXCEPT ![name] = Absent]

ReadVariables ==
    /\ pc = "vars"
    /\ IF "safe" \in mode
            \/ (nvram.switchVars = Absent /\ nvram.signature = Absent)
         THEN pc' = "hotkey" /\ UNCHANGED <<nvram, key>>
         ELSE IF nvram.switchVars # Absent
           THEN /\ key' = nvram.switchVars
                /\ DeleteVariable("switchVars")
                /\ pc' = "image"
           ELSE /\ DeleteVariable("signature")
                /\ pc' = "imagekey"
                /\ UNCHANGED key
    /\ UNCHANGED <<disk, used, shift, mode, cuts>>

ReadImageKey ==
    /\ pc = "imagekey"
    /\ IF nvram.imageKey = Absent
         THEN pc' = "hotkey" /\ UNCHANGED <<nvram, key>>
         ELSE /\ key' = nvram.imageKey
              /\ DeleteVariable("imageKey")
              /\ pc' = "image"
    /\ UNCHANGED <<disk, used, shift, mode, cuts>>

\* boot-image names the device and the offset. Any failure ends in a reset.
ImageNotFound ==
    /\ pc = "image"
    /\ pc' = "reset"
    /\ UNCHANGED <<nvram, disk, used, shift, mode, key, cuts>>

ImageFound ==
    /\ pc = "image"
    /\ nvram.bootImage # Absent
    /\ pc' = "resume"
    /\ UNCHANGED <<nvram, disk, used, shift, mode, key, cuts>>

\* The image is on a core storage volume whose key the SMC does not hold: the
\* boot goes on to unlock the volume.
ImageOnCoreStorage ==
    /\ pc = "image"
    /\ nvram.bootImage # Absent
    /\ mode' = mode \cup {"hiberfromfv"}
    /\ pc' = "hotkey"
    /\ UNCHANGED <<nvram, disk, used, shift, key, cuts>>

\* HbpContinueResumeFromHibernate returns only when it fails: its callers
\* reset the machine.
ResumeFails ==
    /\ pc = "resume"
    /\ pc' = "reset"
    /\ UNCHANGED <<nvram, disk, used, shift, mode, key, cuts>>

Resume ==
    /\ pc = "resume"
    /\ disk # 0
    /\ pc' = "resumed"
    /\ used' = "yes"
    /\ UNCHANGED <<nvram, disk, shift, mode, key, cuts>>

-----------------------------------------------------------------------------
BlDetectHotKey ==
    /\ pc = "hotkey"
    /\ mode' = IF shift = "held" /\ "hiberfromfv" \notin mode
                 THEN mode \cup {"safe"} ELSE mode
    /\ pc' = "unlock"
    /\ UNCHANGED <<nvram, disk, used, shift, key, cuts>>

\* The options ask for safe mode, or the user does when a panic is shown.
SetSafeMode ==
    /\ pc = "unlock"
    /\ mode' = mode \cup {"safe"}
    /\ UNCHANGED <<nvram, disk, used, pc, shift, key, cuts>>

\* The volume key is found and the resume continues, or the boot goes on.
FoundVolumeKey ==
    /\ pc = "unlock"
    /\ "hiberfromfv" \in mode
    /\ pc' = "resume"
    /\ UNCHANGED <<nvram, disk, used, shift, mode, key, cuts>>

NoVolumeKey ==
    /\ pc = "unlock"
    /\ pc' = "load"
    /\ UNCHANGED <<nvram, disk, used, shift, mode, key, cuts>>

StartKernel ==
    /\ pc = "load"
    /\ pc' = "os"
    /\ used' = "yes"
    /\ UNCHANGED <<nvram, disk, shift, mode, key, cuts>>

\* An error of EfiMain after the hibernation check returns to the firmware.
EfiMainFails ==
    /\ pc \in {"hotkey", "unlock", "load"}
    /\ pc' = "failed"
    /\ UNCHANGED <<nvram, disk, used, shift, mode, key, cuts>>

-----------------------------------------------------------------------------
\* The system writes its image and the variables of either kind, of the older
\* kind perhaps without the key. It deletes none: the key of an image before,
\* whose resume was cut short, may still be there.
Hibernate ==
    /\ pc \in Running
    /\ disk < MaxImages
    /\ disk' = disk + 1
    /\ \/ /\ nvram' = [nvram EXCEPT !.bootImage = disk', !.switchVars = disk']
          /\ used' = "no"
       \/ /\ nvram' = [nvram EXCEPT !.bootImage = disk', !.signature = disk',
                                    !.imageKey = disk']
          /\ used' = "no"
       \/ /\ nvram' = [nvram EXCEPT !.bootImage = disk', !.signature = disk']
          /\ used' = "unkeyed"
    /\ pc' = "off"
    /\ UNCHANGED <<shift, mode, key, cuts>>

ShutDown ==
    /\ pc \in Running
    /\ pc' = "off"
    /\ UNCHANGED <<nvram, disk, used, shift, mode, key, cuts>>

PowerCut ==
    /\ pc \in Loader \cup Running
    /\ cuts < MaxCuts
    /\ cuts' = cuts + 1
    /\ pc' = "off"
    /\ UNCHANGED <<nvram, disk, used, shift, mode, key>>

LoaderStep ==
    \/ ResetSystem \/ ReadVariables \/ ReadImageKey
    \/ ImageNotFound \/ ImageFound \/ ImageOnCoreStorage
    \/ ResumeFails \/ Resume
    \/ BlDetectHotKey \/ SetSafeMode \/ FoundVolumeKey \/ NoVolumeKey
    \/ StartKernel \/ EfiMainFails

Next == PowerOn \/ LoaderStep \/ Hibernate \/ ShutDown \/ PowerCut

Spec == Init /\ [][Next]_vars

\* The loader runs on while there is power.
FairSpec == Spec /\ WF_vars(LoaderStep)

-----------------------------------------------------------------------------
\* An image is resumed only while the disk is as the image knows it: no
\* system ran since it was written, be it started or resumed, whatever power
\* cuts and failed attempts lie between; and, if it was written with a key,
\* with that key and not the one of an image before it (Hibernate.c:956-1014:
\* the variables are deleted before the attempt).
StaleImageIsNotResumed ==
    [][pc # "resumed" /\ pc' = "resumed" =>
         used # "yes" /\ (used = "no" => key = disk)]_vars

\* A boot ends: in a system, back in the firmware, or by a power cut. A
\* resume that fails resets the machine at most once (Hibernate.c:1283-1284).
NoResetLoop == (pc \in Loader) ~> (pc \notin Loader)
=============================================================================
