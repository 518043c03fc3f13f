------------------------------ MODULE BootModes ------------------------------
(***************************************************************************)
(* What a boot decides between the hibernation check and the kernel, on    *)
(* top of HibernateBoot: the hot keys, the options and the command line of *)
(* the kernel (Options.c), the dialog after a panic and its log of panics  *)
(* (PanicDialog.c), the recovery system and the unlocking of the volume,   *)
(* in the order of EfiMain (Main.c). Panics of the running system are      *)
(* external: they leave a report in NVRAM, under a name for each piece.    *)
(***************************************************************************)
EXTENDS HibernateBoot, Sequences

CONSTANTS
    HotKeys,     \* the sets of keys that may be held
    OptionSets,  \* what one source of options may hold
    MaxPanics,   \* panics considered
    Gaps         \* seconds from one panic to the next

VARIABLES
    stage,   \* how far EfiMain has come, while pc = "unlock"
    flags,   \* the boot mode bits that HibernateBoot leaves out
    line,    \* kernelCommandLine
    info,    \* AAPL,PanicInfo000n
    log,     \* AAPL,PanicInfoLog
    clock,   \* seconds
    panics,  \* panics so far
    shown    \* the reports the dialog looked at, as [sum, time]

modeVars == <<flags, line>>
panicVars == <<info, log, clock, panics, shown>>
bootVars == <<vars, stage, modeVars, panicVars>>

Stages == {"root", "options", "checks", "panic", "recovery", "ready"}
Flags == {"aslr", "verbose", "single", "net", "recovery", "password",
          "notroot", "fromrecovery", "skippanic"}
Options == {"-x", "-s", "-v", "-no_panic_dialog", "slide=0", "slide=1",
            "srv=1"}
Key(option) == IF option \in {"slide=0", "slide=1"} THEN "slide" ELSE option

ASSUME OptionAssumption ==
    \A s \in OptionSets : /\ s \subseteq Options
                          /\ \A o, p \in s : Key(o) = Key(p) => o = p

NoLine == {"noline"}
NoInfo == [sum |-> 0, pieces |-> 0]
NoLog == [time |-> <<>>, index |-> 0, sum |-> 0]
LogSize == 5
LoopSeconds == 180
MaxPieces == 16

BootInit ==
    /\ Init
    /\ stage = "root" /\ flags = {} /\ line = NoLine
    /\ info = NoInfo /\ log = NoLog /\ clock = 0 /\ panics = 0 /\ shown = <<>>

-----------------------------------------------------------------------------
\* The boot mode as one set, as BlpBootMode holds it.
BootMode == mode \cup flags

BlSetBootMode(bits) == mode' = bits \cap Modes /\ flags' = bits \ Modes

\* Of the state of HibernateBoot, what setting the boot mode leaves alone.
hibernateVars == <<nvram, disk, used, shift, key, cuts>>

When(condition, bits) == IF condition THEN bits ELSE {}

\* BlDetectHotKey. A firmware password leaves only the way to the recovery
\* system, past PasswordUI.efi.
CommandKeys(bits, keys) ==
    (bits \cup When("V" \in keys, {"verbose"})
          \cup When("S" \in keys /\ "Minus" \notin keys, {"single", "verbose"}))
      \ When({"S", "Minus"} \subseteq keys, {"aslr"})

\* The way stays open when PasswordUI.efi returns with success, or ran before.
BlpRunPasswordUIEfi(bits, passwordUIRuns) ==
    bits \ When(~passwordUIRuns, {"recovery"})

HotKey(bits, keys, locked, passwordUIRuns) ==
    LET found == bits \cup When(locked, {"password"})
        asked == found \cup When({"R", "Command"} \subseteq keys, {"recovery"})
    IN CASE "hiberfromfv" \in found -> found
         [] "password" \in found /\ "hiberfromfv" \notin found ->
              BlpRunPasswordUIEfi(asked, passwordUIRuns)
         [] {"password", "hiberfromfv"} \cap found = {} ->
              IF keys \cap {"Shift", "Command", "Control", "Option"} = {"Shift"}
                THEN (asked \cup {"safe"}) \ {"aslr"}
                ELSE IF "Command" \in keys THEN CommandKeys(asked, keys)
                                           ELSE asked

\* BlpCopyArgs: an option is added unless its key is there already.
BlpCopyArgs(dst, src) ==
    dst \cup {o \in src : \A p \in dst : Key(p) # Key(o)}

BlSetupKernelCommandLine(bits, bootOptions, bootArgs, kernelFlags) ==
    BlpCopyArgs(BlpCopyArgs(BlpCopyArgs(bootOptions, bootArgs), kernelFlags),
                When("safe" \in bits, {"-x"}) \cup When("single" \in bits, {"-s"})
                  \cup When("verbose" \in bits, {"-v"})
                  \cup When("net" \in bits, {"srv=1"}))

\* The boot mode the command line is built with.
BeforeLine(bootOptions, net, recoveryVariable) ==
    LET asked == BootMode \cup When("-x" \in bootOptions, {"safe"})
                          \cup When(net, {"net"})
    IN asked \cup When(recoveryVariable
                         /\ {"net", "hiberfromfv"} \cap asked = {},
                       {"recovery"})

\* What the options on the command line add to the boot mode.
FromLine(bits, options) ==
    LET set == bits
              \cup When("-v" \in options, {"verbose"})
              \cup When("-x" \in options, {"safe"})
              \cup When("-s" \in options, {"single", "verbose"})
              \cup When("-no_panic_dialog" \in options, {"skippanic"})
    IN set \ When("safe" \in set \/ "slide=0" \in options, {"aslr"})

-----------------------------------------------------------------------------
At(s) == pc = "unlock" /\ stage = s

\* A step of HibernateBoot that comes before the options or after the unlocking.
HibernateStep ==
    /\ ReadVariables \/ ReadImageKey \/ ImageNotFound \/ ImageFound
         \/ ImageOnCoreStorage \/ ResumeFails \/ Resume \/ StartKernel
    /\ UNCHANGED <<stage, modeVars, panicVars>>

\* The memory of the loader is gone.
Forget == stage' = "root" /\ flags' = {} /\ line' = NoLine

Reset == ResetSystem /\ Forget /\ UNCHANGED panicVars

Fails == EfiMainFails /\ Forget /\ UNCHANGED panicVars

\* EfiMain enables the slide of the kernel and looks for the hot keys.
DetectHotKey ==
    /\ BlDetectHotKey
    /\ \E keys \in HotKeys, locked, runs \in BOOLEAN :
         BlSetBootMode(HotKey(BootMode \cup {"aslr"}, keys, locked, runs))
    /\ stage' = "root"
    /\ UNCHANGED <<line, panicVars>>

\* IoDetectRoot: the loader was started from a helper partition, or not.
IoDetectRoot ==
    /\ At("root")
    /\ flags' \in {flags, flags \cup {"notroot"}}
    /\ stage' = "options"
    /\ UNCHANGED <<vars, line, panicVars>>

\* The options of the loader come first, then boot-args, then the kernel flags
\* of the configuration file; safe mode ignores boot-args, and the file too
\* unless the loader is on a helper partition.
BlProcessOptions ==
    /\ At("options")
    /\ \E bootOptions, bootArgs, kernelFlags \in OptionSets,
          net, recoveryVariable, allocated \in BOOLEAN :
         LET bits == BeforeLine(bootOptions, net, recoveryVariable)
             args == When("safe" \notin bits, bootArgs)
             file == When("safe" \notin bits \/ "notroot" \in bits, kernelFlags)
             built == BlSetupKernelCommandLine(bits, bootOptions, args, file)
         IN /\ line' = IF allocated THEN built ELSE NoLine
            /\ BlSetBootMode(FromLine(bits, line'))
    /\ stage' = "checks"
    /\ UNCHANGED <<hibernateVars, pc, panicVars>>

\* The loader of the recovery system itself neither starts that system nor
\* unlocks a volume.
DetectRecoveryDirectory ==
    /\ At("checks")
    /\ flags' \in {flags,
                   (flags \cup {"fromrecovery"}) \ {"recovery", "notroot"}}
    /\ stage' = "panic"
    /\ UNCHANGED <<vars, line, panicVars>>

-----------------------------------------------------------------------------
\* BlpDetectPanicLoop. A time never written is 0, long ago. The log is the
\* loader's own: its signature is right, and it can be written. (A log that is
\* not would be deleted, and no loop found.) The code below never gets here.
BlpDetectPanicLoop ==
    LET next == (log.index + 1) % LogSize
        deltas == {clock - log.time[i] : i \in {j \in DOMAIN log.time :
                                                 log.time[j] < clock}}
        recent == deltas # {} /\ \A delta \in deltas : delta < LoopSeconds
        written == [time |-> [log.time EXCEPT ![next + 1] = clock],
                    index |-> next, sum |-> info.sum]
    IN CASE log = NoLog ->
              [log |-> [time |-> <<clock, 0, 0, 0, 0>>, index |-> 0,
                        sum |-> info.sum],
               result |-> "none"]
         [] log # NoLog /\ log.sum = info.sum ->
              [log |-> written, result |-> "same"]
         [] log # NoLog /\ log.sum # info.sum ->
              IF recent THEN [log |-> NoLog, result |-> "shutdown"]
                        ELSE [log |-> written, result |-> "none"]

\* The status the loop over the pieces ends with: that of the first piece that
\* is not there, or of the last of all; asked for the size only, GetVariable
\* never succeeds.
PieceStatus == IF info.pieces < MaxPieces THEN "notfound" ELSE "toosmall"

DetectLoop ==
    IF PieceStatus = "success" THEN BlpDetectPanicLoop
                               ELSE [log |-> log, result |-> "none"]

\* Recorded for the property: the report, once.
Shown ==
    IF shown # <<>> /\ shown[Len(shown)].sum = info.sum
      THEN shown
      ELSE Append(shown, [sum |-> info.sum, time |-> clock])

\* Mutant: the old command line is kept.
RebuiltLines_Same(bits) == {line}

\* The command line is built again from the old one, or is lost with it.
RebuiltLines(bits) ==
    IF line = NoLine
      THEN {NoLine}
      ELSE {NoLine, BlSetupKernelCommandLine(bits, line, {}, {})}

\* The dialog is over: the hot keys count again.
AfterDialog ==
    {HotKey(BootMode, keys, locked, runs) :
       keys \in HotKeys, locked \in BOOLEAN, runs \in BOOLEAN}

DialogIsSkipped ==
    mode # {} \/ {"skippanic", "fromrecovery"} \cap flags # {}

\* A panic loop shuts the machine down, a report known already shows nothing.
BlShowPanicDialog ==
    /\ At("panic")
    /\ ~DialogIsSkipped /\ info # NoInfo
    /\ LET found == DetectLoop.result
       IN /\ \E bits \in IF found = "none" THEN AfterDialog ELSE {BootMode} :
               /\ BlSetBootMode(bits)
               /\ line' \in IF found = "none" THEN RebuiltLines(bits) ELSE {line}
          /\ pc' = IF found = "shutdown" THEN "failed" ELSE pc
          /\ shown' = IF found = "shutdown" THEN <<>> ELSE Shown
    /\ log' = DetectLoop.log
    /\ stage' = "recovery"
    /\ UNCHANGED <<hibernateVars, info, clock, panics>>

\* No dialog: skipped, no report, or the bit of SystemAudioVolume that asks
\* for it is not set.
NoPanicDialog ==
    /\ At("panic")
    /\ stage' = "recovery"
    /\ UNCHANGED <<vars, modeVars, panicVars>>

-----------------------------------------------------------------------------
\* The loader of the recovery system takes over, or cannot be started.
BlpRunRecoveryEfi ==
    /\ At("recovery")
    /\ "recovery" \in flags
    /\ Fails

NoRecovery ==
    /\ At("recovery")
    /\ stage' = "ready"
    /\ UNCHANGED <<vars, modeVars, panicVars>>

\* FvLookupUnlockCoreVolumeKey collects keys on a helper partition only.
Unlock ==
    /\ At("ready")
    /\ NoVolumeKey \/ ("notroot" \in flags /\ FoundVolumeKey)
    /\ UNCHANGED <<stage, modeVars, panicVars>>

BootLoaderStep ==
    \/ HibernateStep \/ Reset \/ Fails \/ DetectHotKey \/ IoDetectRoot
    \/ BlProcessOptions \/ DetectRecoveryDirectory
    \/ BlShowPanicDialog \/ NoPanicDialog
    \/ BlpRunRecoveryEfi \/ NoRecovery \/ Unlock

-----------------------------------------------------------------------------
Start == PowerOn /\ Forget /\ UNCHANGED panicVars

Stop == (Hibernate \/ ShutDown \/ PowerCut) /\ Forget /\ UNCHANGED panicVars

\* The system panics and is started again.
Panic ==
    /\ ShutDown
    /\ panics < MaxPanics
    /\ panics' = panics + 1
    /\ \E gap \in Gaps, pieces \in {1, MaxPieces} :
         /\ clock' = clock + gap
         /\ info' = [sum |-> panics', pieces |-> pieces]
    /\ Forget
    /\ UNCHANGED <<log, shown>>

\* The system takes the report of the last panic out of NVRAM.
TakePanicInfo ==
    /\ pc \in Running
    /\ info # NoInfo
    /\ info' = NoInfo
    /\ UNCHANGED <<vars, stage, modeVars, log, clock, panics, shown>>

BootNext == Start \/ BootLoaderStep \/ Stop \/ Panic \/ TakePanicInfo

BootSpec == BootInit /\ [][BootNext]_bootVars

\* The loader runs on while there is power.
FairBootSpec == BootSpec /\ WF_bootVars(BootLoaderStep)

-----------------------------------------------------------------------------
Agrees(bits, options) ==
    /\ "safe" \in bits <=> "-x" \in options
    /\ "single" \in bits <=> "-s" \in options
    /\ "verbose" \in bits <=> {"-v", "-s"} \cap options # {}
    /\ "net" \in bits => "srv=1" \in options
    /\ "safe" \in bits \/ "slide=0" \in options => "aslr" \notin bits

\* What the kernel is told is what the loader decided, whichever of the hot
\* keys, the options and the second look at the hot keys decided it: safe mode,
\* single user mode, the verbose console (which single user mode implies) and
\* a network root are on the command line exactly when the loader set them,
\* and a kernel in safe mode or with slide=0 is not moved (Options.c:452-482,
\* 793-846; PanicDialog.c:370-376).
CommandLineFollowsModes ==
    pc \in {"load", "os"} /\ line # NoLine => Agrees(BootMode, line)

\* Panic loops are stopped: no kernel is started by a boot that has looked at
\* the sixth different report in less than 180 seconds (PanicDialog.c:191-231).
PanicLoopIsStopped ==
    pc = "os" /\ Len(shown) > LogSize =>
      shown[Len(shown)].time - shown[Len(shown) - LogSize].time >= LoopSeconds
=============================================================================
