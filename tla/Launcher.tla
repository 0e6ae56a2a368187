------------------------------ MODULE Launcher ------------------------------
(***************************************************************************)
(* The OSDMenu launcher (src/launcher/src): started by OSDMenu, HOSDMenu   *)
(* or any other program, it makes a list of targets out of its arguments   *)
(* or of a configuration file, and tries one after the other: reset the    *)
(* IOP with the drivers of the device, look for the file, leave the        *)
(* console to the loader.                                                  *)
(***************************************************************************)
EXTENDS Loader

CONSTANTS
  Targets,        \* what a path may name
  MaxTargets,     \* bound: paths of a list
  PartitionCnfs   \* what a partition's SYSTEM.CNF may say

KnownTargets ==
  {"mc?", "mc0", "usb?", "usb0", "ata", "udpfs", "xfrom", "pfs", "patinfo", "cdrom",
   "rom", "bad"}
ASSUME LauncherAssumption ==
  /\ Targets \subseteq KnownTargets /\ MaxTargets \in Nat
  /\ PartitionCnfs \subseteq PartitionCnf

VARIABLES
  current,     \* currentDevice, as the set of its bits
  hint,        \* settings.deviceHint; "none" before the launcher is started
  opts,        \* settings.dev9ShutdownType, gsmArgument and flags
  left,        \* how many paths are still to try; which, shows when they are
  target,      \* the path being tried
  given,       \* argv: a path, a list of them, or an item of OSDMENU.CNF
  opened,      \* which OSDMENU.CNF was opened (history)
  dkwdrv       \* settings.dkwdrvPath as far as startCDROM() got

launcherVars == <<current, hint, opts, left, target, given, opened, dkwdrv>>

\* The drivers on the IOP after initModules(D): ata_bd comes with APA too.
Served(D) ==
  {"mc"} \cup (IF D \cap {"ATA", "APA"} # {} THEN {"ata"} ELSE {})
         \cup (IF "APA" \in D THEN {"apa"} ELSE {})
         \cup (IF "USB" \in D THEN {"usb"} ELSE {})
         \cup (IF "UDPFS" \in D THEN {"udpfs"} ELSE {})
         \cup (IF "XFROM" \in D THEN {"xfrom"} ELSE {})
Dev9 == {"ATA", "APA", "UDPFS", "XFROM"}
Disks == {"ATA", "APA"}

(* initModules(): one bit in common with what was loaded last is taken for *)
(* all drivers being there.  Otherwise the IOP is reset; when a module     *)
(* does not load, currentDevice keeps naming what was there before.        *)
Present(D) == current \cap D # {}
LoadModules(D, ok) ==
  IF Present(D) THEN ok /\ UNCHANGED <<mounted, drivers, current, bay>>
  ELSE /\ mounted' = "none"
       /\ drivers' = IF ok THEN Served(D) ELSE {}
       /\ current' = IF ok THEN D ELSE current
       /\ bay' = IF ok /\ D \cap Dev9 # {} THEN "on"
                 ELSE IF current # {} /\ current \cap Disks = {} THEN "off" ELSE bay

\* LoadELFFromFile(): the settings become the options of the loader.
LoadFrom(file) ==
  LoadELF([Options(file, TRUE) EXCEPT
             !.gsm = opts.gsm, !.skip = opts.skip, !.dev9 = opts.dev9])

DevicesOf(t) ==
  CASE t \in {"mc?", "mc0", "mc1"} -> {"Basic"}
    [] t \in {"usb?", "usb0"}      -> {"USB"}
    [] t = "ata"                   -> {"ATA"}
    [] t = "udpfs"                 -> {"UDPFS"}
    [] t \in {"xfrom", "xdkwdrv"}  -> {"XFROM"}
    [] t \in {"pfs", "dkwdrv"}     -> {"APA"}
    [] t = "patinfo"               -> {"APA", "ATA"}
    [] t \in {"cdrom", "rom", "bad", "none"} -> {}

---------------------------------------------------------------------------
(* main(), handleOSDM() and handleQuickboot(): where the targets are from. *)

ListFails == left' = 0 /\ pc' = "l_next" /\ UNCHANGED target

\* The entry of OSDMENU.CNF that was chosen; its first path may name a disc.
ChooseEntry ==
  \/ ListFails
  \/ left' = 0 /\ pc' = "osdsys" /\ UNCHANGED target   \* OSDSYS or POWEROFF
  \/ left' = 0 /\ pc' \in {"l_cdinit", "l_dkwdrv"} /\ UNCHANGED target
  \/ /\ left' \in 0 .. MaxTargets - 1
     /\ target' \in Targets \ {"cdrom"}
     /\ pc' = "l_launch"
\* The paths of a quickboot file.
ChoosePaths == left' \in 0 .. MaxTargets /\ pc' = "l_next" /\ UNCHANGED target

\* main(): the path, the disc or the partition it was given.
MainPath ==
  /\ pc = "l_main" /\ given \in KnownTargets \cup {"path"}
  /\ target' \in IF given = "path" THEN Targets ELSE {given}
  /\ given' = "none"
  /\ pc' = "l_launch"
  /\ UNCHANGED <<mounted, drivers, exists, loaderVars, current, hint, opts, left, opened, dkwdrv>>

(* handleOSDM() with a configuration in memory, on a card or in the XFROM. *)
(* Given the second card, it turns to the first when there is no file.     *)
OpenOsdm ==
  /\ pc = "l_main" /\ given \in {"osdma", "osdm0", "osdm1", "osdm2"}
  /\ \E ok \in BOOLEAN, found \in [{"cnf0", "cnf1", "xcnf"} -> BOOLEAN] :
       LET D    == {"Basic", "CDROM"} \cup (IF given = "osdm2" THEN {"XFROM"} ELSE {})
           file == IF given = "osdm2" THEN "xcnf"
                   ELSE IF given = "osdm1" /\ found["cnf1"] THEN "cnf1" ELSE "cnf0"
           seen == IF ~ok \/ given = "osdma" THEN {}
                   ELSE {file} \cup (IF given = "osdm1" THEN {"cnf1"} ELSE {})
       IN /\ IF given = "osdma" THEN ok /\ UNCHANGED <<mounted, drivers, current, bay>>
                                ELSE LoadModules(D, ok)
          /\ \A f \in DOMAIN found \ seen : found[f]
          /\ Look([f \in seen |-> found[f]])
          /\ hint' = IF given = "osdm2" THEN "XFROM" ELSE hint
          /\ IF ok /\ found[file] THEN ChooseEntry ELSE ListFails
          /\ opened' = IF seen = {} THEN "none" ELSE IF found[file] THEN file ELSE "missing"
  /\ given' = "none"
  /\ UNCHANGED <<asked, handed, opts, dkwdrv>>

\* initPFS(): drivers, hdd0:, and the partition on pfs0:.
InitPFS(p, found, ok) == ok /\ CanMount(p, found)

\* A configuration on the disk: handleOSDM() and handleQuickboot().
LoadDisk ==
  /\ pc = "l_main" /\ given \in {"osdm9", "list"}
  /\ \E ok \in BOOLEAN :
       /\ LoadModules(IF given = "osdm9" THEN {"APA", "Basic", "CDROM"} ELSE {"APA"}, ok)
       /\ IF ~ok THEN ListFails
          ELSE /\ pc' = IF given = "osdm9" THEN "l_osdmhdd" ELSE "l_quickhdd"
               /\ UNCHANGED <<left, target>>
  /\ hint' = IF given = "osdm9" THEN "APA" ELSE hint
  /\ given' = "none"
  /\ UNCHANGED <<exists, asked, handed, opts, opened, dkwdrv>>

\* deinitPFS() follows, whether the file opened or not.
OpenOsdmHdd ==
  /\ pc = "l_osdmhdd"
  /\ \E found \in [{"sysconf", "hcnf"} -> BOOLEAN] :
       LET mounts == InitPFS("sysconf", found, TRUE)
       IN /\ mounts \/ found["hcnf"]
          /\ Look([f \in (IF mounts THEN DOMAIN found ELSE {"sysconf"}) |-> found[f]])
          /\ IF mounts /\ found["hcnf"]
               THEN ChooseEntry /\ opened' = "hcnf" ELSE ListFails /\ opened' = "missing"
  /\ UNCHANGED <<mounted, drivers, loaderVars, current, hint, opts, given, dkwdrv>>

\* The partition of the file is left mounted.
AfterQuickbootKept == "part"

(* deinitPFS() after the file was read; a file that does not open is left  *)
(* with the partition mounted, and ends the launcher.                      *)
AfterQuickboot == "none"
QuickbootHdd ==
  /\ pc = "l_quickhdd"
  /\ \E there, open \in BOOLEAN :
       /\ Look(Only("part", there))
       /\ LET mounts == CanMount("part", Only("part", there))
          IN IF mounts /\ open
               THEN ChoosePaths /\ mounted' = AfterQuickboot
               ELSE ListFails /\ mounted' = IF mounts THEN "part" ELSE mounted
  /\ UNCHANGED <<drivers, loaderVars, current, hint, opts, dkwdrv>>

\* handleQuickboot() on any other device; a card counts as a MemoryCard.
Quickboot ==
  /\ pc = "l_main" /\ given = "list"
  /\ \E D \in {{"MemoryCard"}, {"USB"}, {"ATA"}}, ok, open \in BOOLEAN :
       /\ LoadModules(D, ok)
       /\ IF ok /\ open THEN ChoosePaths ELSE ListFails
  /\ given' = "none"
  /\ UNCHANGED <<exists, asked, handed, hint, opts, opened, dkwdrv>>

\* Try every path; then fail(), which ends in OSDSYS.
NextTarget ==
  /\ pc = "l_next"
  /\ IF left = 0
       THEN pc' = "osdsys" /\ UNCHANGED <<left, target>>
       ELSE pc' = "l_launch" /\ target' \in Targets /\ left' = left - 1
  /\ UNCHANGED <<mounted, drivers, exists, loaderVars, current, hint, opts, dkwdrv>>

---------------------------------------------------------------------------
(* launchPath().                                                           *)

LaunchDevice ==
  /\ pc = "l_launch" /\ DevicesOf(target) # {}
  /\ \E ok \in BOOLEAN :
       LoadModules(DevicesOf(target), ok) /\ pc' = IF ok THEN "l_probe" ELSE "l_next"
  /\ UNCHANGED <<exists, asked, handed, hint, opts, left, target, dkwdrv>>

\* A path of no device, or an hdd0:/ path without a partition.
LaunchOther ==
  /\ pc = "l_launch" /\ target \in {"cdrom", "bad"}
  /\ pc' = IF target = "cdrom" THEN "l_cdinit" ELSE "l_next"
  /\ UNCHANGED <<mounted, drivers, exists, loaderVars, launcherVars>>

\* execROMPath() resets the IOP and does not touch currentDevice.
ExecROMPath ==
  /\ pc = "l_launch" /\ target = "rom"
  /\ mounted' = "none" /\ drivers' = {}
  /\ pc' \in {"rom", "l_next"}
  /\ UNCHANGED <<exists, loaderVars, launcherVars>>

\* handleMC(), handleUDPFS(), handleGenericPath(), handleBDM() of one unit.
Units(t) == IF t = "mc?" THEN <<"mc0", "mc1">> ELSE <<t>>
ProbeFile ==
  /\ pc = "l_probe" /\ target \in {"mc?", "mc0", "mc1", "ata", "usb0", "udpfs", "xfrom", "xdkwdrv"}
  /\ \E found \in [{Units(target)[i] : i \in DOMAIN Units(target)} -> BOOLEAN] :
       LET good == SelectInSeq(Units(target), LAMBDA f : Opens(f, found, mounted))
       IN /\ Look(found)
          /\ IF good > 0 THEN LoadFrom(Units(target)[good]) ELSE pc' = "l_next" /\ UNCHANGED loaderVars
  /\ UNCHANGED <<mounted, drivers, launcherVars>>

(* handleBDM() with a wildcard.  A unit without the file leaves its error  *)
(* in res, and the test for missing units takes it for one: the loop ends  *)
(* after the first unit.                                                   *)
ProbeUnits ==
  /\ pc = "l_probe" /\ target = "usb?"
  /\ \E found \in [{"unit0", "usb0"} -> BOOLEAN] :
       /\ Look(found)
       /\ IF Opens("unit0", found, mounted) /\ Opens("usb0", found, mounted)
            THEN LoadFrom("usb0") ELSE pc' = "l_next" /\ UNCHANGED loaderVars
  /\ UNCHANGED <<mounted, drivers, launcherVars>>

\* handlePFS(): mounted for the look, and unmounted again.
ProbePFS ==
  /\ pc = "l_probe" /\ target \in {"pfs", "dkwdrv"}
  /\ \E found \in [{target, Home[target]} -> BOOLEAN] :
       LET mounts == InitPFS(Home[target], found, TRUE)
       IN /\ Look(IF mounts THEN found ELSE Only(Home[target], found[Home[target]]))
          /\ mounts \/ found[target]
          /\ IF mounts /\ found[target]
               THEN LoadFrom(target) ELSE pc' = "l_next" /\ UNCHANGED loaderVars
  /\ UNCHANGED <<mounted, drivers, launcherVars>>

(* handlePATINFO(): the partition says what to start.  With -patinfo the   *)
(* launcher itself is what it names, and the target is the next argument.  *)
(* A file of the partition or an embedded program starts unasked, without  *)
(* the options of the launcher.                                            *)
ProbePATINFO ==
  /\ pc = "l_probe" /\ target = "patinfo"
  /\ \E there \in BOOLEAN, p \in PartitionCnfs :
       /\ Look(Only("part", there))
       /\ IF ~there \/ "apa" \notin drivers
            THEN pc' = "l_next" /\ UNCHANGED <<loaderVars, opts, target>>
          ELSE /\ opts' = [opts EXCEPT !.dev9 = p.dev9]
               /\ IF opts.patinfo \/ p.boot \notin {"embedded", "pfs"}
                    THEN /\ IF opts.patinfo THEN target' \in Targets \ {"patinfo"}
                                            ELSE target' = p.boot
                         /\ pc' = "l_launch"
                         /\ UNCHANGED loaderVars
                    ELSE /\ LoadELF(PatinfoOptions(p, IF p.boot = "pfs" THEN "pfs" ELSE "part",
                                                 FALSE, p.args))
                         /\ UNCHANGED target
  /\ UNCHANGED <<mounted, drivers, current, hint, left, dkwdrv>>

---------------------------------------------------------------------------
(* startCDROM().                                                           *)

CdDevices == {"CDROM"} \cup (IF hint = "mc" THEN {} ELSE {hint})

\* With the drivers of the hint, or without when they do not load.
InitCdrom ==
  /\ pc = "l_cdinit"
  /\ \E ok \in BOOLEAN, D \in {CdDevices, {"CDROM"}} :
       /\ D # CdDevices => ~Present(CdDevices)
       /\ ~ok => D = {"CDROM"}
       /\ LoadModules(D, ok)
       /\ pc' = IF ok THEN "l_dkwdrv" ELSE "l_next"
  /\ UNCHANGED <<exists, asked, handed, hint, opts, left, target, dkwdrv>>

(* DKWDRV is looked for on the disk, in the XFROM and on the cards, unless *)
(* its path was given; then __sysconf goes on pfs0: for the eGSM options.  *)
FindDkwdrv ==
  /\ pc = "l_dkwdrv"
  /\ \E found \in [{"system", "dkwdrv", "xdkwdrv", "mc0", "mc1"} -> BOOLEAN],
        use, preset, conf \in BOOLEAN :
       LET search == use /\ ~preset
           disk   == search /\ hint = "APA" /\ "apa" \in drivers
           places == <<"dkwdrv", "xdkwdrv", "mc0", "mc1">>
           first  == SelectInSeq(places, LAMBDA f :
                       IF f = "dkwdrv" THEN disk /\ found["system"] /\ found[f]
                                       ELSE Opens(f, found, "none"))
           seen   == (IF disk THEN {"system", "dkwdrv"} ELSE {})
                       \cup (IF search THEN {"xdkwdrv", "mc0", "mc1"} ELSE {})
       IN /\ \A f \in DOMAIN found \ seen : found[f]
          /\ (preset => use) /\ (hint # "APA" => conf)
          /\ Look([f \in seen |-> found[f]])
          /\ dkwdrv' = IF preset THEN "mc0" ELSE IF search /\ first > 0 THEN places[first] ELSE "none"
          /\ mounted' = IF hint # "APA" THEN mounted
                        ELSE IF "apa" \in drivers /\ conf THEN "sysconf" ELSE "none"
  /\ pc' = "l_disc"
  /\ UNCHANGED <<drivers, loaderVars, current, hint, opts, left, target>>

Unmounted == IF hint = "APA" THEN "none" ELSE mounted

\* No libcdvd, no PlayStation disc, no SYSTEM.CNF: pfs0: keeps __sysconf.
DiscFails ==
  /\ pc = "l_disc"
  /\ pc' = "l_next"
  /\ UNCHANGED <<mounted, drivers, exists, loaderVars, launcherVars>>

StartPS1Disc ==
  /\ pc = "l_disc"
  /\ mounted' = Unmounted
  /\ IF dkwdrv # "none"
       THEN /\ target' = dkwdrv /\ opts' = [opts EXCEPT !.skip = TRUE]
            /\ pc' = "l_launch" /\ UNCHANGED loaderVars
       ELSE /\ \/ LoadELF([Options("ps1vn", TRUE) EXCEPT !.elf = TRUE])
               \/ pc' = "rom" /\ UNCHANGED loaderVars
            /\ UNCHANGED <<opts, target>>
  /\ UNCHANGED <<drivers, exists, current, hint, left, dkwdrv>>

StartPS2Disc ==
  /\ pc = "l_disc"
  /\ mounted' = Unmounted
  /\ opts' = [opts EXCEPT !.gsm = TRUE] \/ UNCHANGED opts
  /\ LoadELF([Options("disc", TRUE) EXCEPT
                !.gsm = opts'.gsm, !.skip = opts.skip, !.dev9 = opts.dev9])
  /\ UNCHANGED <<drivers, exists, current, hint, left, target, dkwdrv>>

---------------------------------------------------------------------------
NoOpts == [gsm |-> FALSE, skip |-> FALSE, dev9 |-> "All", patinfo |-> FALSE]

Args == {"path", "list", "osdma", "osdm0", "osdm1", "osdm2", "osdm9"}

LauncherInit ==
  /\ given = "none" /\ opened = "none"
  /\ current = {} /\ hint = "none" /\ opts = NoOpts
  /\ left = 0 /\ target = "none" /\ dkwdrv = "none"

\* main(): settings, the guess at the device, the global flags.
LauncherMain(arg0, device, flags0) ==
  /\ given' = arg0 /\ hint' = device /\ opts' = flags0
  /\ current' = {} /\ left' = 0 /\ target' = "none" /\ opened' = "none" /\ dkwdrv' = "none"
  /\ pc' = "l_main"

LauncherNext ==
  \/ MainPath \/ OpenOsdm \/ LoadDisk \/ OpenOsdmHdd \/ Quickboot
  \/ /\ \/ QuickbootHdd \/ NextTarget \/ LaunchDevice \/ LaunchOther \/ ExecROMPath
        \/ ProbeFile \/ ProbeUnits \/ ProbePFS \/ ProbePATINFO
        \/ InitCdrom \/ FindDkwdrv \/ DiscFails \/ StartPS1Disc \/ StartPS2Disc
     /\ UNCHANGED <<given, opened>>

LauncherTypeOK ==
  /\ current \subseteq {"Basic", "MemoryCard", "ATA", "USB", "UDPFS", "APA", "CDROM", "XFROM"}
  /\ hint \in {"none", "mc", "APA", "XFROM"}
  /\ left \in 0 .. MaxTargets
  /\ opts.dev9 \in {"All", "HDD", "None"}

---------------------------------------------------------------------------
(* The properties.                                                         *)

\* The file that target names is on its device, as far as was seen.
There(t) ==
  CASE t = "mc?"     -> exists["mc0"] = "yes" \/ exists["mc1"] = "yes"
    [] t = "usb?"    -> exists["usb0"] = "yes" /\ exists["unit0"] = "yes"
    [] t = "patinfo" -> exists["part"] = "yes"
    [] t \in {"pfs", "dkwdrv"} -> exists[Home[t]] = "yes" /\ exists[t] # "no"
    [] t \in {"cdrom", "rom", "bad", "none"} -> FALSE
    [] OTHER         -> exists[t] = "yes"

(* The launcher gives a target up when its file is not there, and for few  *)
(* other reasons: drivers did not load and currentDevice stands for those  *)
(* of before, a failed disc has left __sysconf on pfs0:, or initModules()  *)
(* took the drivers of an ata path for those of a PATINFO path.            *)
MissHonest ==
  pc = "l_next" /\ There(target) =>
    \/ drivers # Served(current)
    \/ mounted = "sysconf" /\ hint = "APA"
    \/ target = "patinfo" /\ "APA" \notin current
=============================================================================
