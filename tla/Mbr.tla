-------------------------------- MODULE Mbr --------------------------------
(***************************************************************************)
(* OSDMenu MBR (src/mbr): the first program run from the hard disk.  It    *)
(* loads the IOP drivers, runs fsck when the disk asks for it, reads       *)
(* OSDMBR.CNF and starts what the arguments of the ROM or the buttons of   *)
(* the pad ask for; when nothing can be started it falls back to the OSD.  *)
(* It is one thread: an action is a call of a handler.                     *)
(***************************************************************************)
EXTENDS Loader

CONSTANTS
  Kinds,       \* what a path may name
  ArgKinds,    \* what a boot_..._arg line may hold
  FlagNames,   \* options that are on or off
  Triggers,    \* buttons, and "auto" for none
  Pressed,     \* those that may be pressed; the others only have entries
  MaxLines,    \* bound: lines of the configuration
  Patinfos     \* what a partition's SYSTEM.CNF may say

KnownKinds ==
  {"cdrom", "dvd", "$HOSDSYS", "$XOSD", "$OSDMENU", "$PSBBN", "mc?", "patinfo",
   "mc0", "mc1", "pfs", "ata", "xfrom"}
ASSUME MbrAssumption ==
  /\ Kinds # {} /\ Kinds \subseteq KnownKinds
  /\ FlagNames \subseteq {"bbn", "dkwdrv", "ps1vn"}
  /\ Pressed \subseteq Triggers /\ "none" \notin Triggers
  /\ MaxLines \in Nat
  /\ Patinfos \subseteq PartitionCnf

VARIABLES
  psxHw,       \* the console is a PSX
  arg,         \* argv[1]: "quiet" for none or SkipFsck, or "given"
  psx, flags,  \* settings.isPSX, settings.flags
  lines,       \* how many lines were read
  paths,       \* settings.paths
  trigger,     \* the button read
  at,          \* e: entry, n: path of it, kind: what args[0] named, file: names now
  tried,       \* the paths args[0] has been (history)
  after        \* who called the handler: "args" or "paths"

setVars == <<psx, flags>>
cnfVars == <<lines, paths>>
runVars == <<trigger, at, tried, after>>
mbrVars == <<psxHw, arg, psx, flags, lines, paths, trigger, at, tried, after>>

Asked == {"osd", "game", "dvd", "hddapp", "dnas", "other"}

\* Drivers there are after initModules(target); rom0:PFLASH is in PSX ROMs only.
Loaded(target) ==
  {"mc"} \cup (IF target \in {"default", "xfrom"} /\ psxHw THEN {"xfrom"} ELSE {})
         \cup (IF target \in {"default", "hdd"} THEN {"ata", "apa"} ELSE {})

(* initModules(): the IOP is reset.  A module may fail to load, and hdd0:  *)
(* may never open; the result is looked at in main() only.  Whether the    *)
(* XFROM drivers loaded is not part of it.                                 *)
InitModules(target) ==
  /\ mounted' = "none"
  /\ \E lost \in {{}, {"xfrom"}} :
       drivers' \in {Loaded(target) \ lost, Loaded(target) \ (lost \cup {"apa", "ata"}), {}}

\* The partition stays on pfs0:.
ReleasedNot(p) == p

\* umountPFS(), after p was mounted and looked into.
Released(p) == "none"

\* A handler returns an error: handleOSDArgs() gives up, main() goes on.
Fails == pc' = IF after = "args" THEN "execosd" ELSE "next"

---------------------------------------------------------------------------
(* main(), up to the configuration.                                        *)

Init0 ==
  /\ pc = "init"
  /\ InitModules("default")
  /\ pc' = IF Loaded("default") \ {"xfrom"} \subseteq drivers' THEN "args" ELSE "osdsys"
  /\ UNCHANGED <<exists, loaderVars, mbrVars>>

\* isFsckRequired() asks the disk; a failure ends in OSDSYS.
CheckFsck ==
  /\ pc = "args"
  /\ IF arg = "quiet" THEN pc' = "config"
     ELSE \E res \in {-1, 0, 1} :
            pc' = IF res = 0 THEN "config" ELSE IF res = 1 THEN "fsck" ELSE "osdsys"
  /\ UNCHANGED <<mounted, drivers, exists, loaderVars, mbrVars>>

\* runFsck(); the four names of the utility count as one file.
RunFsck ==
  /\ pc = "fsck"
  /\ \E found \in [{"system", "fsck"} -> BOOLEAN] :
       /\ Look(found)
       /\ IF CanMount("system", found) /\ Opens("fsck", found, "system")
            THEN LoadELF(Options("fsck", TRUE))
            ELSE pc' = "osdsys" /\ UNCHANGED loaderVars
  /\ mounted' = "none"
  /\ UNCHANGED <<drivers, mbrVars>>

(* loadConfig(): the file of the XFROM comes before that of the disk.      *)
OpenConfig ==
  /\ pc = "config"
  /\ psx' = psxHw
  /\ \E found \in [{"xconf", "sysconf"} -> BOOLEAN] :
       IF Opens("xconf", found, "none") THEN pc' = "lines" /\ UNCHANGED mounted
       ELSE IF CanMount("sysconf", found)
              THEN \/ pc' = "lines" /\ mounted' = "sysconf"
                   \/ pc' = "dispatch" /\ UNCHANGED mounted
              ELSE pc' = "dispatch" /\ UNCHANGED mounted
  /\ UNCHANGED <<drivers, exists, loaderVars, psxHw, arg, flags, cnfVars, runVars>>

(* The search for the entry of a button ends on the last entry at the      *)
(* latest, and a new entry goes behind the one it ended on.                *)
Found(t) == {i \in DOMAIN paths : paths[i].trigger = t}
EntryFor(t) ==
  IF Found(t) # {} THEN CHOOSE i \in Found(t) : \A j \in Found(t) : i <= j
  ELSE Len(paths) + 1
WithEntry(t) ==
  IF Found(t) # {} THEN paths
  ELSE Append(paths, [trigger |-> t, paths |-> <<>>, args |-> <<>>])

(* A line for a button.  Paths go by the number of their line; what they   *)
(* name shows when they are tried.  Only files that give a path before an  *)
(* argument are read: main() uses the first path unasked.                  *)
ReadPathLine ==
  /\ pc = "lines" /\ lines < MaxLines
  /\ lines' = lines + 1
  /\ \E t \in Triggers :
       paths' = [WithEntry(t) EXCEPT ![EntryFor(t)].paths = Append(@, lines')]
  /\ UNCHANGED <<consoleVars, loaderVars, psxHw, arg, setVars, runVars>>

ReadArgLine ==
  /\ pc = "lines" /\ lines < MaxLines
  /\ lines' = lines + 1
  /\ \E t \in Triggers, a \in ArgKinds :
       /\ Found(t) # {}
       /\ paths' = [WithEntry(t) EXCEPT ![EntryFor(t)].args = Append(@, a)]
  /\ UNCHANGED <<consoleVars, loaderVars, psxHw, arg, setVars, runVars>>

\* A line that switches an option on; all are off before.
ReadFlagLine ==
  /\ pc = "lines" /\ lines < MaxLines
  /\ lines' = lines + 1
  /\ \E f \in FlagNames \ flags : flags' = flags \cup {f}
  /\ UNCHANGED <<consoleVars, loaderVars, psxHw, arg, psx, paths, runVars>>

EndConfig ==
  /\ pc = "lines"
  /\ pc' = "dispatch"
  /\ mounted' = IF mounted = "none" THEN "none" ELSE Released(mounted)
  /\ UNCHANGED <<drivers, exists, loaderVars, mbrVars>>

(* main() and handleOSDArgs(): what was asked for; an argument counts when *)
(* the ROM started the MBR itself, and SkipFsck counts as one of Skip...   *)
DispatchArg ==
  /\ pc = "dispatch"
  /\ after' = "args"
  /\ \E what \in IF arg = "quiet" THEN {"osd"} ELSE Asked :
       pc' = CASE what = "game"   -> "disc"
               [] what = "dvd"    -> "dvd"
               [] what = "hddapp" -> "patinfo"
               [] what = "dnas"   -> "dnas"
               [] what \in {"osd", "other"} -> "execosd"
  /\ UNCHANGED <<mounted, drivers, exists, loaderVars, psxHw, arg, setVars, cnfVars,
                 trigger, at, tried>>

ReadPad ==
  /\ pc = "dispatch"
  /\ after' = "paths"
  /\ trigger' \in Pressed
  /\ pc' = "entry"
  /\ UNCHANGED <<mounted, drivers, exists, loaderVars, psxHw, arg, setVars, cnfVars, at, tried>>

\* The next entry of the button; args[0] is its first path.
NextEntry ==
  /\ pc = "entry"
  /\ LET rest == {i \in DOMAIN paths : i > at.e /\ paths[i].trigger = trigger}
     IN IF rest = {} THEN pc' = "execosd" /\ UNCHANGED <<at, tried>>
        ELSE \E i \in rest, kind \in Kinds :
               /\ \A j \in rest : i <= j
               /\ at' = [e |-> i, n |-> 1, kind |-> kind, file |-> kind]
               /\ tried' = tried \cup {Head(paths[i].paths)}
               /\ pc' = "handle"
  /\ UNCHANGED <<mounted, drivers, exists, loaderVars, psxHw, arg, setVars, cnfVars, trigger, after>>

\* The loop over the paths of an entry leaves args[0] as the handler left it.
NextPath ==
  /\ pc = "next"
  /\ IF at.n < Len(paths[at.e].paths)
       THEN pc' = "handle" /\ at' = [at EXCEPT !.n = @ + 1]
       ELSE pc' = "entry" /\ UNCHANGED at
  /\ UNCHANGED <<mounted, drivers, exists, loaderVars, psxHw, arg, setVars, cnfVars,
                 trigger, tried, after>>

---------------------------------------------------------------------------
(* Starting something.                                                     *)

Given == IF after = "paths" THEN paths[at.e].args ELSE <<>>
NoFlags == Given # <<>> /\ Last(Given) = "-noflags"
Passed  == IF NoFlags THEN Front(Given) ELSE Given

(* parseGlobalFlags(): the arguments behind the last one that is the       *)
(* program's own.                                                          *)
GlobalFlags(args) ==
  LET own   == SelectLastInSeq(args, LAMBDA a : a \notin {"-gsm", "-dev9", "-psxmode"})
      on(a) == \E i \in DOMAIN args : i > own /\ args[i] = a
  IN [args |-> SubSeq(args, 1, own), gsm |-> on("-gsm"),
      dev9 |-> IF on("-dev9") THEN "HDD" ELSE "All", psxmode |-> on("-psxmode")]

\* executeELF(): a PSX is switched into PS2 mode, which needs drivers again.
ExecuteELF(o, ps) ==
  /\ LoadELF(o)
  /\ IF ~ps THEN UNCHANGED <<mounted, drivers>>
     ELSE InitModules(IF o.file \in Files /\ Home[o.file] = "xfrom" THEN "xfrom" ELSE "hdd")

\* The end of handleConfigPath(), for a file that was found.
StartConfigPath(file) ==
  LET r == GlobalFlags(Passed)
  IN /\ psx' = (psx /\ ~r.psxmode)
     /\ ExecuteELF([Options(file, TRUE) EXCEPT !.args = r.args, !.gsm = r.gsm, !.dev9 = r.dev9],
                   psx')

\* handleConfigPath(): options are reset first, and for good.
HandleConfigPath ==
  /\ pc = "handle"
  /\ flags' = IF NoFlags THEN {} ELSE flags
  /\ pc' = CASE at.file = "cdrom"                 -> "disc"
             [] at.file = "dvd"                   -> "dvd"
             [] at.file = "patinfo"               -> "patinfo"
             [] at.file = "$HOSDSYS"              -> "mounthosd"
             [] at.file = "$XOSD" /\ psx          -> "mountxosd"
             [] at.file = "$OSDMENU" /\ psx       -> "osdmenu"
             [] at.file = "$PSBBN"                -> "bbn"
             [] OTHER                             -> "file"
  /\ UNCHANGED <<mounted, drivers, exists, loaderVars, psxHw, arg, psx, cnfVars, runVars>>

\* mountPFS(SYSTEM_PARTITION) before startHOSDSYS() and startXOSD().
MountSystem ==
  /\ pc \in {"mounthosd", "mountxosd"}
  /\ \E there \in BOOLEAN :
       /\ Look(Only("system", there))
       /\ IF CanMount("system", Only("system", there))
            THEN mounted' = "system" /\ pc' = IF pc = "mounthosd" THEN "hosdsys" ELSE "xosd"
            ELSE Fails /\ UNCHANGED mounted
  /\ UNCHANGED <<drivers, loaderVars, mbrVars>>

(* startHOSDSYS(), with the system partition mounted: nothing without      *)
(* HOSDSYS; HOSDMenu, when it is installed, instead of it.                 *)
StartHOSDSYS ==
  /\ pc \in {"hosdsys", "osdhosdsys"}
  /\ \E found \in [{"system", "hosdsys", "hosdmenu"} -> BOOLEAN] :
       /\ Look(found)
       /\ IF ~Opens("hosdsys", found, mounted)
            THEN /\ mounted' = "none"
                 /\ IF pc = "osdhosdsys" THEN pc' = "osdsys" ELSE Fails
                 /\ UNCHANGED <<drivers, loaderVars>>
          ELSE LET o == IF Opens("hosdmenu", found, "system")
                          THEN [Options("hosdmenu", TRUE) EXCEPT !.dev9 = "None"]
                          ELSE Options("hosdsys", TRUE)
               IN IF psx THEN ExecuteELF(o, TRUE)
                  ELSE /\ LoadELF([o EXCEPT !.args = If(o.file = "hosdmenu", <<"-mbrboot">>)])
                       /\ mounted' = "none" /\ UNCHANGED drivers
  /\ UNCHANGED mbrVars

(* startXOSD() unmounts on success only: the partition stays mounted when  *)
(* XOSD is not there or cannot be decrypted.                               *)
StartXOSD ==
  /\ pc \in {"xosd", "osdxosd"}
  /\ \E there, decrypted \in BOOLEAN :
       /\ Look(Only("xosd", there))
       /\ IF Opens("xosd", Only("xosd", there), mounted) /\ decrypted
            THEN /\ LoadELF([Options("kelf", TRUE) EXCEPT !.elf = TRUE])
                 /\ mounted' = "none"
            ELSE /\ IF pc = "osdxosd" THEN pc' = "osdhosdsys" ELSE Fails
                 /\ UNCHANGED <<mounted, loaderVars>>
  /\ UNCHANGED <<drivers, mbrVars>>

StartOSDMenu ==
  /\ pc = "osdmenu"
  /\ LoadELF(Options("osdmenu", FALSE))
  /\ UNCHANGED <<mounted, drivers, exists, mbrVars>>

\* $PSBBN: looks for osdboot.elf and leaves nothing mounted.
StartPSBBN ==
  /\ pc = "bbn"
  /\ \E found \in [{"system", "osdboot"} -> BOOLEAN] :
       /\ Look(found)
       /\ IF CanMount("system", found) /\ found["osdboot"]
            THEN StartConfigPath("osdboot")
            ELSE /\ Fails
                 /\ mounted' = IF CanMount("system", found) THEN Released("system") ELSE mounted
                 /\ UNCHANGED <<drivers, loaderVars, psx>>
  /\ UNCHANGED <<psxHw, arg, flags, cnfVars, runVars>>

(* Memory cards, files of a partition (checkPFSPath() mounts and unmounts) *)
(* and of other devices.  A path mc? ends up naming mc1.                   *)
CardsOf(file) == IF file = "mc?" THEN <<"mc0", "mc1">> ELSE <<file>>

\* The partition and the device are checked, the file is not.
CheckPathUnopened(file, found) ==
  file \in Files /\ IF OnPfs(file) THEN CanMount(Home[file], found) ELSE DeviceOf(file) \in drivers

CheckPath(file, found) ==
  /\ file \in Files
  /\ IF OnPfs(file) THEN CanMount(Home[file], found) /\ found[file]
                    ELSE Opens(file, found, mounted)
NamedAfter(file) == IF file = "mc?" THEN "mc1" ELSE file

StartFile ==
  /\ pc = "file"
  /\ \E found \in [{"mc0", "mc1", "pfs", "part", "ata", "xfrom"} -> BOOLEAN] :
       LET names == {CardsOf(at.file)[i] : i \in DOMAIN CardsOf(at.file)} \cap Files
           seen  == names \cup {Home[f] : f \in {g \in names : OnPfs(g)}}
           good  == SelectInSeq(CardsOf(at.file), LAMBDA f : CheckPath(f, found))
       IN /\ \A f \in DOMAIN found \ seen : found[f]
          /\ Look([f \in seen |-> found[f]])
          /\ IF good > 0
               THEN StartConfigPath(CardsOf(at.file)[good]) /\ UNCHANGED at
               ELSE /\ Fails
                    /\ at' = [at EXCEPT !.file = NamedAfter(@)]
                    /\ UNCHANGED <<mounted, drivers, loaderVars, psx>>
  /\ UNCHANGED <<psxHw, arg, flags, cnfVars, trigger, tried, after>>

(* handleHDDApplication(): parsePATINFO() cuts the path to the partition,  *)
(* so that a path tried again names no file.  An embedded program starts   *)
(* as it is, another one when it is found; one on other devices, unasked.  *)
(* A last argument -psxmode keeps a PSX as it is.                          *)
HandleHDDApplication ==
  /\ pc = "patinfo"
  /\ at' = IF after = "paths" THEN [at EXCEPT !.file = "part"] ELSE at
  /\ \E found \in [{"part", "pfs", "mc0", "mc1", "ata"} -> BOOLEAN], p \in Patinfos :
       LET names == IF p.boot \in {"mc?", "pfs", "ata"}
                      THEN {CardsOf(p.boot)[i] : i \in DOMAIN CardsOf(p.boot)} ELSE {}
           seen  == {"part"} \cup names
           good  == SelectInSeq(CardsOf(p.boot), LAMBDA f : CheckPath(f, found))
           opens == found["part"] /\ "apa" \in drivers
           args  == Passed \o p.args
           stays == args # <<>> /\ Last(args) = "-psxmode"
           file  == IF names # {} THEN CardsOf(p.boot)[good]
                    ELSE IF p.boot = "embedded" THEN "part"
                    ELSE IF p.boot = "cdrom" THEN "disc" ELSE p.boot
       IN /\ \A f \in DOMAIN found \ seen : found[f]
          /\ Look([f \in seen |-> found[f]])
          /\ IF opens /\ (names # {} => good > 0)
               THEN LET o == PatinfoOptions(p, file, names # {},
                                             IF stays THEN Front(args) ELSE args)
                    IN /\ psx' = (psx /\ ~stays)
                       /\ IF p.boot = "cdrom"
                            THEN /\ pc' = "ps2disc"
                                 /\ UNCHANGED <<mounted, drivers, loaderVars>>
                            ELSE ExecuteELF(o, psx')
               ELSE Fails /\ UNCHANGED <<mounted, drivers, loaderVars, psx>>
  /\ UNCHANGED <<psxHw, arg, flags, cnfVars, trigger, tried, after>>

\* handleDNAS() starts dnasload without looking for it.
HandleDNAS ==
  /\ pc = "dnas"
  /\ ExecuteELF(Options("dnas", FALSE), psx)
  /\ UNCHANGED <<exists, mbrVars>>

---------------------------------------------------------------------------
(* Discs.  bootFail() ends in execOSD() in any case.                       *)

StartGameDisc ==
  /\ pc = "disc"
  /\ IF psx THEN InitModules("default") ELSE UNCHANGED <<mounted, drivers>>
  /\ pc' \in {"execosd", "ps1disc", "ps2disc"}
  /\ UNCHANGED <<exists, loaderVars, mbrVars>>

\* handlePS1Disc(): DKWDRV from the XFROM or from the disk, or PS1DRV.
HandlePS1Disc ==
  /\ pc = "ps1disc"
  /\ \E found \in [{"xdkwdrv", "system", "dkwdrv"} -> BOOLEAN] :
       /\ "dkwdrv" \notin flags => \A f \in DOMAIN found : found[f]
       /\ IF "dkwdrv" \in flags THEN Look(found) ELSE UNCHANGED exists
       /\ IF "dkwdrv" \in flags /\ Opens("xdkwdrv", found, mounted)
            THEN LoadELF([Options("xdkwdrv", TRUE) EXCEPT !.skip = TRUE])
          ELSE IF "dkwdrv" \in flags /\ CanMount("system", found) /\ found["dkwdrv"]
            THEN LoadELF([Options("dkwdrv", TRUE) EXCEPT !.skip = TRUE])
          ELSE IF "ps1vn" \in flags
            THEN LoadELF([Options("ps1vn", TRUE) EXCEPT !.elf = TRUE])
          ELSE pc' = "rom" /\ UNCHANGED loaderVars
  /\ mounted' = "none"
  /\ UNCHANGED <<drivers, mbrVars>>

\* handlePS2Disc(), with the eGSM option of the title when there is one.
HandlePS2Disc ==
  /\ pc = "ps2disc"
  /\ \E gsm \in BOOLEAN : LoadELF([Options("disc", TRUE) EXCEPT !.gsm = gsm])
  /\ UNCHANGED <<mounted, drivers, exists, mbrVars>>

\* startDVDVideo(): the player of a memory card, or that of the ROM.
StartDVDVideo ==
  /\ pc = "dvd"
  /\ IF psx THEN InitModules("default") ELSE UNCHANGED <<mounted, drivers>>
  /\ pc' \in {"execosd", "rom"}
  /\ UNCHANGED <<exists, loaderVars, mbrVars>>

---------------------------------------------------------------------------
(* execOSD(): PSBBN, XOSD, HOSDMenu or HOSDSYS, and OSDSYS at last.        *)
ExecOSD ==
  /\ pc = "execosd"
  /\ \E found \in [{"system", "osdboot"} -> BOOLEAN] :
       LET asks == "bbn" \in flags
       IN /\ asks \/ found["osdboot"]
          /\ Look(IF asks THEN found ELSE Only("system", found["system"]))
          /\ IF ~CanMount("system", found)
               THEN pc' = "osdsys" /\ UNCHANGED <<mounted, drivers, loaderVars>>
             ELSE IF asks /\ found["osdboot"]
               THEN ExecuteELF(Options("osdboot", TRUE), psx)
             ELSE /\ pc' = IF psx THEN "osdxosd" ELSE "osdhosdsys"
                  /\ mounted' = "system"
                  /\ UNCHANGED <<drivers, loaderVars>>
  /\ UNCHANGED mbrVars

---------------------------------------------------------------------------
MbrInit ==
  /\ pc = "init"
  /\ psxHw \in BOOLEAN
  /\ arg \in {"quiet", "given"}
  /\ psx = FALSE /\ flags = {}
  /\ lines = 0 /\ paths = <<>>
  /\ trigger = "none" /\ after = "args"
  /\ at = [e |-> 0, n |-> 0, kind |-> "none", file |-> "none"] /\ tried = {}

MbrNext ==
  \/ Init0 \/ CheckFsck \/ RunFsck
  \/ OpenConfig \/ ReadPathLine \/ ReadArgLine \/ ReadFlagLine \/ EndConfig
  \/ DispatchArg \/ ReadPad \/ NextEntry \/ NextPath \/ HandleConfigPath
  \/ MountSystem \/ StartHOSDSYS \/ StartXOSD \/ StartOSDMenu \/ StartPSBBN \/ StartFile
  \/ HandleHDDApplication \/ HandleDNAS
  \/ StartGameDisc \/ HandlePS1Disc \/ HandlePS2Disc \/ StartDVDVideo
  \/ ExecOSD

MbrTypeOK ==
  /\ psxHw \in BOOLEAN /\ psx \in BOOLEAN
  /\ arg \in {"quiet", "given"}
  /\ flags \subseteq FlagNames
  /\ \A i \in DOMAIN paths : paths[i].trigger \in Triggers /\ paths[i].paths # <<>>
  /\ at.e <= Len(paths)

---------------------------------------------------------------------------
(* The properties.                                                         *)

(* OSDSYS takes over from execOSD() when there is no HOSDSYS to start, or  *)
(* no driver for the disk it is on.  The one exception is a PSX on which   *)
(* startXOSD() has failed before and left the partition mounted.           *)
OsdHonest ==
  pc = "osdsys" /\ lines > 0 =>
    \/ exists["system"] = "no" \/ exists["hosdsys"] = "no"
    \/ "apa" \notin drivers
    \/ psx /\ mounted = "system" /\ trigger # "none"

GaveUp == pc = "execosd" /\ after = "paths" /\ at.kind \notin {"cdrom", "dvd"}

(* main.c:116 says "Try all defined paths", and mbr/README.md:25 that      *)
(* multiple paths are supported for every boot_ entry.                     *)
AllTried ==
  GaveUp => \A i \in DOMAIN paths : paths[i].trigger = trigger =>
              \A k \in DOMAIN paths[i].paths : paths[i].paths[k] \in tried
=============================================================================
