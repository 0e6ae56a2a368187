------------------------------ MODULE OsdMenu ------------------------------
(***************************************************************************)
(* OSDMenu and HOSDMenu (src/patcher/src): the console's own OSD with      *)
(* items added to its menu.  OSDMenu is started from a memory card or the  *)
(* XFROM and patches the OSD of the ROM or of OSDR.XLF, HOSDMenu is        *)
(* started from the hard disk and patches HDD-OSD.  A chosen item, an      *)
(* application of the browser and a disc go to the embedded launcher,      *)
(* which reads the configuration again and has to find the one the menu    *)
(* was made from.                                                          *)
(*                                                                         *)
(* Whether a place to patch is found depends on the ROM: any way out of    *)
(* the OSD is one the patches may have missed, too.                        *)
(***************************************************************************)
EXTENDS Launcher

VARIABLE
  menu      \* slot: settings.mcSlot, 9 for HOSDMenu; conf: the configuration
            \* that was read; short: started with -mbrboot; psx: FLAG_PSX

NoMenu == [slot |-> 0, conf |-> "none", short |-> FALSE, psx |-> FALSE]

CardConf(slot) == IF slot = 1 THEN "cnf1" ELSE "cnf0"

---------------------------------------------------------------------------
(* OSDMenu: main() up to the configuration.  The results of initModules()  *)
(* and of the XFROM drivers of a PSX are not looked at.                    *)
EnterOSDMenu(file, psx0) ==
  /\ menu' = [NoMenu EXCEPT !.psx = psx0,
                !.slot = CASE file = "mc0" -> 0 [] file = "mc1" -> 1 [] file = "osdmenu" -> 2]
  /\ mounted' = "none"
  /\ drivers' \in {{"mc"}, {}} \cup (IF psx0 THEN {{"mc", "xfrom"}} ELSE {})
  /\ pc' = "m_config"

\* A search that stays with the card of the boot.
SlotOfBoot(slot, conf) == IF conf = "xcnf" THEN 2 ELSE slot

(* loadConfig(): where the configuration was found.  The card that is      *)
(* tried first does not change the slot, be it 2 for a start from the      *)
(* XFROM.  Without its drivers a file of the XFROM is not seen.            *)
SlotOf(slot, conf) ==
  IF conf = "xcnf" THEN 2
  ELSE IF conf = CardConf(slot) THEN slot
  ELSE IF conf = "cnf1" THEN 1 ELSE 0

LoadConfig ==
  /\ pc = "m_config"
  /\ \E found \in [{"xcnf", "cnf0", "cnf1"} -> BOOLEAN] :
       LET seen   == IF "xfrom" \in drivers THEN DOMAIN found ELSE {"cnf0", "cnf1"}
           first  == CardConf(menu.slot)
           second == IF menu.slot = 1 THEN "cnf0" ELSE "cnf1"
           conf   == IF Opens("xcnf", found, mounted) THEN "xcnf"
                     ELSE IF Opens(first, found, mounted) THEN first ELSE second
       IN /\ \A f \in DOMAIN found \ seen : found[f]
          /\ Look([f \in seen |-> found[f]])
          /\ menu' = IF Opens(conf, found, mounted)
                       THEN [menu EXCEPT !.conf = conf, !.slot = SlotOf(@, conf)] ELSE menu
  /\ pc' = "m_osdr"
  /\ UNCHANGED <<mounted, drivers>>

(* loadOSDR(), unpackOSDR() and the OSD of the ROM, which a PSX does not   *)
(* have.  patchExecuteOSDSYS() leaves the IOP to the OSD.                  *)
LaunchOSDSYS ==
  /\ pc = "m_osdr"
  /\ \E unpacked, rom \in BOOLEAN :
       /\ menu.psx => ~rom
       /\ pc' = IF unpacked \/ rom THEN "m_osd" ELSE "exit"
  /\ mounted' = "none" /\ drivers' = {}
  /\ menu' = [menu EXCEPT !.psx = FALSE]
  /\ UNCHANGED exists

---------------------------------------------------------------------------
(* HOSDMenu.  With -mbrboot the drivers of the MBR are taken over.         *)
EnterHOSDMenu(short) ==
  /\ menu' = [NoMenu EXCEPT !.slot = 9, !.short = short]
  /\ IF short THEN pc' = "m_sysconf" /\ UNCHANGED <<mounted, drivers>>
     ELSE /\ mounted' = "none"
          /\ \/ drivers' = {"ata", "apa"} /\ pc' = "m_sysconf"
             \/ drivers' = {} /\ pc' = "m_recovery"

\* The configuration has been read and its partition stays.
AfterConfigKept == "sysconf"
AfterConfig == "none"

LoadConfigHdd ==
  /\ pc = "m_sysconf"
  /\ \E found \in [{"sysconf", "hcnf"} -> BOOLEAN] :
       IF CanMount("sysconf", found)
         THEN /\ Look(found)
              /\ menu' = [menu EXCEPT !.conf = IF found["hcnf"] THEN "hcnf" ELSE "none"]
              /\ mounted' = AfterConfig
              /\ pc' = "m_system"
         ELSE /\ found["hcnf"] /\ Look(Only("sysconf", found["sysconf"]))
              /\ pc' = "m_recovery"
              /\ UNCHANGED <<menu, mounted>>
  /\ UNCHANGED drivers

(* main() and launchOSDSYS(): the two names of HDD-OSD, encrypted or not,  *)
(* count as one image, which is there and loads, or not.                   *)
LaunchHddOsd ==
  /\ pc = "m_system"
  /\ \E found \in [{"system", "osdimage"} -> BOOLEAN] :
       LET mounts == CanMount("system", found)
       IN /\ mounts \/ found["osdimage"]
          /\ Look(IF mounts THEN found ELSE Only("system", found["system"]))
          /\ mounted' = IF mounts THEN "none" ELSE mounted
          /\ IF mounts /\ found["osdimage"]
               THEN pc' = "m_osd" /\ drivers' = {}
               ELSE pc' = "m_recovery" /\ UNCHANGED drivers
  /\ UNCHANGED menu

---------------------------------------------------------------------------
(* launchItem(): the launcher's arguments, -xosd, -osd or -hosd among      *)
(* them.  The files of the configuration do not change meanwhile.          *)
Hint == CASE menu.slot = 9 -> "APA" [] menu.slot = 2 -> "XFROM" [] OTHER -> "mc"

LaunchItem(item) ==
  /\ LauncherMain(item, Hint, NoOpts)
  /\ exists' = [f \in DOMAIN exists |-> IF f \in Confs \cup {"sysconf"} THEN exists[f] ELSE "unknown"]
  /\ UNCHANGED <<mounted, drivers>>

\* handleMenuEntry(): the item goes by its number and the slot.
HandleMenuEntry ==
  /\ pc = "m_osd" /\ menu.conf # "none"
  /\ LaunchItem(CASE menu.slot = 0 -> "osdm0" [] menu.slot = 1 -> "osdm1"
                  [] menu.slot = 2 -> "osdm2" [] menu.slot = 9 -> "osdm9")
  /\ UNCHANGED menu

\* The browser, a disc, and the HDD applications of HDD-OSD.
LaunchUnlisted ==
  /\ pc = "m_osd"
  /\ \E item \in {"mc0", "mc1", "cdrom"} \cup (IF menu.slot = 9 THEN {"pfs", "patinfo"} ELSE {}) :
       LaunchItem(item)
  /\ menu' = NoMenu

\* Everything the OSD does by itself: a DVD, HDDLOAD, and what is not patched.
OsdLeaves ==
  /\ pc = "m_osd"
  /\ pc' = "rom"
  /\ menu' = NoMenu
  /\ UNCHANGED <<mounted, drivers, exists, launcherVars>>

\* launchPayload() gives the launcher a path without a unit number.
LaunchPayload ==
  /\ pc = "m_recovery"
  /\ LaunchItem("usb?")
  /\ menu' = NoMenu

---------------------------------------------------------------------------
MenuInit == menu = NoMenu

MenuNext ==
  \/ (LoadConfig \/ LaunchOSDSYS \/ LoadConfigHdd \/ LaunchHddOsd) /\ UNCHANGED <<launcherVars, bay>>
  \/ (HandleMenuEntry \/ LaunchUnlisted \/ OsdLeaves \/ LaunchPayload) /\ UNCHANGED bay

---------------------------------------------------------------------------
(* The properties.                                                         *)

(* An item of the menu is looked up in the file the menu was made from,    *)
(* although menu and launcher search cards, XFROM and disk on their own    *)
(* (settings.c:88-113, handler_osdm.c:55-97).  The exception: OSDMenu was  *)
(* started from the XFROM and read the configuration of the first card;    *)
(* the slot still names the XFROM, where the launcher finds no file, or    *)
(* one that OSDMenu, whose own drivers had failed, did not see.            *)
ItemFromMenu ==
  menu.conf # "none" /\ opened # "none" =>
    opened = menu.conf \/ (menu.slot = 2 /\ menu.conf = "cnf0")

(* HOSDMenu gives up for the recovery program only when a partition or the *)
(* OSD is not there, or its own drivers did not load: those of the MBR are *)
(* loaded whenever it is told to use them, and pfs0: is free each time it  *)
(* mounts (main.c:106-144, mbr/src/common.c:156).                          *)
RecoveryHonest ==
  pc = "m_recovery" =>
    \/ \E f \in {"sysconf", "system", "osdimage"} : exists[f] = "no"
    \/ ~menu.short /\ drivers = {}
=============================================================================
