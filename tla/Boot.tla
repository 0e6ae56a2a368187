-------------------------------- MODULE Boot --------------------------------
(***************************************************************************)
(* The boot chain: the MBR starts a program through the loader; OSDMenu or *)
(* HOSDMenu patches the OSD and starts the launcher, which ends in the     *)
(* loader again; a title for which eGSM was asked runs under it.  Each     *)
(* program replaces the one before in memory, and what stays is the IOP,   *)
(* pfs0: and the expansion bay.                                            *)
(***************************************************************************)
EXTENDS Mbr, OsdMenu, Egsm

vars == <<consoleVars, loaderVars, mbrVars, launcherVars, menu, gsmVars>>

Init == ConsoleInit /\ LoaderInit /\ MbrInit /\ LauncherInit /\ MenuInit /\ EgsmInit

\* The program before is gone, with all it knew.
Replaced ==
  /\ asked' = Options("none", FALSE) /\ handed' = BuildArgs(Options("none", FALSE))
  /\ psx' = FALSE /\ flags' = {} /\ lines' = 0 /\ paths' = <<>>
  /\ trigger' = "none" /\ after' = "args" /\ arg' = "quiet" /\ psxHw' = FALSE
  /\ at' = [e |-> 0, n |-> 0, kind |-> "none", file |-> "none"] /\ tried' = {}

\* Cards and files may have changed while another program ran.
Forgotten == exists' = [f \in DOMAIN exists |-> "unknown"]

\* The MBR started OSDMenu from a card or the XFROM, or HOSDMenu.
StartMenu ==
  /\ pc = "app" /\ hint = "none"
  /\ \/ asked.file \in {"osdmenu", "mc0", "mc1"} /\ EnterOSDMenu(asked.file, psxHw)
     \/ asked.file = "hosdmenu" /\ EnterHOSDMenu(Last(Read.list) = "-mbrboot")
  /\ Replaced /\ Forgotten
  /\ UNCHANGED <<bay, launcherVars, gsmVars>>

\* The launcher's own file was started, with arguments of any kind.
StartLauncher ==
  /\ pc = "app" /\ hint = "none"
  /\ asked.file \in {"mc0", "pfs"}
  /\ \E arg0 \in Args, device \in {"mc", "APA", "XFROM"},
        o \in {NoOpts, [NoOpts EXCEPT !.gsm = TRUE], [NoOpts EXCEPT !.patinfo = TRUE]} :
       LauncherMain(arg0, device, o)
  /\ Replaced /\ Forgotten
  /\ UNCHANGED <<mounted, drivers, bay, menu, gsmVars>>

(* A title under eGSM.  Nothing of the boot chain runs any more: what it   *)
(* left does not matter to the title, and is not kept.                     *)
StartTitle ==
  /\ pc = "app" /\ Read.gsm # "none"
  /\ EnableGSM
  /\ pc' = "title"
  /\ Replaced /\ Forgotten
  /\ mounted' = "none" /\ drivers' = {} /\ bay' = "off"
  /\ current' = {} /\ hint' = "none" /\ opts' = NoOpts /\ given' = "none" /\ opened' = "none"
  /\ left' = 0 /\ target' = "none" /\ dkwdrv' = "none" /\ menu' = NoMenu

Next ==
  \/ MbrNext /\ UNCHANGED <<launcherVars, menu, gsmVars>>
  \/ LauncherNext /\ UNCHANGED <<mbrVars, menu, gsmVars>>
  \/ LoaderNext /\ UNCHANGED <<mbrVars, launcherVars, menu, gsmVars>>
  \/ MenuNext /\ UNCHANGED <<asked, handed, mbrVars, gsmVars>>
  \/ EgsmNext /\ UNCHANGED <<loaderVars, mbrVars, launcherVars, menu>>
  \/ StartMenu \/ StartLauncher \/ StartTitle

Spec == Init /\ [][Next]_vars

TypeOK == ConsoleTypeOK /\ LoaderTypeOK /\ MbrTypeOK /\ LauncherTypeOK

---------------------------------------------------------------------------
(* The properties.                                                         *)

(* A program that was looked for and found is found again by the loader,   *)
(* which mounts and opens it anew: the console does not end up dead.  The  *)
(* exceptions: it was not looked for, a PSX lost its drivers in the switch *)
(* to PS2 mode, and IOPRP images, which this build of the loader refuses.  *)
FoundAgain ==
  pc = "dead" =>
    \/ ~asked.checked
    \/ asked.ioprp
    \/ psx /\ asked.file \in Files /\ DeviceOf(asked.file) \notin drivers

(* What one program hands to the loader arrives: the options are read as   *)
(* they were meant, and the file that was found is found again.            *)
HandOver == LoaderAgrees /\ FoundAgain

(* The MBR falls back to OSDSYS, and HOSDMenu to the recovery program,     *)
(* only when what they should have started cannot be, never because of a   *)
(* mount or drivers that another program left.                             *)
FallbackHonest == OsdHonest /\ RecoveryHonest
=============================================================================
